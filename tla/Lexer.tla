------------------------------- MODULE Lexer -------------------------------
(* The scanner (src/src/lex/lex.c) driven by a parser.  The lexer is the     *)
(* record `lx`, whose fields are those of struct lexer; the scan functions   *)
(* are operators from a lexer to the token they return and the lexer after   *)
(* it.  A position is a character; a character is itself, or a stand-in for  *)
(* its class: "a" a letter, " " horizontal space, "nl" a newline, "bt" a     *)
(* backquote, "quote" and "backslash" those, "#" what begins no token.       *)
(* Words are not told apart, and there are no digits.                        *)

EXTENDS Integers, Sequences, SequencesExt

CONSTANTS
    Texts,      \* the sources to scan
    MaxDepth    \* LEX_MAX_DEPTH

(* What stands for a character. *)
Chars ==
    {"a", " ", "nl", "bt", "#", "$", "backslash", "quote", "{", "}", "(", ")", "[", "]", ",", ":", ".", "|",
     "<", ">", "=", "+", "-", "*", "/", "%", "!"}

ASSUME LexerAssumption == Texts \subseteq Seq(Chars) /\ MaxDepth \in Nat \ {0}

VARIABLES
    text,       \* the source
    lx,         \* struct lexer
    tok,        \* the parser's current token
    may,        \* what the parser may tell the lexer about it, once
    open,       \* history: what the tokens taken so far have left open
    taken       \* history: how many tokens were taken, up to the end

vars == <<text, lx, tok, may, open, taken>>

None == "none"

-----------------------------------------------------------------------------
(* Characters and tokens.                                                    *)

n == Len(text)
At(j) == IF j < n THEN text[j + 1] ELSE "end"
looking_at(j, lit) == \A k \in DOMAIN lit : At(j + k - 1) = lit[k]
Interp(j) == looking_at(j, <<"$", "{">>)

(* Where `while (!at_end && !Stop) i++` leaves the cursor. *)
SkipTo(i, Stop(_)) ==
    CHOOSE j \in i .. n : (j = n \/ Stop(j)) /\ \A k \in i .. j - 1 : ~ Stop(k)

is_word(j) == At(j) = "a"
is_space(j) == At(j) \in {" ", "nl"}

WordEnd(i) == SkipTo(i, LAMBDA j : ~ is_word(j))
LineEnd(i) == SkipTo(i, LAMBDA j : At(j) = "nl")
BlankEnd(i) == SkipTo(i, LAMBDA j : ~ is_space(j))
RawEnd(i) == SkipTo(i, LAMBDA j : At(j) = "bt")
MarkupCommentEnd(i) == SkipTo(i, LAMBDA j : looking_at(j, <<"-", "-", ">">>))

(* `mode` is where the token was scanned; the code does not keep it. *)
Tok(k, s, e, m) == [kind |-> k, start |-> s, end |-> e, mode |-> m]

(* Operators that an `=` may follow. *)
Binary == {"+", "*", "%", "=", "!", ">", "-", "/"}

Continuation ==
    {"(", "[", "LBRACE", ",", ":", "->", "=>", "op=", "LT", ">",
     "=", "+", "-", "*", "/", "%", "|", "."}
Follow == {")", "]", "RBRACE"}

-----------------------------------------------------------------------------
(* Frames.                                                                   *)

Frame(m, at, c) ==
    [mode |-> m, open_at |-> at, depth |-> 0, close |-> c, close_tag |-> FALSE, named |-> FALSE]

Top(l) == Last(l.stack)
Report(l, code, at) == [l EXCEPT !.reports = @ \cup {<<code, at>>}]
SetTop(l, f) == [l EXCEPT !.stack[Len(l.stack)] = f]

(* Fault: the last level is given out too. *)
push_frame_past(l, m, at, c) == [l EXCEPT !.stack = Append(@, Frame(m, at, c))]

(* Past LEX_MAX_DEPTH the level is not entered, and said so once. *)
push_frame(l, m, at, c) ==
    IF Len(l.stack) >= MaxDepth
    THEN [IF l.depth_reported THEN l ELSE Report(l, "NESTING_TOO_DEEP", at)
            EXCEPT !.depth_reported = TRUE]
    ELSE [l EXCEPT !.stack = Append(@, Frame(m, at, c))]

pop_frame(l) == IF Len(l.stack) > 1 THEN [l EXCEPT !.stack = Front(@)] ELSE l

(* The token of kind k over [i, e), and the lexer after it. *)
Emit(l, k, e) ==
    [lx |-> [l EXCEPT !.i = e], t |-> Tok(k, l.i, e, Top(l).mode)]
EmitPush(l, k, e, m, c) ==
    [Emit(l, k, e) EXCEPT !.lx = push_frame(@, m, l.i, c)]
EmitPop(l, k, e) == [Emit(l, k, e) EXCEPT !.lx = pop_frame(@)]

-----------------------------------------------------------------------------
(* Trivia: spaces, newlines and comments.                                    *)

(* Where a block comment opened at i ends, and how many levels stay open. *)
BlockComment(i) ==
    LET past[j \in 0 .. n] ==
            [nest \in Nat |->
                IF j = n \/ nest = 0 THEN [at |-> j, nest |-> nest]
                ELSE IF looking_at(j, <<"/", "*">>) THEN past[j + 2][nest + 1]
                ELSE IF looking_at(j, <<"*", "/">>) THEN past[j + 2][nest - 1]
                ELSE past[j + 1][nest]]
    IN  past[i + 2][1]

Comment(s, e) == [start |-> s, end |-> e]

Recorded(tr, s, e) == [tr EXCEPT !.comments = <<Comment(s, e)>> \o @]

(* skip_trivia from j: where it ends, the first newline crossed outside a    *)
(* comment, the comments recorded and what is reported.                      *)
Trivia[j \in Nat] ==
    IF At(j) = "nl" THEN [Trivia[j + 1] EXCEPT !.nl = j]
    ELSE IF is_space(j) THEN Trivia[j + 1]
    ELSE IF looking_at(j, <<"/", "/">>)
    THEN LET e == LineEnd(j + 2)
         IN  Recorded(Trivia[e], j, e)
    ELSE IF looking_at(j, <<"/", "*">>)
    THEN LET b == BlockComment(j)
             bad == IF b.nest > 0 THEN {<<"UNTERMINATED_BLOCK_COMMENT", j>>} ELSE {}
         IN  [Recorded(Trivia[b.at], j, b.at) EXCEPT !.reports = @ \cup bad]
    ELSE [at |-> j, nl |-> n, comments |-> <<>>, reports |-> {}]

Skipped(l, tr) ==
    [l EXCEPT !.i = tr.at, !.comments = @ \o tr.comments, !.reports = @ \cup tr.reports]

Joined(tr, later) ==
    [later EXCEPT !.comments = tr.comments \o @, !.reports = @ \cup tr.reports]

(* Characters that begin no token are reported, each skipped with the trivia *)
(* after it, whose newlines are ignored.                                     *)
Unexpected[j \in Nat] ==
    IF At(j) \in {"#", "$", "backslash"}
    THEN [Joined(Trivia[j + 1], Unexpected[Trivia[j + 1].at])
            EXCEPT !.reports = @ \cup {<<"UNEXPECTED_CHAR", j>>}]
    ELSE [at |-> j, comments |-> <<>>, reports |-> {}]

-----------------------------------------------------------------------------
(* The scanners of the four modes.                                           *)

(* Conditions 2 and 3 of the rule for `<`: a tag name, ended as one.         *)
markup_ahead(i) ==
    \/ At(i + 1) = "/"
    \/ /\ is_word(i + 1)
       /\ At(SkipTo(i + 1, LAMBDA j : ~ is_word(j) /\ At(j) # "-")) \in {" ", "nl", ">", "/", "="}

scan_raw_string(l) ==
    LET q == RawEnd(l.i + 1)
    IN  IF q = n THEN Emit(Report(l, "UNTERMINATED_RAW_STRING", l.i), "RAW_STR", n)
        ELSE Emit(l, "RAW_STR", q + 1)

(* Fault: `}` closes the level whatever braces are open in it. *)
RightBraceShallow(l) ==
    IF Top(l).close # "EOF" THEN EmitPop(l, Top(l).close, l.i + 1) ELSE Emit(l, "RBRACE", l.i + 1)

(* `}` closes a brace of this level, or else the level, or else nothing. *)
RightBrace(l) ==
    LET f == Top(l)
    IN  IF f.depth > 0 THEN Emit(SetTop(l, [f EXCEPT !.depth = @ - 1]), "RBRACE", l.i + 1)
        ELSE IF f.close # "EOF" THEN EmitPop(l, f.close, l.i + 1)
        ELSE Emit(l, "RBRACE", l.i + 1)

(* The end of the source leaves the level as it is. *)
NormalEnd(l) ==
    IF Top(l).close = "INTERP_END"
    THEN Emit(Report(l, "UNTERMINATED_INTERP", Top(l).open_at), "EOF", n)
    ELSE Emit(l, "EOF", n)

(* The token at the cursor, which is at one or at the end of the source. *)
NormalToken(l) ==
    LET i == l.i
        c == At(i)
    IN  CASE i = n -> NormalEnd(l)
          [] is_word(i) -> Emit(l, "IDENT", WordEnd(i))
          [] c = "quote" -> EmitPush(l, "STR_START", i + 1, "STR", "EOF")
          [] c = "bt" -> scan_raw_string(l)
          [] c = "{" -> Emit(SetTop(l, [Top(l) EXCEPT !.depth = @ + 1]), "LBRACE", i + 1)
          [] c = "}" -> RightBrace(l)
          [] c \in Binary \cup {"<"} /\ At(i + 1) = "=" -> Emit(l, "op=", i + 2)
          [] looking_at(i, <<"-", ">">>) -> Emit(l, "->", i + 2)
          [] looking_at(i, <<"=", ">">>) -> Emit(l, "=>", i + 2)
          [] c = "<" /\ At(i + 1) # "=" -> Emit(l, IF markup_ahead(i) THEN "MARKUP_START" ELSE "LT", i + 1)
          [] OTHER -> Emit(l, c, i + 1)

scan_normal_token(l) == NormalToken(Skipped(l, Unexpected[l.i]))

(* Where a run of string text ends; a backslash takes what follows it, a     *)
(* newline apart.                                                            *)
StringText[j \in Nat] ==
    IF j >= n \/ At(j) \in {"quote", "nl"} \/ Interp(j) THEN j
    ELSE IF At(j) = "backslash" /\ j + 1 < n /\ At(j + 1) # "nl" THEN StringText[j + 2]
    ELSE StringText[j + 1]

(* Fault: it is not said that the string is cut. *)
UnterminatedSilently(l) == EmitPop(l, "STR_END", l.i)

(* Fault: an unterminated string stays open. *)
UnterminatedKeeps(l) ==
    Emit(Report(l, "UNTERMINATED_STRING", Top(l).open_at), "STR_END", l.i)

Unterminated(l) ==
    EmitPop(Report(l, "UNTERMINATED_STRING", Top(l).open_at), "STR_END", l.i)

scan_in_string(l) ==
    CASE At(l.i) \in {"end", "nl"} -> Unterminated(l)
      [] At(l.i) = "quote" -> EmitPop(l, "STR_END", l.i + 1)
      [] Interp(l.i) -> EmitPush(l, "INTERP_START", l.i + 2, "NORMAL", "INTERP_END")
      [] OTHER -> Emit(l, "STR_TEXT", StringText[l.i])

(* Fault: it is not said which element is never closed. *)
UnclosedSilently(l) == EmitPop(l, "EOF", n)

(* The end of the source inside an element. *)
Unclosed(l) == EmitPop(Report(l, "UNCLOSED_ELEMENT", Top(l).open_at), "EOF", n)

(* IDENT ("-" IDENT)* from a letter at i. *)
NameEnd(i) == SkipTo(i, LAMBDA j : ~ is_word(j) /\ ~ (At(j) = "-" /\ is_word(j + 1)))

TagToken(l) ==
    LET i == l.i
        f == Top(l)
        Name(e) == IF f.named THEN Emit(l, "ATTR_NAME", e)
                   ELSE [Emit(l, "TAG_NAME", e)
                           EXCEPT !.lx = IF is_word(i) THEN SetTop(@, [f EXCEPT !.named = TRUE]) ELSE @]
    IN  CASE i = n -> Unclosed(l)
          [] looking_at(i, <<"/", ">">>) -> EmitPop(l, "TAG_SELF_CLOSE", i + 2)
          [] At(i) = ">" ->
               IF f.close_tag THEN EmitPop(l, "TAG_END", i + 1)
               ELSE [Emit(l, "TAG_END", i + 1) EXCEPT !.lx = SetTop(@, [f EXCEPT !.mode = "CONTENT"])]
          [] looking_at(i, <<".", ".", ".">>) -> Emit(l, "ELLIPSIS", i + 3)
          [] At(i) = "=" -> Emit(l, "ATTR_EQ", i + 1)
          [] At(i) = "quote" -> EmitPush(l, "STR_START", i + 1, "STR", "EOF")
          [] Interp(i) -> EmitPush(l, "INTERP_START", i + 2, "NORMAL", "INTERP_END")
          [] is_word(i) -> Name(NameEnd(i))
          [] OTHER -> [Name(i + 1) EXCEPT
                         !.lx = Report(@, IF f.named THEN "MALFORMED_ATTR_NAME" ELSE "MALFORMED_TAG_NAME", i)]

scan_in_tag(l) == TagToken([l EXCEPT !.i = BlankEnd(@)])

scan_markup_comment(l) ==
    LET e == MarkupCommentEnd(l.i + 4)
    IN  IF e = n THEN Emit(Report(l, "UNTERMINATED_MARKUP_COMMENT", l.i), "MARKUP_COMMENT", n)
        ELSE Emit(l, "MARKUP_COMMENT", e + 3)

EndsText(j) ==
    At(j) = "{" \/ (At(j) = "<" /\ (is_word(j + 1) \/ At(j + 1) \in {"/", "!"})) \/ Interp(j)
ContentEnd(i) == SkipTo(i, EndsText)

scan_in_content(l) ==
    LET i == l.i
    IN  CASE i = n -> Unclosed(l)
          [] looking_at(i, <<"<", "!", "-", "-">>) -> scan_markup_comment(l)
          [] looking_at(i, <<"<", "/">>) ->
               [Emit(l, "TAG_CLOSE_START", i + 2) EXCEPT
                  !.lx = SetTop(@, [Top(l) EXCEPT !.mode = "TAG", !.close_tag = TRUE, !.named = FALSE])]
          [] At(i) = "<" /\ is_word(i + 1) -> EmitPush(l, "MARKUP_START", i + 1, "TAG", "EOF")
          [] Interp(i) -> EmitPush(l, "INTERP_START", i + 2, "NORMAL", "INTERP_END")
          [] At(i) = "{" -> EmitPush(l, "CTRL_START", i + 1, "NORMAL", "CTRL_END")
          [] OTHER -> Emit(l, "MARKUP_TEXT", ContentEnd(i + 1))

-----------------------------------------------------------------------------
(* The line-structure rule and the two slots of lookahead.                   *)

MayEndLine(l, tr) == tr.nl # n /\ l.prev \notin {None} \cup Continuation
NewlineToken(tr) == Tok("NEWLINE", tr.nl, tr.at, "NORMAL")

(* Fault: an end of line is decided from the token before it alone. *)
advance_normal_eager(l) ==
    IF MayEndLine(l, Trivia[l.i])
    THEN [lx |-> Skipped(l, Trivia[l.i]), t |-> NewlineToken(Trivia[l.i])]
    ELSE scan_normal_token(Skipped(l, Trivia[l.i]))

(* `next`, or the end of line before it, with `next` kept in `stash`. *)
LineRule(l, tr, next) ==
    IF MayEndLine(l, tr) /\ next.t.kind \notin {"EOF"} \cup Follow
    THEN [lx |-> [next.lx EXCEPT !.stash = next.t], t |-> NewlineToken(tr)]
    ELSE next

(* A run of newlines is a token only if the tokens on both sides allow it;   *)
(* the one after it is scanned to know.                                      *)
advance_normal(l) ==
    LineRule(l, Trivia[l.i], scan_normal_token(Skipped(l, Trivia[l.i])))

lex_advance(l) ==
    CASE Top(l).mode = "NORMAL" -> advance_normal(l)
      [] Top(l).mode = "STR" -> scan_in_string(l)
      [] Top(l).mode = "TAG" -> scan_in_tag(l)
      [] Top(l).mode = "CONTENT" -> scan_in_content(l)

NoToken == Tok(None, 0, 0, None)

next_raw(l) ==
    IF l.stash # NoToken THEN [lx |-> [l EXCEPT !.stash = NoToken], t |-> l.stash]
    ELSE lex_advance(l)

Significant(r) == IF r.t.kind = "NEWLINE" THEN r ELSE [r EXCEPT !.lx.prev = r.t.kind]

lex_next(l) ==
    Significant(IF l.peeked # NoToken
                THEN [lx |-> [l EXCEPT !.peeked = NoToken], t |-> l.peeked]
                ELSE next_raw(l))

Kept(r) == [r.lx EXCEPT !.peeked = r.t]

(* Fault: one slot serves both lookaheads. *)
lex_peek_one_slot(l) ==
    IF l.peeked # NoToken THEN l ELSE [Kept(next_raw(l)) EXCEPT !.stash = NoToken]

lex_peek(l) == IF l.peeked # NoToken THEN l ELSE Kept(next_raw(l))

-----------------------------------------------------------------------------
(* The parser, as far as the lexer can tell.                                 *)

(* History: what is open after token t.  An element is a "tag" up to its     *)
(* `>`, then "elem", and "closing" from its `</` on.                         *)
Opened(o, what, at) == Append(o, [what |-> what, at |-> at])
TopIs(o, S) == o # <<>> /\ Last(o).what \in S
Becomes(o, what) == Opened(Front(o), what, Last(o).at)
Taken(o, t) ==
    CASE t.kind = "STR_START" -> Opened(o, "str", t.start)
      [] t.kind = "INTERP_START" -> Opened(o, "interp", t.start)
      [] t.kind = "CTRL_START" -> Opened(o, "ctrl", t.start)
      [] t.kind = "LBRACE" -> Opened(o, "brace", t.start)
      [] t.kind = "MARKUP_START" /\ t.mode = "CONTENT" -> Opened(o, "tag", t.start)
      [] t.kind = "TAG_CLOSE_START" /\ o # <<>> -> Becomes(o, "closing")
      [] t.kind = "TAG_END" /\ TopIs(o, {"tag"}) -> Becomes(o, "elem")
      [] \/ t.kind \in {"STR_END", "INTERP_END", "CTRL_END", "TAG_SELF_CLOSE"} /\ o # <<>>
         \/ t.kind = "TAG_END" /\ TopIs(o, {"closing"})
         \/ t.kind = "RBRACE" /\ TopIs(o, {"brace"}) -> Front(o)
      [] OTHER -> o

(* What the parser may tell the lexer of token t: to enter the element a `<` *)
(* begins where an expression stands, that a `>` ended a void element.       *)
Tellable(o, t) ==
    IF t.kind = "MARKUP_START" /\ t.mode = "NORMAL" THEN "open"
    ELSE IF t.kind = "TAG_END" /\ TopIs(o, {"tag"}) THEN "close"
    ELSE None

Init ==
    /\ text \in Texts
    /\ lx = [i |-> 0, stash |-> NoToken, peeked |-> NoToken, prev |-> None,
             stack |-> <<Frame("NORMAL", 0, "EOF")>>, depth_reported |-> FALSE,
             comments |-> <<>>, reports |-> {}]
    /\ tok = NoToken
    /\ may = None
    /\ open = <<>>
    /\ taken = 0

(* lex_next. *)
NextToken ==
    \E r \in {lex_next(lx)} :
        /\ lx' = r.lx /\ tok' = r.t
        /\ open' = Taken(open, r.t)
        /\ may' = Tellable(open, r.t)
        /\ taken' = IF tok.kind = "EOF" THEN taken ELSE taken + 1
        /\ UNCHANGED text

(* lex_peek, at any time. *)
Peek ==
    /\ lx.peeked = NoToken
    /\ lx' = lex_peek(lx)
    /\ UNCHANGED <<text, tok, may, open, taken>>

(* lex_open_markup: the `<` just taken stands where an expression may. *)
OpenMarkup ==
    /\ may = "open" /\ lx.peeked = NoToken
    /\ lx' = push_frame(lx, "TAG", tok.start, "EOF")
    /\ open' = Opened(open, "tag", tok.start)
    /\ may' = None
    /\ UNCHANGED <<text, tok, taken>>

(* lex_close_element: the `>` just taken ends a void element. *)
CloseElement ==
    /\ may = "close" /\ lx.peeked = NoToken
    /\ lx' = IF Top(lx).mode \in {"CONTENT", "TAG"} THEN pop_frame(lx) ELSE lx
    /\ open' = Front(open)
    /\ may' = None
    /\ UNCHANGED <<text, tok, taken>>

Next == NextToken \/ Peek \/ OpenMarkup \/ CloseElement

Spec == Init /\ [][Next]_vars

-----------------------------------------------------------------------------
(* Properties.                                                               *)

Positions == 0 .. n
Modes == {"NORMAL", "STR", "TAG", "CONTENT"}
FrameSet == [mode : Modes, open_at : Positions, depth : Positions,
             close : {"EOF", "INTERP_END", "CTRL_END"}, close_tag : BOOLEAN, named : BOOLEAN]

(* At most LEX_MAX_DEPTH levels, whatever the nesting of the source, and no  *)
(* position past its end.                                                    *)
TypeOK ==
    /\ lx.i \in Positions
    /\ Len(lx.stack) \in 1 .. MaxDepth
    /\ \A k \in DOMAIN lx.stack : lx.stack[k] \in FrameSet
    /\ Head(lx.stack).mode = "NORMAL" /\ Head(lx.stack).close = "EOF"
    /\ \A t \in {tok, lx.stash, lx.peeked} : t.start \in Positions /\ t.end \in Positions
    /\ may \in {"open", "close", None}

InComment(j, cs) == \E k \in DOMAIN cs : cs[k].start <= j /\ j < cs[k].end
Taking == tok' # tok

(* The parser sees the whole source, in order: a token starts where the last *)
(* one ended or later, and what lies between them is space, a comment that   *)
(* is recorded or a character that is reported.  No lookahead, pushed back   *)
(* or peeked at, loses or repeats anything (fuzz_lex.c:79-87, which does not *)
(* reach markup).                                                            *)
NothingLost ==
    [][Taking =>
         /\ tok.end <= tok'.start /\ tok'.start <= tok'.end
         /\ \A j \in tok.end .. tok'.start - 1 :
               \/ is_space(j)
               \/ InComment(j, lx'.comments)
               \/ <<"UNEXPECTED_CHAR", j>> \in lx'.reports]_vars

(* The line-structure rule (03-grammar.md, D060) as the parser sees it, read *)
(* off the tokens on both sides and independent of how far the lexer has     *)
(* looked ahead: an end of line is taken where the token before it does not  *)
(* continue and the one after it does not follow, and nowhere else.  Nothing *)
(* is said of an end of line before the `}` of an interpolation or of a      *)
(* directive: it is a token (lex.c:820), where the document has `}` among    *)
(* the tokens that follow (03-grammar.md:19-23), whatever the `}` closes.    *)
NewlineBetween(s, e) ==
    \E j \in s .. e - 1 :
        /\ At(j) = "nl" /\ ~ InComment(j, lx'.comments)
        /\ \A k \in s .. j : <<"UNEXPECTED_CHAR", k>> \notin lx'.reports
LineStructure ==
    [][Taking =>
         /\ tok'.kind = "NEWLINE" =>
               /\ tok.kind \notin {None, "NEWLINE"} \cup Continuation
               /\ At(tok'.start) = "nl"
         /\ tok.kind = "NEWLINE" => tok'.kind \notin {"NEWLINE", "EOF"} \cup Follow
         /\ /\ tok'.mode = "NORMAL" /\ tok'.kind # "NEWLINE" /\ tok.kind # "NEWLINE"
            /\ NewlineBetween(tok.end, tok'.start)
            => \/ tok.kind \in {None} \cup Continuation
               \/ tok'.kind \in {"EOF", "INTERP_END", "CTRL_END"} \cup Follow]_vars

(* Malformed nesting is never accepted in silence (fuzz_lex.c:5-6), and what *)
(* is missing is said at the opening it belongs to: of a string that a line  *)
(* end or the end of the source cuts, as its end is taken; of whatever else  *)
(* is open innermost, braces apart, where the source ends.  The braces and a *)
(* directive are left to the parser.                                         *)
Missing(o) ==
    CASE o.what = "str" -> "UNTERMINATED_STRING"
      [] o.what = "interp" -> "UNTERMINATED_INTERP"
      [] OTHER -> "UNCLOSED_ELEMENT"
Said(o) == <<Missing(o), o.at>> \in lx'.reports
Innermost(j) == open[j].what # "brace" /\ \A k \in j + 1 .. Len(open) : open[k].what = "brace"
UnclosedIsReported ==
    [][Taking /\ ~ lx'.depth_reported =>
         /\ tok'.kind = "STR_END" /\ At(tok'.start) # "quote" => open # <<>> /\ Said(Last(open))
         /\ tok'.kind = "EOF" =>
               \A j \in DOMAIN open : Innermost(j) => open[j].what = "ctrl" \/ Said(open[j])]_vars

(* The parser may rely on TokenStream, which knows neither characters nor    *)
(* lookahead: up to the depth bound, each token is one that may come after   *)
(* the last, and moves what is open as TokenStream has it.                   *)
Tokens ==
    INSTANCE TokenStream WITH tok <- tok.kind, open <- [k \in DOMAIN open |-> open[k].what]
TokensConform ==
    [][lx'.depth_reported \/ Tokens!Next]_<<tok, open>>

(* The end is reached in a bounded number of calls (lex.h:14-17): a call is  *)
(* always possible, and each takes a character or, once for each quote,      *)
(* closes a string that a line end or the end of the source cuts with a      *)
(* token of no characters.                                                   *)
CallsBounded == taken <= 2 * n + 1

=============================================================================
