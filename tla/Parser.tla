------------------------------- MODULE Parser -------------------------------
(* The control of the parser (src/src/parse/parse.c): which tokens it takes, *)
(* where it goes on after a mistake, its depth counter and its flags, driven *)
(* by every stream of tokens the lexer can deliver (TokenStream).            *)
(*                                                                           *)
(* `todo` is the C stack: what is left to be done, the next thing first.  A  *)
(* token kind stands for expect() of that kind, a lower-case name for a      *)
(* function of parse.c (less its parse_) or for the rest of one.  The tree   *)
(* is left out, and so are the reports that depend on it or on the text of a *)
(* name.                                                                     *)

EXTENDS Integers, Sequences, FiniteSets, SequencesExt

CONSTANTS
    Sources,    \* sources: tokens given, then up to `left` tokens out of `kinds`
    MaxDepth    \* PARSE_MAX_DEPTH

ASSUME ParserAssumption == MaxDepth \in Nat \ {0}

VARIABLES
    todo,       \* what is left to be done
    tok,        \* the current token: its kind
    next,       \* the token lex_peek has looked ahead to
    open,       \* what the tokens delivered have left open (TokenStream)
    src,        \* the rest of the source
    at,         \* how many tokens were taken: the position of `tok`
    prev,       \* the token before it: none, a line end, a brace that opens, or "other"
    cx,         \* depth, loop_depth, in_method, in_stream, no_struct, depth_reported
    before,     \* the locals `before` of the loops that check their progress
    said,       \* last_error_at is the position of `tok`
    reported    \* something was reported

input == <<tok, next, open, src, at, prev>>
vars == <<todo, tok, next, open, src, at, prev, cx, before, said, reported>>

None == "none"

-----------------------------------------------------------------------------
(* Kinds of tokens; of operators that parse alike, one or two of each level. *)
(* "END" is the word end, "STATIC" the reserved word static.                 *)

Ident == {"IDENT", "END"}
Reserved == {"RESERVED", "STATIC"}
Name == Ident \cup Reserved
Literal == {"INT", "FLOAT", "RAW_STR", "KW_TRUE", "KW_FALSE", "KW_NIL"}
MulOps == {"STAR", "SLASH"}
AddOps == {"PLUS", "MINUS"}
CmpOps == {"EQ_EQ", "LT", "MARKUP_START", "KW_IN"}
AssignOps == {"EQ", "PLUS_EQ"}
StartsDeclaration ==
    {"KW_FN", "KW_TYPE", "KW_LET", "KW_VAR", "KW_ROUTE", "KW_STREAM", "KW_GROUP", "KW_TEST", "KW_PUB"}
Boundary ==
    StartsDeclaration \cup {"RBRACE", "KW_RETURN", "KW_IF", "KW_FOR", "KW_WHILE", "KW_MATCH"}
StmtEnd == {"NEWLINE", "RBRACE", "EOF"}

Continuation ==
    {"LPAREN", "LBRACKET", "LBRACE", "COMMA", "DOT", "COLON", "ARROW", "FAT_ARROW", "PIPE",
     "EQ_EQ", "LT", "KW_AND", "KW_OR", "KW_NOT", "KW_ELSE"} \cup MulOps \cup AddOps \cup AssignOps
Follow == {"RPAREN", "RBRACKET", "RBRACE"}

Lex == INSTANCE TokenStream

-----------------------------------------------------------------------------
(* Taking tokens.                                                            *)

(* The kinds the next token may have, lexed with o open.  A string that the  *)
(* end of the source cuts is closed first.                                   *)
Upcoming(o) ==
    IF tok = "EOF" THEN {"EOF"}
    ELSE IF next # None THEN {next}
    ELSE {k \in IF src.ahead # <<>> THEN {Head(src.ahead)}
                ELSE IF src.left = 0 THEN {IF Lex!Mode(o) = "STR" THEN "STR_END" ELSE "EOF"}
                ELSE {k \in src.kinds \cup {"EOF"} : k = "NEWLINE" => src.left > 1} :
            Lex!MayCome(o, tok, k)}

Scanned ==
    IF tok = "EOF" \/ next # None THEN src
    ELSE IF src.ahead # <<>> THEN [src EXCEPT !.ahead = Tail(@)]
    ELSE [src EXCEPT !.left = IF @ = 0 THEN 0 ELSE @ - 1]

(* advance(), with o open. *)
TakeIn(o) ==
    \E k \in Upcoming(o) :
        /\ tok' = k /\ open' = Lex!Taken(o, k)
        /\ next' = None /\ src' = Scanned
        /\ at' = IF tok = "EOF" THEN at ELSE at + 1
        /\ said' = (said /\ tok = "EOF")
        /\ prev' = IF tok \in {None, "NEWLINE", "LBRACE"} THEN tok ELSE "other"
Take == TakeIn(open)

At(what) == todo # <<>> /\ Head(todo) = what
Do(what) == todo' = what \o Tail(todo)

(* Steps: without a token, over the current token, with unexpected() (which  *)
(* keeps quiet at a position it has spoken about), with a report.            *)
Go(what) == Do(what) /\ UNCHANGED <<input, cx, before, said, reported>>
Eat(what) == Do(what) /\ Take /\ UNCHANGED <<cx, before, reported>>
Unexpected(what) ==
    Do(what) /\ said' = TRUE /\ reported' = TRUE /\ UNCHANGED <<input, cx, before>>
Report(what) == Do(what) /\ reported' = TRUE /\ UNCHANGED <<input, cx, before, said>>
EatReporting(what) == Do(what) /\ Take /\ reported' = TRUE /\ UNCHANGED <<cx, before>>
GoIn(c, what) == Do(what) /\ cx' = c /\ UNCHANGED <<input, before, said, reported>>
EatIn(c, what) == Do(what) /\ Take /\ cx' = c /\ UNCHANGED <<before, reported>>

(* lex_peek finds k next, and w[k] follows. *)
Peek(then(_)) ==
    \E k \in Upcoming(open) :
        /\ next' = k /\ src' = Scanned
        /\ Do(then(k))
        /\ UNCHANGED <<tok, open, at, prev, cx, before, said, reported>>

Match(k, what) == IF tok = k THEN Eat(what) ELSE Go(<<>>)
NameOr(S, what) == IF tok \in S THEN Eat(what) ELSE Unexpected(<<>>)

Advance == At("advance") /\ Eat(<<>>)

Expected ==
    {"LPAREN", "RPAREN", "LBRACE", "RBRACE", "RBRACKET", "COLON", "EQ", "ARROW", "KW_IN",
     "INTERP_END", "CTRL_END", "TAG_END"}

(* Fault: the end of the source closes everything. *)
ExpectBeforeEnd ==
    /\ todo # <<>> /\ Head(todo) \in Expected
    /\ CASE tok = Head(todo) -> Eat(<<>>)
         [] tok = "EOF" -> Go(<<>>)
         [] OTHER -> Unexpected(<<>>)

Expect ==
    /\ todo # <<>> /\ Head(todo) \in Expected
    /\ IF tok = Head(todo) THEN Eat(<<>>) ELSE Unexpected(<<>>)

SkipNewlines ==
    At("skip_newlines") /\ IF tok = "NEWLINE" THEN Eat(<<"skip_newlines">>) ELSE Go(<<>>)

(* Fault: a statement ends where the next begins. *)
ExpectNoStmtEnd == At("stmt_end") /\ IF tok = "NEWLINE" THEN Eat(<<>>) ELSE Go(<<>>)

ExpectStmtEnd ==
    /\ At("stmt_end")
    /\ CASE tok = "NEWLINE" -> Eat(<<>>)
         [] tok \in {"RBRACE", "EOF"} -> Go(<<>>)
         [] OTHER -> Unexpected(<<>>)

(* To the next boundary, which is left for the caller but for a line end. *)
Synchronize ==
    /\ At("synchronize")
    /\ CASE tok = "NEWLINE" -> Eat(<<>>)
         [] tok \in Boundary \cup {"EOF"} -> Go(<<>>)
         [] OTHER -> Eat(<<"synchronize">>)

(* ensure_progress(before): a token that is neither parsed nor skipped by    *)
(* synchronize is dropped.  A block and a group ask for it only where no `}` *)
(* stands.                                                                   *)
Stuck == tok # "EOF" /\ at = Last(before)
Forget(what) ==
    before' = Front(before) /\ Do(what) /\ UNCHANGED <<input, cx, said, reported>>
EnsureProgress ==
    \/ /\ At("progress_in_braces")
       /\ IF tok = "RBRACE" THEN Forget(<<>>) ELSE Go(<<"progress">>)
    \/ /\ At("progress")
       /\ IF Stuck THEN Go(<<"synchronize", "force">>) ELSE Forget(<<>>)

(* Fault: synchronize is trusted to move on. *)
ForceNothing == At("force") /\ Forget(<<"skip_newlines">>)

ForceAdvance ==
    /\ At("force")
    /\ IF Stuck
       THEN /\ before' = Front(before) /\ Do(<<"skip_newlines">>)
            /\ Take /\ UNCHANGED <<cx, reported>>
       ELSE Forget(<<"skip_newlines">>)

(* A loop that checks its progress remembers where its item begins. *)
Mark(what) ==
    before' = Append(before, at) /\ Do(what) /\ UNCHANGED <<input, cx, said, reported>>

(* depth_enter: past PARSE_MAX_DEPTH the construct is left out, and that is  *)
(* said once.                                                                *)
TooDeep ==
    /\ Do(<<>>) /\ cx' = [cx EXCEPT !.depth_reported = TRUE]
    /\ reported' = (reported \/ ~ cx.depth_reported)
    /\ UNCHANGED <<input, before, said>>

Deeper == [cx EXCEPT !.depth = @ + 1]

(* Fault: one level more than there are. *)
EnterPast(what) == IF cx.depth > MaxDepth THEN TooDeep ELSE GoIn(Deeper, what)

Enter(what) == IF cx.depth >= MaxDepth THEN TooDeep ELSE GoIn(Deeper, what)

DepthLeave == At("leave") /\ GoIn([cx EXCEPT !.depth = @ - 1], <<>>)

(* The end of a call that a function makes of itself with no depth_enter, or *)
(* of an operator.                                                           *)
Frames == {"unary_returns", "not_returns", "coalesce_returns", "if_returns", "group_returns", "ctrl_returns"}
Return == todo # <<>> /\ Head(todo) \in Frames \cup {"make_binary"} /\ Go(<<>>)

(* p->no_struct = saved. *)
Saved == IF cx.no_struct THEN "no_struct" ELSE "struct"
Restore ==
    \E flag \in {"no_struct", "struct"} :
        At(flag) /\ GoIn([cx EXCEPT !.no_struct = flag = "no_struct"], <<>>)

(* The rest of a list: after a comma its loop goes on, else it is left.      *)
More ==
    /\ At("more")
    /\ IF tok = "COMMA" THEN Eat(<<"skip_newlines">>)
       ELSE todo' = Tail(Tail(todo)) /\ UNCHANGED <<input, cx, before, said, reported>>

-----------------------------------------------------------------------------
(* Strings, paths, types and patterns.                                       *)

String ==
    /\ At("string")
    /\ CASE tok = "STR_TEXT" -> Eat(<<"string">>)
         [] tok = "INTERP_START" -> Eat(<<"expr", "INTERP_END", "string">>)
         [] tok = "STR_END" -> Eat(<<>>)
         [] OTHER -> Go(<<>>)

(* The rest of a path: a dot belongs to it where a name follows. *)
Path ==
    /\ At("path")
    /\ IF tok = "DOT"
       THEN Peek(LAMBDA k : IF k \in Name THEN <<"advance", "advance", "path">> ELSE <<>>)
       ELSE Go(<<>>)

(* A name after a dot; a name where no reserved word may stand. *)
AName ==
    \/ At("name") /\ NameOr(Name, <<>>)
    \/ At("ident") /\ NameOr(Ident, <<>>)

TypeRef ==
    \/ At("type") /\ Enter(<<"base_type", "optional", "leave">>)
    \/ /\ At("base_type")
       /\ CASE tok = "LBRACKET" -> Eat(<<"type", "RBRACKET">>)
            [] tok = "LBRACE" -> Eat(<<"type", "COLON", "type", "RBRACE">>)
            [] tok = "KW_FN" -> Eat(<<"LPAREN", "skip_newlines", "types", "RPAREN", "returns">>)
            [] tok = "LPAREN" -> Eat(<<"type", "RPAREN">>)
            [] tok \in Ident -> Eat(<<"path", "type_args">>)
            [] OTHER -> Unexpected(<<"type_args">>)
    \/ At("types") /\ Go(IF tok = "RPAREN" THEN <<>> ELSE <<"type", "skip_newlines", "more", "types">>)
    \/ At("type_args") /\ Match("LBRACKET", <<"type_arg", "RBRACKET">>)
    \/ At("type_arg") /\ Go(<<"type", "more", "type_arg">>)
    \/ At("optional") /\ Match("QUESTION", <<>>)
    \/ At("returns") /\ Match("ARROW", <<"type", "fallible">>)
    \/ At("fallible") /\ Match("BANG", <<>>)

Pattern ==
    \/ /\ At("single_pattern")
       /\ CASE tok = "DOT" -> Eat(<<"name">>)
            [] tok \in {"INT", "KW_TRUE", "KW_FALSE"} -> Eat(<<>>)
            [] tok = "MINUS" ->
                 Peek(LAMBDA k : IF k = "INT" THEN <<"advance", "advance">> ELSE <<"no_pattern">>)
            [] tok = "STR_START" -> Eat(<<"string">>)
            [] OTHER -> Unexpected(<<>>)
    \/ At("no_pattern") /\ Unexpected(<<>>)
    \/ At("alternatives") /\ Match("PIPE", <<"single_pattern", "alternatives">>)

-----------------------------------------------------------------------------
(* Expressions.  A level of precedence is its operand and the loop over its  *)
(* operators.                                                                *)

parse_cast == <<"unary", "as">>
parse_mul == parse_cast \o <<"mul">>
parse_add == parse_mul \o <<"add">>
parse_cmp == parse_add \o <<"cmp">>
parse_and == <<"not", "and">>
parse_or == parse_and \o <<"or">>
parse_coalesce == parse_or \o <<"coalesce">>

Expr == At("expr") /\ Enter(parse_coalesce \o <<"leave">>)

Operator(level, ops, operand) ==
    At(level) /\ IF tok \in ops THEN Eat(<<"skip_newlines">> \o operand \o <<"make_binary", level>>)
                 ELSE Go(<<>>)

(* Comparisons do not chain: that is reported, and the chain taken. *)
Compare ==
    \/ At("cmp") /\ IF tok \in CmpOps THEN Eat(<<"skip_newlines">> \o parse_add \o <<"chain">>) ELSE Go(<<>>)
    \/ At("chain") /\ IF tok \in CmpOps THEN EatReporting(parse_add \o <<"chain">>) ELSE Go(<<>>)

Binary ==
    \/ Operator("mul", MulOps, parse_cast)
    \/ Operator("add", AddOps, parse_mul)
    \/ Operator("and", {"KW_AND"}, <<"not">>)
    \/ Operator("or", {"KW_OR"}, parse_and)

Cast == At("as") /\ Match("KW_AS", <<"type", "as">>)

Not == At("not") /\ IF tok = "KW_NOT" THEN Eat(<<"not", "not_returns">>) ELSE Go(parse_cmp)

(* A sign is folded into the number after it. *)
Unary ==
    \/ /\ At("unary")
       /\ IF tok = "MINUS"
          THEN Peek(LAMBDA k : <<"advance", IF k \in {"INT", "FLOAT"} THEN "advance" ELSE "operand">>)
          ELSE Go(<<"primary">>)
    \/ At("operand") /\ Go(<<"unary", "unary_returns">>)

(* `else`: `else return`, `else err {`, `else {` or `else` and a value. *)
Coalesce ==
    \/ At("coalesce") /\ Match("KW_ELSE", <<"fallback">>)
    \/ /\ At("fallback")
       /\ CASE tok = "KW_RETURN" -> Go(<<"stmt">>)
            [] tok \in Ident ->
                 Peek(LAMBDA k : IF k = "LBRACE" THEN <<"advance", "block">>
                                 ELSE parse_coalesce \o <<"coalesce_returns">>)
            [] tok = "LBRACE" -> Go(<<"block">>)
            [] OTHER -> Go(parse_coalesce \o <<"coalesce_returns">>)

(* What a list's loop asks before each element, and its elements. *)
Elements ==
    \/ \E list \in {<<"args", "RPAREN">>, <<"elements", "RBRACKET">>} :
        /\ At(list[1])
        /\ IF tok \in {list[2], "EOF"} THEN Go(<<>>) ELSE Go(<<"expr", "skip_newlines", "more", list[1]>>)
    \/ /\ At("indexes")
       /\ IF tok \in {"RBRACKET", "EOF"} THEN Go(<<>>) ELSE Go(<<"expr", "more", "indexes">>)
    \/ /\ At("entries")
       /\ IF tok \in {"RBRACE", "EOF"} THEN Go(<<>>)
          ELSE Go(<<"expr", "COLON", "expr", "skip_newlines", "more", "entries">>)

(* Fields are separated by commas or by line ends. *)
FieldInits ==
    \/ /\ At("field_inits")
       /\ IF tok \in {"RBRACE", "EOF"} THEN Go(<<>>) ELSE NameOr(Name, <<"COLON", "expr", "field_end">>)
    \/ /\ At("field_end")
       /\ CASE tok = "COMMA" -> Eat(<<"skip_newlines", "field_inits">>)
            [] tok = "NEWLINE" -> Go(<<"skip_newlines", "field_inits">>)
            [] OTHER -> Go(<<>>)

Lambda ==
    At("lambda_body") /\ CASE tok = "FAT_ARROW" -> Eat(<<"expr">>)
                           [] tok = "LBRACE" -> Go(<<"block">>)
                           [] OTHER -> Unexpected(<<>>)

Signature == <<"LPAREN", "skip_newlines", "params", "skip_newlines", "RPAREN", "returns">>

(* parse_primary.  What it returns is a path, on which `{` can follow, or not. *)
Primary ==
    /\ At("primary")
    /\ CASE tok \in Literal -> Eat(<<"postfix">>)
         [] tok = "STR_START" -> Eat(<<"string", "postfix">>)
         [] tok = "KW_SELF" -> IF cx.in_method THEN Eat(<<"postfix">>) ELSE EatReporting(<<"postfix">>)
         [] tok \in Ident \cup {"KW_TEST", "STATIC"} -> Eat(<<"path", "path_postfix">>)
         [] tok = "DOT" -> Eat(<<"name", "postfix">>)
         [] tok = "LBRACKET" -> Eat(<<"skip_newlines", "elements", "RBRACKET", "postfix">>)
         [] tok = "LBRACE" -> Eat(<<"skip_newlines", "entries", "RBRACE", "postfix">>)
         [] tok = "KW_FN" -> Eat(Signature \o <<"lambda_body", "postfix">>)
         [] tok = "MARKUP_START" -> Go(<<"element_entering", "postfix">>)
         [] tok = "LPAREN" ->
              EatIn([cx EXCEPT !.no_struct = FALSE],
                    <<"skip_newlines", "expr", "skip_newlines", Saved, "RPAREN", "postfix">>)
         [] tok = "RESERVED" -> EatReporting(<<"postfix">>)
         [] OTHER -> Unexpected(<<"drop", "postfix">>)

(* What begins no expression is passed over, unless a statement may end there. *)
Drop == At("drop") /\ IF tok \in StmtEnd THEN Go(<<>>) ELSE Eat(<<>>)

(* expr_to_path: what is in parentheses may still be a path.                 *)
InGroup ==
    /\ Len(todo) > 12 /\ SubSeq(todo, 12, 13) = <<"RPAREN", "postfix">>
    /\ SubSeq(todo, 1, 10) =
         <<"path_postfix", "as", "mul", "add", "cmp", "and", "or", "coalesce", "leave", "skip_newlines">>
Ungroup ==
    /\ todo' = [Tail(todo) EXCEPT ![12] = "path_postfix"]
    /\ UNCHANGED <<input, cx, before, said, reported>>

Fields == <<"skip_newlines", "field_inits", "skip_newlines", "RBRACE", "postfix">>
Postfix ==
    \E e \in {"path_postfix", "postfix"} :
        /\ At(e)
        /\ CASE tok = "DOT" -> Eat(<<"name", "postfix">>)
             [] tok = "LBRACKET" -> Eat(<<"skip_newlines", "indexes", "RBRACKET", "postfix">>)
             [] tok = "LPAREN" -> Eat(<<"skip_newlines", "args", "RPAREN", "postfix">>)
             [] tok = "BANG" -> Eat(<<"postfix">>)
             [] tok = "KW_WITH" -> Eat(<<"LBRACE">> \o Fields)
             [] tok = "LBRACE" /\ ~ cx.no_struct /\ e = "path_postfix" -> Eat(Fields)
             [] tok = "RPAREN" /\ InGroup -> Ungroup
             [] OTHER -> Go(<<>>)

-----------------------------------------------------------------------------
(* Markup.  Where an expression may stand the parser tells the lexer of the  *)
(* element; inside another the lexer has entered it by itself.               *)

Tag == <<"advance", "tag_name", "attributes", "tag_end", "end_element", Saved>>
InTag == [Deeper EXCEPT !.no_struct = FALSE]

(* Fault: the lexer is told of every element. *)
ElementTwice ==
    /\ \E call \in {"element_entering", "element_nested"} : At(call)
    /\ IF cx.depth >= MaxDepth THEN TooDeep
       ELSE /\ Do(Tag) /\ cx' = InTag
            /\ open' = Lex!Entered(open)
            /\ UNCHANGED <<tok, next, src, at, prev, before, said, reported>>

Element ==
    \E call \in {"element_entering", "element_nested"} :
        /\ At(call)
        /\ IF cx.depth >= MaxDepth THEN TooDeep
           ELSE /\ Do(Tag) /\ cx' = InTag
                /\ open' = IF call = "element_entering" THEN Lex!Entered(open) ELSE open
                /\ UNCHANGED <<tok, next, src, at, prev, before, said, reported>>

EndElement == At("end_element") /\ GoIn([cx EXCEPT !.depth = @ - 1], <<>>)

Attributes ==
    \/ At("tag_name") /\ NameOr({"TAG_NAME"}, <<>>)
    \/ /\ At("attributes")
       /\ CASE tok = "ATTR_NAME" -> Eat(<<"attr_value", "attributes">>)
            [] tok = "ELLIPSIS" -> Eat(<<"spread", "attributes">>)
            [] OTHER -> Go(<<>>)
    \/ At("attr_value") /\ Match("ATTR_EQ", <<"value">>)
    \/ /\ \E what \in {"value", "spread"} : At(what)
       /\ CASE tok = "STR_START" /\ At("value") -> Eat(<<"string">>)
            [] tok = "ATTR_NAME" /\ At("spread") -> Eat(<<>>)
            [] tok = "INTERP_START" -> Eat(<<"expr", "INTERP_END">>)
            [] OTHER -> Report(<<>>)

(* `/>`, or `>` and content up to the closing tag; a void element, which its *)
(* name tells, ends at its `>`, and the lexer is told.                       *)
TagEnd ==
    /\ At("tag_end")
    /\ \/ tok = "TAG_SELF_CLOSE" /\ Eat(<<>>)
       \/ tok = "TAG_END" /\ Eat(<<"children", "strays", "closing_tag">>)
       \/ /\ tok = "TAG_END"
          /\ Do(<<>>) /\ TakeIn(Lex!Closed(open)) /\ UNCHANGED <<cx, before, reported>>
       \/ tok \notin {"TAG_SELF_CLOSE", "TAG_END"} /\ Unexpected(<<>>)

(* {else} and {end} are left to the directive they belong to. *)
Children ==
    /\ At("children")
    /\ CASE tok \in {"MARKUP_TEXT", "MARKUP_COMMENT"} -> Eat(<<"children">>)
         [] tok = "INTERP_START" -> Eat(<<"expr", "INTERP_END", "children">>)
         [] tok = "MARKUP_START" -> Go(<<"element_nested", "children">>)
         [] tok = "CTRL_START" ->
              Peek(LAMBDA k : IF k \in {"KW_ELSE", "END"} THEN <<>> ELSE <<"advance", "ctrl", "children">>)
         [] OTHER -> Go(<<>>)

(* Fault: a stray {else} or {end} is passed over without a word. *)
StraysInSilence ==
    \/ At("strays") /\ IF tok = "CTRL_START"
                       THEN Eat(<<"to_ctrl_end", "children", "strays">>) ELSE Go(<<>>)
    \/ /\ At("to_ctrl_end")
       /\ CASE tok = "CTRL_END" -> Eat(<<>>)
            [] tok = "EOF" -> Go(<<>>)
            [] OTHER -> Eat(<<"to_ctrl_end">>)

Strays ==
    \/ At("strays") /\ IF tok = "CTRL_START"
                       THEN EatReporting(<<"to_ctrl_end", "children", "strays">>) ELSE Go(<<>>)
    \/ /\ At("to_ctrl_end")
       /\ CASE tok = "CTRL_END" -> Eat(<<>>)
            [] tok = "EOF" -> Go(<<>>)
            [] OTHER -> Eat(<<"to_ctrl_end">>)

ClosingTag ==
    \/ At("closing_tag") /\ Match("TAG_CLOSE_START", <<"closing_name", "TAG_END">>)
    \/ At("closing_name") /\ Match("TAG_NAME", <<>>)

(* {if} and {for}: their content, and then their arms up to {end}. *)
Ctrl ==
    \/ /\ At("ctrl")
       /\ CASE tok = "KW_IF" -> Eat(<<"expr", "CTRL_END", "children", "if_arms", "ctrl_returns">>)
            [] tok = "KW_FOR" ->
                 Eat(<<"ident", "second_name", "KW_IN", "expr", "CTRL_END", "children", "for_arms",
                       "ctrl_returns">>)
            [] OTHER -> Report(<<"to_ctrl_end">>)
    \/ At("second_name") /\ Match("COMMA", <<"ident">>)

(* A second {else} is reported, and taken; seen_else is in the name of the   *)
(* step.                                                                     *)
Directives ==
    {[arms |-> "if_arms", arm |-> "if_arm", after |-> "if_else", seen |-> FALSE],
     [arms |-> "if_arms_seen", arm |-> "if_arm_seen", after |-> "if_else_seen", seen |-> TRUE],
     [arms |-> "for_arms", arm |-> "for_arm", after |-> "for_else", seen |-> FALSE],
     [arms |-> "for_arms_seen", arm |-> "for_arm_seen", after |-> "for_else_seen", seen |-> TRUE]}
ElseIf(d) == tok = "KW_IF" /\ d.after \in {"if_else", "if_else_seen"}
ElseArms(d) ==
    IF d.after \in {"if_else", "if_else_seen"} THEN "if_arms_seen" ELSE "for_arms_seen"

Arms ==
    \E d \in Directives :
        \/ At(d.arms) /\ IF tok = "CTRL_START" THEN Eat(<<d.arm>>) ELSE Report(<<>>)
        \/ /\ At(d.arm)
           /\ CASE tok = "KW_ELSE" -> Eat(<<d.after>>)
                [] tok = "END" -> Eat(<<"CTRL_END">>)
                [] OTHER -> Report(<<>>)
        \/ /\ At(d.after) /\ ElseIf(d)
           /\ IF d.seen THEN EatReporting(<<"expr", "CTRL_END", "children", d.arms>>)
              ELSE Eat(<<"expr", "CTRL_END", "children", d.arms>>)
        \/ /\ At(d.after) /\ ~ ElseIf(d)
           /\ IF d.seen THEN Report(<<"CTRL_END", "children", ElseArms(d)>>)
              ELSE Go(<<"CTRL_END", "children", ElseArms(d)>>)

-----------------------------------------------------------------------------
(* Attributes and statements.                                                *)

Attrs ==
    \/ At("attrs") /\ Match("AT", <<"attr">>)
    \/ At("attr") /\ NameOr(Ident, <<"attr_args", "skip_newlines", "attrs">>)
    \/ At("attr_args") /\ Match("LPAREN", <<"skip_newlines", "args", "RPAREN">>)

(* A condition: a `{` after a name is the block. *)
Cond == At("cond") /\ GoIn([cx EXCEPT !.no_struct = TRUE], <<"expr", Saved>>)

Let == <<"ident", "let_type", "EQ", "expr">>
LetType == At("let_type") /\ Match("COLON", <<"type">>)

(* An `else` may stand on the line after the `}`. *)
If ==
    \/ /\ At("if_end")
       /\ IF tok = "NEWLINE"
          THEN Peek(LAMBDA k : IF k = "KW_ELSE" THEN <<"advance", "else">> ELSE <<>>)
          ELSE Go(<<"else">>)
    \/ At("else") /\ Match("KW_ELSE", <<"else_body">>)
    \/ /\ At("else_body")
       /\ IF tok = "KW_IF" THEN Eat(<<"cond", "block", "if_end", "if_returns">>) ELSE Go(<<"block">>)

MatchArms ==
    \/ At("match_body") /\ Go(<<"LBRACE", "skip_newlines", "match_arms", "RBRACE">>)
    \/ /\ At("match_arms")
       /\ CASE tok \in {"RBRACE", "EOF"} -> Go(<<>>)
            [] tok = "KW_ELSE" -> Eat(<<"ARROW", "arm_body", "skip_newlines", "match_arms">>)
            [] OTHER ->
                 Go(<<"single_pattern", "alternatives", "ARROW", "arm_body", "skip_newlines", "match_arms">>)
    \/ At("arm_body") /\ Go(IF tok = "LBRACE" THEN <<"block">> ELSE <<"expr">>)

LoopBody ==
    \/ At("loop_body") /\ GoIn([cx EXCEPT !.loop_depth = @ + 1], <<"block", "loop_end">>)
    \/ At("loop_end") /\ GoIn([cx EXCEPT !.loop_depth = @ - 1], <<>>)

Jump(allowed) == IF allowed THEN Eat(<<>>) ELSE EatReporting(<<>>)

Stmt ==
    \/ /\ At("stmt")
       /\ CASE tok \in {"KW_LET", "KW_VAR"} -> Eat(Let)
            [] tok = "KW_IF" -> Eat(<<"cond", "block", "if_end">>)
            [] tok = "KW_MATCH" -> Eat(<<"cond", "match_body">>)
            [] tok = "KW_WHILE" -> Eat(<<"cond", "loop_body">>)
            [] tok = "KW_FOR" -> Eat(<<"ident", "second_name", "KW_IN", "cond", "loop_body">>)
            [] tok = "KW_RETURN" -> Eat(<<"return_value">>)
            [] tok \in {"KW_BREAK", "KW_CONTINUE"} -> Jump(cx.loop_depth > 0)
            [] tok = "KW_SEND" -> EatReporting(<<"expr", "send_value">>)
            [] tok = "KW_SPAWN" -> EatReporting(<<"expr">>)
            [] tok = "KW_DEFER" -> Eat(<<"expr">>)
            [] OTHER -> Go(<<"expr", "assign">>)
    \/ At("return_value") /\ Go(IF tok \in StmtEnd THEN <<>> ELSE <<"expr">>)
    \/ At("send_value") /\ Match("COMMA", <<"expr">>)
    \/ At("assign") /\ IF tok \in AssignOps THEN Eat(<<"expr">>) ELSE Go(<<>>)

(* Fault: the early return forgets the level it entered. *)
BlockForgets ==
    At("block") /\ IF cx.depth >= MaxDepth THEN TooDeep
                   ELSE IF tok = "LBRACE" THEN EatIn(Deeper, <<"skip_newlines", "stmts", "RBRACE", "leave">>)
                   ELSE Do(<<>>) /\ said' = TRUE /\ reported' = TRUE /\ cx' = Deeper /\ UNCHANGED <<input, before>>

(* A block that does not begin is left at its level. *)
Block ==
    At("block") /\ IF cx.depth >= MaxDepth THEN TooDeep
                   ELSE IF tok = "LBRACE" THEN EatIn(Deeper, <<"skip_newlines", "stmts", "RBRACE", "leave">>)
                   ELSE Unexpected(<<>>)

Stmts ==
    At("stmts") /\ IF tok \in {"RBRACE", "EOF"} THEN Go(<<>>)
                   ELSE Mark(<<"stmt", "stmt_end", "skip_newlines", "progress_in_braces", "stmts">>)

-----------------------------------------------------------------------------
(* Declarations.                                                             *)

Params ==
    /\ At("params")
    /\ CASE tok \in {"RPAREN", "EOF"} -> Go(<<>>)
         [] tok = "KW_SELF" -> Eat(<<"skip_newlines", "more", "params">>)
         [] tok \in Ident ->
              Eat(<<"COLON", "type", "default", "attrs", "skip_newlines", "more", "params">>)
         [] OTHER -> Unexpected(<<>>)
Default == At("default") /\ Match("EQ", <<"expr">>)

(* `fn T.name` is a method. *)
FnName ==
    \/ At("fn_name") /\ NameOr(Ident, <<"receiver">>)
    \/ At("receiver") /\ IF tok = "DOT" THEN EatIn([cx EXCEPT !.in_method = TRUE], <<"name">>) ELSE Go(<<>>)
    \/ At("fn_end") /\ GoIn([cx EXCEPT !.in_method = FALSE], <<>>)

TypeDecl ==
    \/ At("type_name") /\ NameOr(Ident, <<"type_body">>)
    \/ /\ At("type_body")
       /\ CASE tok = "KW_ENUM" -> Eat(<<"LBRACE", "skip_newlines", "variants", "skip_newlines", "RBRACE">>)
            [] tok = "EQ" -> Eat(<<"type">>)
            [] OTHER -> Go(<<"LBRACE", "skip_newlines", "fields", "RBRACE">>)
    \/ /\ At("variants")
       /\ IF tok \in {"RBRACE", "EOF"} THEN Go(<<>>) ELSE NameOr(Name, <<"skip_newlines", "more", "variants">>)
    \/ /\ At("fields")
       /\ IF tok \in {"RBRACE", "EOF"} THEN Go(<<>>)
          ELSE NameOr(Name, <<"COLON", "type", "default", "attrs", "comma", "skip_newlines", "fields">>)
    \/ At("comma") /\ Match("COMMA", <<>>)

(* A word that is no HTTP method is reported, and taken for one. *)
HttpMethod ==
    \/ At("method") /\ tok \in Ident /\ Eat(<<>>)
    \/ At("method") /\ tok \in Ident /\ EatReporting(<<>>)
    \/ At("method") /\ tok \notin Ident /\ Unexpected(<<>>)

Quoted == At("quoted") /\ IF tok = "STR_START" THEN Eat(<<"string">>) ELSE Unexpected(<<>>)

Route(body) == <<"method", "quoted">> \o Signature \o body
Stream ==
    \/ At("stream_body") /\ GoIn([cx EXCEPT !.in_stream = TRUE], <<"block", "stream_end">>)
    \/ At("stream_end") /\ GoIn([cx EXCEPT !.in_stream = FALSE], <<>>)

GroupItems ==
    \/ At("group_body") /\ Go(<<"LBRACE", "skip_newlines", "group_items", "RBRACE">>)
    \/ /\ At("group_items")
       /\ IF tok \in {"RBRACE", "EOF"} THEN Go(<<>>)
          ELSE Mark(<<"decl", "skip_newlines", "progress_in_braces", "group_items">>)

(* What makes no declaration is skipped, and asks for no statement end. *)
NoDecl == IF Len(todo) > 1 /\ todo[2] = "stmt_end" THEN Tail(Tail(todo)) ELSE Tail(todo)
Decl ==
    \/ At("decl") /\ Go(<<"attrs", "pub", "declaration">>)
    \/ At("pub") /\ Match("KW_PUB", <<>>)
    \/ /\ At("declaration")
       /\ CASE tok = "KW_FN" -> Eat(<<"fn_name">> \o Signature \o <<"block", "fn_end">>)
            [] tok = "KW_TYPE" -> Eat(<<"type_name">>)
            [] tok = "KW_LET" -> Eat(Let)
            [] tok = "KW_VAR" -> EatReporting(Let)
            [] tok = "KW_ROUTE" -> Eat(Route(<<"block">>))
            [] tok = "KW_STREAM" -> EatReporting(Route(<<"stream_body">>))
            [] tok = "KW_GROUP" -> Eat(<<"quoted", "group_body", "group_returns">>)
            [] tok = "KW_TEST" -> Eat(<<"quoted", "block">>)
            [] tok \in Reserved ->
                 /\ todo' = <<"synchronize">> \o NoDecl
                 /\ Take /\ reported' = TRUE /\ UNCHANGED <<cx, before>>
            [] OTHER ->
                 /\ todo' = <<"synchronize">> \o NoDecl
                 /\ said' = TRUE /\ reported' = TRUE /\ UNCHANGED <<input, cx, before>>

(* parse_unit. *)
Unit ==
    /\ At("unit")
    /\ IF tok = "EOF" THEN Go(<<>>)
       ELSE Mark(<<"decl", "stmt_end", "skip_newlines", "progress", "unit">>)

-----------------------------------------------------------------------------

(* The parser has taken nothing yet. *)
Init ==
    /\ todo = <<"advance", "skip_newlines", "unit">>
    /\ tok = None /\ next = None /\ open = <<>>
    /\ src \in Sources
    /\ at = 0 /\ prev = None
    /\ cx = [depth |-> 0, loop_depth |-> 0, in_method |-> FALSE, in_stream |-> FALSE,
             no_struct |-> FALSE, depth_reported |-> FALSE]
    /\ before = <<>>
    /\ said = FALSE /\ reported = FALSE

Next ==
    \/ Advance \/ Expect \/ SkipNewlines \/ ExpectStmtEnd \/ Synchronize \/ EnsureProgress \/ ForceAdvance
    \/ DepthLeave \/ Return \/ Restore \/ More
    \/ String \/ Path \/ AName \/ TypeRef \/ Pattern
    \/ Expr \/ Compare \/ Binary \/ Cast \/ Not \/ Unary \/ Coalesce \/ Elements \/ FieldInits
    \/ Lambda \/ Primary \/ Drop \/ Postfix
    \/ Element \/ EndElement \/ Attributes \/ TagEnd \/ Children \/ Strays \/ ClosingTag \/ Ctrl \/ Arms
    \/ Attrs \/ Cond \/ LetType \/ If \/ MatchArms \/ LoopBody \/ Stmt \/ Block \/ Stmts
    \/ Params \/ Default \/ FnName \/ TypeDecl \/ HttpMethod \/ Quoted \/ Stream \/ GroupItems \/ Decl \/ Unit

Spec == Init /\ [][Next]_vars /\ WF_vars(Next)

-----------------------------------------------------------------------------
(* Properties.                                                               *)

Done == todo = <<>>
Count(what) == Cardinality({j \in DOMAIN todo : todo[j] = what})

(* The depth never passes the bound, and is what is still to be left: a      *)
(* depth_enter that was refused, or whose function returned early, is not    *)
(* paid back.                                                                *)
TypeOK ==
    /\ cx.depth \in 0 .. MaxDepth
    /\ cx.depth = Count("leave") + Count("end_element")
    /\ cx.loop_depth = Count("loop_end")
    /\ \A j \in DOMAIN before : before[j] \in 0 .. at

(* Between two declarations the parser is as it was at the start: every      *)
(* function gave back the depth and the flags it took, whichever of its      *)
(* returns it left by and whatever it met.                                   *)
CleanBetweenDeclarations ==
    At("unit") \/ Done =>
        /\ cx.depth = 0 /\ cx.loop_depth = 0 /\ before = <<>>
        /\ ~ cx.in_method /\ ~ cx.in_stream /\ ~ cx.no_struct

(* A parse that does not come to an end is one that stays at the depth       *)
(* bound: below it every loop moves on, whatever the source.                 *)
EndsOrStaysAtBound == <>Done \/ <>[](cx.depth = MaxDepth)

(* Tokens are passed over only after something was reported (parse.h:16-20). *)
Recovering == \E what \in {"synchronize", "force", "to_ctrl_end", "drop"} : At(what)
RecoveryIsReported == [][Recovering /\ at' # at => reported']_vars

(* What the parser accepts in silence is closed: no brace and no directive   *)
(* is left open at the end of the source, unless the lexer reports what      *)
(* stands around it (Lexer!UnclosedIsReported).                              *)
SilentMeansClosed ==
    Done /\ ~ reported => \A j \in DOMAIN open : open[j] \notin {"brace", "ctrl"}

(* Statements of a block, and declarations of a unit, that are accepted in   *)
(* silence each begin on a line of their own (D060): the loops over them     *)
(* never take up another one behind anything else.  Nothing is said of the   *)
(* routes of a group, whose loop asks for no line end (parse.c:2259-2274).   *)
SeparateStatements ==
    (At("stmts") \/ At("unit")) /\ tok \notin {"RBRACE", "EOF"} /\ ~ reported => prev # "other"

(* The parser and the lexer are inside the same things, in the same order:   *)
(* where an expression, a statement or a piece of content begins with a      *)
(* token that opens and closes nothing, and nothing was reported, what the   *)
(* parser has still to close is what the lexer has open (D059).              *)
Closes ==
    [RBRACE |-> {"brace"}, INTERP_END |-> {"interp"}, CTRL_END |-> {"ctrl"}, string |-> {"str"},
     end_element |-> {"tag", "elem", "closing"}]
Within(j) == Cardinality({k \in j .. Len(todo) : todo[k] \in DOMAIN Closes})
Neutral == Ident \cup {"INT", "MINUS", "KW_LET", "MARKUP_TEXT", "LPAREN", "DOT"}
SameNest ==
    (At("expr") \/ At("stmt") \/ At("children")) /\ tok \in Neutral /\ ~ reported
        => /\ Within(1) = Len(open)
           /\ \A j \in DOMAIN todo : todo[j] \in DOMAIN Closes => open[Within(j)] \in Closes[todo[j]]

(* Violated: every parse comes to an end.  "Recovery must always move the    *)
(* cursor" (parse.c:203-206).                                                *)
EveryParseEnds == <>Done

=============================================================================
