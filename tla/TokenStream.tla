---------------------------- MODULE TokenStream ----------------------------
(* What the parser relies on of the lexer: which kind of token may come     *)
(* after which, given what the tokens so far have left open.  No characters *)
(* and no lookahead; Lexer is shown to keep to it, and Parser is driven by  *)
(* it.  `open` lists what is open, innermost last: a "brace", a "str", an   *)
(* "interp" `${`, a "ctrl" directive; an element is a "tag" up to its `>`,  *)
(* then "elem", and "closing" from its `</` on.                             *)

EXTENDS Sequences, SequencesExt

CONSTANTS
    Continuation,   \* kinds after which a line end is no token
    Follow          \* kinds before which a line end is no token

VARIABLES
    tok,            \* the kind of the last token delivered
    open            \* what is open after it

None == "none"

InNames == {"TAG_NAME", "ATTR_NAME", "ATTR_EQ", "ELLIPSIS", "TAG_END", "TAG_SELF_CLOSE"}
InContent == {"MARKUP_TEXT", "MARKUP_COMMENT", "TAG_CLOSE_START", "CTRL_START"}
NotNormal == InNames \cup InContent \cup {"STR_TEXT", "STR_END", "INTERP_START"}

TopIs(o, S) == o # <<>> /\ Last(o) \in S
Mode(o) ==
    IF TopIs(o, {"str"}) THEN "STR"
    ELSE IF TopIs(o, {"tag", "closing"}) THEN "TAG"
    ELSE IF TopIs(o, {"elem"}) THEN "CONTENT"
    ELSE "NORMAL"

(* In code, a `}` closes a brace, or else the interpolation or directive it  *)
(* stands in, or else nothing.                                               *)
MayComeInCode(o, k) ==
    /\ k \notin NotNormal
    /\ k = "INTERP_END" => TopIs(o, {"interp"})
    /\ k = "CTRL_END" => TopIs(o, {"ctrl"})
    /\ k = "RBRACE" => ~ TopIs(o, {"interp", "ctrl"})

(* Token k may come after token t, with o open. *)
MayCome(o, t, k) ==
    /\ t = "EOF" => k = "EOF"
    /\ IF k = "EOF" THEN Mode(o) # "STR"
       ELSE CASE Mode(o) = "STR" -> k \in {"STR_TEXT", "STR_END", "INTERP_START"}
              [] Mode(o) = "TAG" -> k \in InNames \cup {"STR_START", "INTERP_START"}
              [] Mode(o) = "CONTENT" -> k \in InContent \cup {"MARKUP_START", "INTERP_START"}
              [] Mode(o) = "NORMAL" -> MayComeInCode(o, k)
    /\ k = "NEWLINE" => t \notin {None, "NEWLINE"} \cup Continuation
    /\ t = "NEWLINE" => k \notin {"EOF"} \cup Follow

Becomes(o, what) == Append(Front(o), what)

(* What is open once token k is delivered.  A `<` opens an element only in   *)
(* the content of another; elsewhere that is the parser's to say.            *)
Taken(o, k) ==
    CASE k = "STR_START" -> Append(o, "str")
      [] k = "INTERP_START" -> Append(o, "interp")
      [] k = "CTRL_START" -> Append(o, "ctrl")
      [] k = "LBRACE" -> Append(o, "brace")
      [] k = "MARKUP_START" /\ Mode(o) = "CONTENT" -> Append(o, "tag")
      [] k = "TAG_CLOSE_START" -> Becomes(o, "closing")
      [] k = "TAG_END" /\ TopIs(o, {"tag"}) -> Becomes(o, "elem")
      [] \/ k \in {"STR_END", "INTERP_END", "CTRL_END", "TAG_SELF_CLOSE"}
         \/ k = "TAG_END" /\ TopIs(o, {"closing"})
         \/ k = "RBRACE" /\ TopIs(o, {"brace"}) -> Front(o)
      [] OTHER -> o

Entered(o) == Append(o, "tag")
Closed(o) == IF Mode(o) \in {"TAG", "CONTENT"} THEN Front(o) ELSE o

Init == tok = None /\ open = <<>>

(* lex_next. *)
Deliver == MayCome(open, tok, tok') /\ open' = Taken(open, tok')

(* lex_open_markup: the `<` just delivered stands where an expression may. *)
OpenMarkup == tok = "MARKUP_START" /\ Mode(open) = "NORMAL" /\ open' = Entered(open) /\ tok' = tok

(* lex_close_element: the `>` just delivered ends a void element. *)
CloseElement == tok = "TAG_END" /\ TopIs(open, {"elem"}) /\ open' = Closed(open) /\ tok' = tok

Next == Deliver \/ OpenMarkup \/ CloseElement

=============================================================================
