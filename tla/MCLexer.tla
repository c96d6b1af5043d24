------------------------------ MODULE MCLexer ------------------------------
(* An instance of Lexer for TLC: short sources over the characters that one  *)
(* part of the scanner tells apart, after a beginning that leads there.      *)
EXTENDS Lexer

Strings(S, k) == UNION {[1 .. m -> S] : m \in 0 .. k}
After(prefix, S, k) == {prefix \o s : s \in Strings(S, k)}

MCTexts ==
    After(<<>>, {"a", "nl", "+", ")", "#", "/"}, 5)
    \cup After(<<"/", "*">>, {"/", "*", "nl", "a"}, 4)
    \cup After(<<"quote">>, {"quote", "$", "{", "}", "nl", "backslash"}, 5)
    \cup After(<<"<", "a">>, {"a", "/", ">", "=", " ", "quote", "#"}, 4)
    \cup After(<<"<", "a", ">">>, {"<", "a", "/", ">", "{", "}", "$"}, 5)
    \cup After(<<"<", "a", ">", "$", "{">>, {"a", "nl", "{", "}", "<"}, 4)
    \cup After(<<"<", "a", ">", "<", "!", "-", "-">>, {"-", ">", "a"}, 4)
    \cup After(<<"a">>, {"<", "=", ">", "-", "nl", "bt"}, 4)
=============================================================================
