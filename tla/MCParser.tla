------------------------------ MODULE MCParser ------------------------------
(* An instance of Parser for TLC: each source begins as one part of the      *)
(* grammar does and goes on with any tokens of that part.                    *)
EXTENDS Parser

Source(ahead, kinds, left) == [ahead |-> ahead, kinds |-> kinds, left |-> left]

Body == <<"KW_FN", "IDENT", "LPAREN", "RPAREN", "LBRACE">>
Value == <<"KW_LET", "IDENT", "EQ">>
Markup == Value \o <<"MARKUP_START", "TAG_NAME">>

MCSources == {
    Source(<<>>, {"KW_FN", "IDENT", "DOT", "LPAREN", "RPAREN", "LBRACE", "RBRACE", "NEWLINE"}, 6),
    Source(<<"KW_FN", "IDENT", "LPAREN">>,
           {"IDENT", "KW_SELF", "COLON", "EQ", "COMMA", "AT", "RPAREN"}, 6),
    Source(<<"KW_TYPE", "IDENT">>,
           {"IDENT", "EQ", "LBRACE", "KW_ENUM", "COMMA", "COLON", "NEWLINE", "RBRACE"}, 6),
    Source(<<"KW_TYPE", "IDENT", "EQ">>,
           {"IDENT", "DOT", "LBRACKET", "RBRACKET", "LPAREN", "RPAREN", "KW_FN", "QUESTION"}, 5),
    Source(<<"KW_TYPE", "IDENT", "EQ">>,
           {"IDENT", "KW_FN", "LPAREN", "RPAREN", "ARROW", "BANG", "LBRACE", "COLON", "RBRACE", "COMMA"}, 5),
    Source(<<>>, {"KW_ROUTE", "KW_STREAM", "IDENT", "STR_START", "STR_END", "LPAREN"}, 5),
    Source(<<"KW_GROUP", "STR_START", "STR_TEXT", "STR_END">>,
           {"LBRACE", "KW_LET", "RESERVED", "KW_PUB", "KW_GROUP", "NEWLINE", "RBRACE"}, 5),
    Source(<<"KW_STREAM", "IDENT", "STR_START", "STR_END", "LPAREN", "RPAREN", "LBRACE">>,
           {"KW_SEND", "KW_SPAWN", "KW_DEFER", "IDENT", "COMMA", "NEWLINE", "RBRACE"}, 5),
    Source(<<"KW_TEST", "STR_START", "STR_END", "LBRACE">>,
           {"KW_TEST", "DOT", "STATIC", "RESERVED", "KW_VAR", "KW_RETURN", "NEWLINE", "RBRACE"}, 5),
    Source(<<>>, {"AT", "IDENT", "LPAREN", "INT", "RPAREN", "KW_VAR", "KW_PUB"}, 5),
    Source(Body, {"KW_IF", "KW_ELSE", "IDENT", "LBRACE", "RBRACE", "NEWLINE"}, 6),
    Source(Body \o <<"KW_MATCH", "IDENT", "LBRACE">>,
           {"IDENT", "INT", "MINUS", "DOT", "PIPE", "KW_ELSE", "ARROW", "LBRACE", "NEWLINE", "RBRACE"}, 5),
    Source(Body,
           {"KW_WHILE", "KW_FOR", "KW_BREAK", "IDENT", "COMMA", "KW_IN", "LBRACE", "RBRACE"}, 6),
    Source(Body, {"IDENT", "EQ", "KW_RETURN", "KW_ELSE", "LBRACE", "RBRACE", "NEWLINE"}, 6),
    Source(Body \o <<"KW_IF", "IDENT", "LPAREN", "KW_FN">>,
           {"IDENT", "LPAREN", "RPAREN", "LBRACE", "COLON", "RBRACE"}, 6),
    Source(Value, {"IDENT", "MINUS", "STAR", "LT", "KW_NOT", "INT", "NEWLINE"}, 5),
    Source(Value, {"IDENT", "KW_AND", "KW_OR", "KW_AS", "KW_IN", "KW_ELSE", "DOT"}, 5),
    Source(Value, {"IDENT", "LPAREN", "RPAREN", "LBRACKET", "RBRACKET", "COMMA", "BANG"}, 6),
    Source(Value, {"IDENT", "LPAREN", "RPAREN", "PLUS", "LBRACE", "RBRACE"}, 6),
    Source(Value, {"IDENT", "LBRACE", "COLON", "COMMA", "RBRACE", "KW_WITH", "NEWLINE"}, 6),
    Source(Value \o <<"KW_FN", "LPAREN">>,
           {"IDENT", "COLON", "RPAREN", "FAT_ARROW", "LBRACE", "RBRACE", "KW_SELF"}, 5),
    Source(Value \o <<"STR_START">>,
           {"STR_TEXT", "INTERP_START", "IDENT", "LBRACE", "RBRACE", "INTERP_END", "STR_END", "NEWLINE"}, 6),
    Source(Markup,
           {"ATTR_NAME", "ATTR_EQ", "ELLIPSIS", "INTERP_START", "INTERP_END", "STR_START", "STR_END", "IDENT",
            "TAG_END", "TAG_SELF_CLOSE"}, 6),
    Source(Markup \o <<"TAG_END">>,
           {"MARKUP_START", "TAG_NAME", "TAG_END", "TAG_SELF_CLOSE", "TAG_CLOSE_START", "MARKUP_TEXT"}, 8),
    Source(Markup \o <<"TAG_END">>,
           {"CTRL_START", "KW_IF", "KW_ELSE", "END", "CTRL_END", "MARKUP_TEXT", "TAG_CLOSE_START", "INT"}, 8),
    Source(Markup \o <<"TAG_END", "CTRL_START">>,
           {"KW_FOR", "IDENT", "KW_IN", "CTRL_END", "CTRL_START", "KW_ELSE", "END", "COMMA"}, 8),
    Source(Value \o <<"IDENT", "MARKUP_START">>, {"IDENT", "LT", "LPAREN", "RPAREN", "NEWLINE"}, 4),
    Source(Markup \o <<"TAG_END", "CTRL_START", "KW_IF", "INT", "CTRL_END", "CTRL_START", "KW_ELSE">>,
           {"KW_IF", "INT", "CTRL_END", "CTRL_START", "KW_ELSE", "END"}, 8),
    Source(<<"KW_FN", "IDENT", "DOT", "IDENT", "LPAREN", "KW_SELF", "RPAREN", "LBRACE">>,
           {"KW_SELF", "DOT", "IDENT", "KW_LET", "COLON", "EQ", "RBRACE"}, 6),
    Source(Body \o <<"KW_MATCH", "IDENT", "LBRACE">>,
           {"STR_START", "STR_TEXT", "STR_END", "PIPE", "ARROW", "INT", "RBRACE"}, 6)
  }
=============================================================================
