-------------------------------- MODULE Expr --------------------------------
(* Expressions as the printer writes them (src/src/parse/print.c:441-869)    *)
(* and as the parser reads them back (parse.c:642-1262).  A tree is a tuple, *)
(* its kind and then its operands; a text is a sequence of tokens.  There is *)
(* one operator for each level of precedence, names have one segment, and    *)
(* `fn()` is one token.                                                      *)

EXTENDS Integers, Sequences, SequencesExt

-----------------------------------------------------------------------------
(* Printing.  A form is the precedence of a kind of expression and its       *)
(* parts: tokens, and operands with the least precedence they may have bare. *)

COALESCE == 1
OR == 2
AND == 3
NOT == 4
CMP == 5
ADD == 6
MUL == 7
AS == 8
NEG == 9
POSTFIX == 10
ATOM == 11

Tok(t) == [text |-> t, operand |-> 0, least |-> 0]
Opd(k, least) == [text |-> "", operand |-> k, least |-> least]
Form(prec, parts) == [prec |-> prec, parts |-> parts]

AtomForms ==
    [int     |-> Form(ATOM, <<Tok("INT")>>),
     neg_int |-> Form(ATOM, <<Tok("-"), Tok("INT")>>),        \* an EXPR_INT below zero
     ident   |-> Form(ATOM, <<Tok("IDENT")>>),
     no_map  |-> Form(ATOM, <<Tok("{"), Tok("}")>>),
     map     |-> Form(ATOM, <<Tok("{"), Opd(1, COALESCE), Tok(":"), Opd(2, COALESCE), Tok("}")>>),
     list    |-> Form(ATOM, <<Tok("["), Opd(1, COALESCE), Tok("]")>>),
     struct  |-> Form(ATOM, <<Tok("IDENT"), Tok("{"), Tok("}")>>),
     struct1 |-> Form(ATOM, <<Tok("IDENT"), Tok("{"), Tok("IDENT"), Tok(":"), Opd(1, COALESCE), Tok("}")>>),
     markup  |-> Form(ATOM, <<Tok("<p>${"), Opd(1, COALESCE), Tok("}</p>")>>)]

(* A lambda shares the level of `else`: its body extends as far as it can.   *)
LambdaForms ==
    [lambda       |-> Form(COALESCE, <<Tok("fn()"), Tok("=>"), Opd(1, COALESCE)>>),
     lambda_block |-> Form(COALESCE, <<Tok("fn()"), Tok("{"), Tok("}")>>)]

(* Fault: the right operand may be of the same level. *)
BinaryEither(prec, op) == Form(prec, <<Opd(1, prec), Tok(op), Opd(2, prec)>>)

(* Fault: both operands are one level tighter. *)
BinaryTight(prec, op) == Form(prec, <<Opd(1, prec + 1), Tok(op), Opd(2, prec + 1)>>)

(* Left-associative: the right operand is one level tighter.                 *)
Binary(prec, op) == Form(prec, <<Opd(1, prec), Tok(op), Opd(2, prec + 1)>>)

OperatorForms ==
    [not  |-> Form(NOT, <<Tok("not"), Opd(1, NOT)>>),
     neg  |-> Form(NEG, <<Tok("-"), Opd(1, NEG)>>),
     cast |-> Form(AS, <<Opd(1, AS), Tok("as"), Tok("TYPE")>>),
     or   |-> Binary(OR, "or"),
     and  |-> Binary(AND, "and"),
     eq   |-> Binary(CMP, "=="),
     plus |-> Binary(ADD, "+"),
     mul  |-> Binary(MUL, "*")]

PostfixForms ==
    [call      |-> Form(POSTFIX, <<Opd(1, POSTFIX), Tok("("), Tok(")")>>),
     call1     |-> Form(POSTFIX, <<Opd(1, POSTFIX), Tok("("), Opd(2, COALESCE), Tok(")")>>),
     call_of   |-> Form(POSTFIX, <<Opd(1, POSTFIX), Tok("["), Tok("IDENT"), Tok("]"), Tok("("), Tok(")")>>),
     index     |-> Form(POSTFIX, <<Opd(1, POSTFIX), Tok("["), Opd(2, COALESCE), Tok("]")>>),
     propagate |-> Form(POSTFIX, <<Opd(1, POSTFIX), Tok("!")>>),
     with      |-> Form(POSTFIX, <<Opd(1, POSTFIX), Tok("with"), Tok("{"), Tok("}")>>)]

(* Right-associative: the left operand is one level tighter.                 *)
CoalesceForms ==
    [coalesce |-> Form(COALESCE, <<Opd(1, COALESCE + 1), Tok("else"), Opd(2, COALESCE)>>),
     else_block |-> Form(COALESCE, <<Opd(1, COALESCE + 1), Tok("else"), Tok("{"), Tok("}")>>),
     else_err |-> Form(COALESCE, <<Opd(1, COALESCE + 1), Tok("else"), Tok("IDENT"), Tok("{"), Tok("}")>>)]

Forms == AtomForms @@ LambdaForms @@ OperatorForms @@ PostfixForms @@ CoalesceForms

expr_prec(e) == Forms[e[1]].prec
Parts(e) == Forms[e[1]].parts
Operand(e, part) == e[part.operand + 1]
Operands(e) == {j \in DOMAIN Parts(e) : Parts(e)[j].operand # 0}

(* pr_expr; with `all` the text of an author who leaves nothing to the       *)
(* precedence.                                                               *)
RECURSIVE pr_expr(_, _, _)
pr_expr(e, least, all) ==
    LET part(j) == IF j \in Operands(e)
                   THEN pr_expr(Operand(e, Parts(e)[j]), Parts(e)[j].least, all)
                   ELSE <<Parts(e)[j].text>>
        bare == FlattenSeq([j \in DOMAIN Parts(e) |-> part(j)])
    IN IF all \/ expr_prec(e) < least THEN <<"(">> \o bare \o <<")">> ELSE bare

-----------------------------------------------------------------------------
(* Parsing.  A result is a tree and where the parser is after it; `ok` is    *)
(* that nothing was reported.  `ns` is no_struct.                            *)

Result(e, at) == [e |-> e, at |-> at, ok |-> TRUE]
Failed(at) == [e |-> <<"ident">>, at |-> at, ok |-> FALSE]
At(s, i) == IF i <= Len(s) THEN s[i] ELSE "EOF"
Looking(s, i, tokens) == \A k \in DOMAIN tokens : At(s, i + k - 1) = tokens[k]

(* What was read, closed by a token.                                         *)
Closed(s, r, close, e) ==
    IF r.ok /\ At(s, r.at) = close THEN Result(e, r.at + 1) ELSE Failed(r.at)

(* A block has no statements: `{ k : v }` is not one.                        *)
ParseBlock(s, i, e) == IF Looking(s, i, <<"{", "}">>) THEN Result(e, i + 2) ELSE Failed(i)

RECURSIVE parse_coalesce(_, _, _), parse_not(_, _, _), parse_unary(_, _, _),
          PostfixOf(_, _, _), LeftAssoc(_, _, _, _), Tighter(_, _, _, _)

parse_expr(s, i, ns) == parse_coalesce(s, i, ns)

parse_lambda(s, i, ns) ==
    CASE At(s, i + 1) = "=>" -> LET r == parse_expr(s, i + 2, ns) IN
                                IF r.ok THEN Result(<<"lambda", r.e>>, r.at) ELSE r
      [] At(s, i + 1) = "{" -> ParseBlock(s, i + 1, <<"lambda_block">>)
      [] OTHER -> Failed(i)

ParseMap(s, i, ns) ==
    IF At(s, i + 1) = "}" THEN Result(<<"no_map">>, i + 2)
    ELSE LET key == parse_expr(s, i + 1, ns)
             value == parse_expr(s, key.at + 1, ns)
         IN IF key.ok /\ At(s, key.at) = ":" THEN Closed(s, value, "}", <<"map", key.e, value.e>>)
            ELSE Failed(key.at)

(* Parentheses and markup clear no_struct; brackets and braces do not.       *)
parse_primary(s, i, ns) ==
    CASE At(s, i) = "INT" -> Result(<<"int">>, i + 1)
      [] At(s, i) = "IDENT" -> Result(<<"ident">>, i + 1)
      [] At(s, i) = "[" -> LET r == parse_expr(s, i + 1, ns) IN Closed(s, r, "]", <<"list", r.e>>)
      [] At(s, i) = "{" -> ParseMap(s, i, ns)
      [] At(s, i) = "fn()" -> parse_lambda(s, i, ns)
      [] At(s, i) = "<p>${" -> LET r == parse_expr(s, i + 1, FALSE) IN Closed(s, r, "}</p>", <<"markup", r.e>>)
      [] At(s, i) = "(" -> LET r == parse_expr(s, i + 1, FALSE) IN Closed(s, r, ")", r.e)
      [] OTHER -> Failed(i)

(* Brackets are an index, or type arguments when a call follows.             *)
Bracketed(s, r, ns) ==
    LET item == parse_expr(s, r.at + 1, ns) IN
    IF ~ item.ok \/ At(s, item.at) # "]" THEN Failed(item.at)
    ELSE IF At(s, item.at + 1) # "(" THEN Result(<<"index", r.e, item.e>>, item.at + 1)
    ELSE IF item.e = <<"ident">> THEN Closed(s, Result(r.e, item.at + 2), ")", <<"call_of", r.e>>)
    ELSE Failed(item.at)

Called(s, r, ns) ==
    LET arg == parse_expr(s, r.at + 1, ns) IN
    IF At(s, r.at + 1) = ")" THEN Result(<<"call", r.e>>, r.at + 2)
    ELSE Closed(s, arg, ")", <<"call1", r.e, arg.e>>)

StructOf(s, r, ns) ==
    LET field == parse_expr(s, r.at + 3, ns) IN
    CASE At(s, r.at + 1) = "}" -> Result(<<"struct">>, r.at + 2)
      [] Looking(s, r.at + 1, <<"IDENT", ":">>) -> Closed(s, field, "}", <<"struct1", field.e>>)
      [] OTHER -> Failed(r.at + 1)

(* The loop of parse_postfix.                                                *)
PostfixOf(s, r, ns) ==
    CASE ~ r.ok -> r
      [] At(s, r.at) = "[" -> PostfixOf(s, Bracketed(s, r, ns), ns)
      [] At(s, r.at) = "(" -> PostfixOf(s, Called(s, r, ns), ns)
      [] At(s, r.at) = "!" -> PostfixOf(s, Result(<<"propagate", r.e>>, r.at + 1), ns)
      [] At(s, r.at) = "with" -> PostfixOf(s, ParseBlock(s, r.at + 1, <<"with", r.e>>), ns)
      [] At(s, r.at) = "{" /\ ~ ns /\ r.e = <<"ident">> -> PostfixOf(s, StructOf(s, r, ns), ns)
      [] OTHER -> r
parse_postfix(s, i, ns) == PostfixOf(s, parse_primary(s, i, ns), ns)

(* A sign before a number is part of it, and nothing is applied to it.       *)
parse_unary(s, i, ns) ==
    CASE Looking(s, i, <<"-", "INT">>) -> Result(<<"neg_int">>, i + 2)
      [] At(s, i) = "-" /\ At(s, i + 1) # "INT" ->
           LET r == parse_unary(s, i + 1, ns) IN IF r.ok THEN Result(<<"neg", r.e>>, r.at) ELSE r
      [] OTHER -> parse_postfix(s, i, ns)

(* The loops over the operators of one level: `r` is what was read so far.   *)
TokenOf == [or |-> "or", and |-> "and", eq |-> "==", plus |-> "+", mul |-> "*", cast |-> "as"]
Tighter(s, kind, i, ns) ==
    CASE kind = "cast" -> parse_unary(s, i, ns)
      [] kind = "mul" -> LeftAssoc(s, "cast", Tighter(s, "cast", i, ns), ns)
      [] kind = "plus" -> LeftAssoc(s, "mul", Tighter(s, "mul", i, ns), ns)
      [] kind = "eq" -> LeftAssoc(s, "plus", Tighter(s, "plus", i, ns), ns)
      [] kind = "and" -> parse_not(s, i, ns)
      [] kind = "or" -> LeftAssoc(s, "and", Tighter(s, "and", i, ns), ns)
LeftAssoc(s, kind, r, ns) ==
    LET right == Tighter(s, kind, r.at + 1, ns) IN
    IF ~ r.ok \/ At(s, r.at) # TokenOf[kind] THEN r
    ELSE IF kind = "cast"
    THEN IF At(s, r.at + 1) = "TYPE" THEN LeftAssoc(s, kind, Result(<<"cast", r.e>>, r.at + 2), ns)
         ELSE Failed(r.at)
    ELSE IF right.ok THEN LeftAssoc(s, kind, Result(<<kind, r.e, right.e>>, right.at), ns)
    ELSE right

(* A comparison of a comparison is an error (DT0030).                        *)
parse_cmp(s, i, ns) ==
    LET left == Tighter(s, "eq", i, ns)
        right == Tighter(s, "eq", left.at + 1, ns)
    IN IF ~ left.ok \/ At(s, left.at) # "==" THEN left
       ELSE IF right.ok /\ At(s, right.at) # "==" THEN Result(<<"eq", left.e, right.e>>, right.at)
       ELSE Failed(right.at)

parse_not(s, i, ns) ==
    IF At(s, i) = "not"
    THEN LET r == parse_not(s, i + 1, ns) IN IF r.ok THEN Result(<<"not", r.e>>, r.at) ELSE r
    ELSE parse_cmp(s, i, ns)

parse_or(s, i, ns) == LeftAssoc(s, "or", Tighter(s, "or", i, ns), ns)

parse_coalesce(s, i, ns) ==
    LET value == parse_or(s, i, ns)
        rest == value.at + 1
        fallback == parse_coalesce(s, rest, ns)
    IN CASE ~ value.ok \/ At(s, value.at) # "else" -> value
         [] OTHER ->
              IF Looking(s, rest, <<"IDENT", "{">>) THEN ParseBlock(s, rest + 1, <<"else_err", value.e>>)
              ELSE IF At(s, rest) = "{" THEN ParseBlock(s, rest, <<"else_block", value.e>>)
              ELSE IF fallback.ok THEN Result(<<"coalesce", value.e, fallback.e>>, fallback.at)
              ELSE fallback
=============================================================================
