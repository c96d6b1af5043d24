------------------------------ MODULE MCPrinter ------------------------------
EXTENDS Printer

(* Every tree of up to three nodes, and of up to five of the kinds that      *)
(* disturb each other most.                                                  *)
AllKinds == DOMAIN Forms
CoreKinds == {"int", "ident", "struct", "neg", "lambda", "call", "eq", "plus", "coalesce", "index"}

Arity(k) == Cardinality({j \in DOMAIN Forms[k].parts : Forms[k].parts[j].operand # 0})
RECURSIVE Trees(_, _)
Trees(kinds, n) ==
    LET of(a) == {k \in kinds : Arity(k) = a} IN
    IF n = 1 THEN {<<k>> : k \in of(0)}
    ELSE {<<k, t>> : k \in of(1), t \in Trees(kinds, n - 1)}
         \cup UNION {{<<k, t, u>> : k \in of(2), t \in Trees(kinds, m), u \in Trees(kinds, n - 1 - m)} : m \in 1 .. n - 2}

MCValues == UNION {Trees(AllKinds, n) : n \in 1 .. 3} \cup Trees(CoreKinds, 4) \cup Trees(CoreKinds, 5)
MCConditions == UNION {Trees(AllKinds, n) : n \in 1 .. 3} \cup Trees(CoreKinds, 4)

(* Comparisons, of comparisons too.                                          *)
Comparisons == {<<"eq", l, r>> : l, r \in UNION {Trees({"ident", "eq", "plus"}, n) : n \in {1, 3}}}

(* Literals of up to three nodes, two texts never next to each other.        *)
Texts == {<<"x">>, <<" ">>, <<"x", " ">>, <<"\n">>, <<" ", "x", "\n", "x">>, <<"\n", "x">>, <<"x", "\n">>}
Lists == {<<>>, <<<<"\n", "x", "\n">>>>, <<<<"x", "\n">>, <<"${}">>>>}
Elements == {<<t, l>> : t \in {"<t>", "<pre>"}, l \in Lists}
            \cup {<<"${}">>, <<"<br>">>, <<"<a", <<>>>>, <<"<t>", <<<<"\n">>, <<"<a", <<>>>>, <<"\n">>>>>>,
                  <<"<pre>", <<<<"<t>", <<<<"\n">>>>>>>>>>, <<"{if}", <<<<"x">>>>, <<<<"\n">>>>>>}
Kids(n) == {l \in [1 .. n -> Texts \cup Elements] : \A i \in 1 .. n - 1 : ~ (IsText(l[i]) /\ IsText(l[i + 1]))}
MCLiterals == {<<"<t>", l>> : l \in Kids(0) \cup Kids(1) \cup Kids(2) \cup Kids(3)}

(* A greeting on lines of its own: a text, and two elements with a blank.    *)
Greetings ==
    {<<"<t>", <<<<"\n", "x">> \o blank, <<"<t>", <<<<"x">>>>>>, <<" ">>, <<"<t>", <<<<"x">>>>>>, <<"\n">>>>>> :
         blank \in {<<>>, <<" ">>, <<"\n">>}}

(* Files: what may stand between two items, and between other tokens.        *)
Lines == {<<"n">>, <<"n", "n">>, <<"n", "c", "n">>, <<"c", "n">>, <<"n", "n", "c", "n", "n">>}
Gaps == Lines \cup {<<>>}
Within(g, u, h) == <<"{">> \o g \o u \o h \o <<"}">>
MCUnits ==
    {<<>>, <<"c">>, <<"n">>, <<"c", "n", "n", "c">>}
    \cup {<<"s">> \o g \o <<"s">> \o h : g \in Lines, h \in Gaps}
    \cup {f \o <<"s">> \o e \o Within(g, <<"s">>, h) \o i :
             f \in {<<>>, <<"c", "n">>, <<"c", "n", "n">>}, e \in {<<"n">>, <<"n", "c", "n">>}, g, h, i \in Gaps}
    \cup {<<"{">> \o g \o <<"s">> \o h \o <<"}else{">> \o i \o <<"s">> \o j \o <<"}">> : g, h, i, j \in Gaps}
    \cup {<<"{">> \o g \o <<"}">> \o h \o <<"s">> \o i : g, i \in Gaps, h \in Lines}
    \cup {<<"type{">> \o g \o <<"s">> \o h \o <<"s">> \o i \o <<"}">> \o j : h \in Lines, g, i, j \in Gaps}
    \cup {Within(g, <<"match{", "n", "s">> \o h \o Within(i, <<"s">>, <<"n">>) \o <<"n", "}", "n">>, <<>>) \o j :
             h \in Lines, g, i, j \in Gaps}
    \cup {<<"call">> \o g \o <<"a">> \o h \o <<")">> \o i \o <<"s">> \o j : i \in Lines, g, h, j \in Gaps}
    \cup {Within(g, Within(h, <<"s">>, h), i) \o j : g, h, i, j \in Gaps}
=============================================================================
