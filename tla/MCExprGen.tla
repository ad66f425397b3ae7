----------------------------- MODULE MCExprGen -----------------------------
(***************************************************************************)
(* Two classes, one below the other, and an interface of the upper one;    *)
(* overloads that differ in one parameter; every expression of one         *)
(* operation over leaves in every kind of statement, and those of two      *)
(* operations where the second is a call, an object or a division.         *)
(***************************************************************************)
EXTENDS ExprRules

MCAbove == [C |-> {"C", "I"}, D |-> {"D", "C", "I"}]
MCInterfaces == {"I"}
MCFields == [C |-> [n |-> "int"], D |-> [n |-> "int", c |-> "C", d |-> "D"]]
MCConstructors ==
  {[class |-> "C", params |-> <<>>], [class |-> "D", params |-> <<"int">>],
   [class |-> "D", params |-> <<"C">>]}
F(name, params, ret) == [name |-> name, params |-> params, ret |-> ret]
MCFunctions ==
  {F("f", <<"C">>, "int"), F("f", <<"D">>, "uint"), F("f", <<"int">>, "C"),
   F("f", <<"ubyte">>, "D"), F("f", <<"C", "D">>, "D"), F("f", <<"C", "int">>, "double"),
   F("f", <<"int", "C">>, "int"), F("f", <<"I">>, "byte"), F("f", <<>>, "D")}

T(node, name, member, kids) == [node |-> node, name |-> name, member |-> member, kids |-> kids]
E(node, kids) == T(node, "", "", kids)
Names(node, names) == {T(node, x, "", <<>>) : x \in names}

Lits == Names("lit", {"int", "ubyte", "double"})
Vars == Names("var", {"c", "d", "i", "n", "u"})
FieldsOf == {T("field", p[1], p[2], <<>>) : p \in {<<"d", "n">>, <<"d", "c">>, <<"c", "d">>, <<"n", "n">>}}
Leaves == Lits \cup Vars \cup {E("null", <<>>), E("str", <<>>)}
            \cup {T("field", "d", "n", <<>>), T("field", "d", "c", <<>>)}

Unary(S) ==
  {T("call", "f", "", <<e>>) : e \in S} \cup {T("new", "D", "", <<e>>) : e \in S}
    \cup {T("cast", t, "", <<e>>) : t \in {"D", "I"}, e \in S}
    \cup {T("instanceOf", "D", "", <<e>>) : e \in S}
    \cup {E("paren", <<e>>) : e \in S}
BinaryOf(S, R) ==
  {T("call", "f", "", <<l, r>>) : l \in S, r \in R}
    \cup {E(op, <<l, r>>) : op \in {"add", "div", "less"}, l \in S, r \in R}
Calls0 == {T("call", "f", "", <<>>), T("new", "C", "", <<>>)}

One == Leaves \cup Calls0 \cup FieldsOf \cup Unary(Leaves \cup Calls0) \cup BinaryOf(Leaves, Leaves)
Some == Unary({T("var", x, "", <<>>) : x \in {"c", "i", "n"}}) \cup Calls0
          \cup {E("add", <<l, r>>) : l, r \in Names("lit", {"int"}) \cup Names("var", {"n"})}
Few == Names("var", {"d", "n"}) \cup Names("lit", {"int"})
Two == Unary(Some) \cup BinaryOf(Some, Few) \cup BinaryOf(Few, Some)
         \cup {E("cond", <<x, y, z>>) : x \in {E("less", <<l, l>>) : l \in Names("var", {"n"})} \cup Names("var", {"n"}),
                                        y, z \in Names("var", {"c", "d", "n"})}

LetOf(t, e) == T("let", "x", t, <<e>>)
Obj(t, e) == T("object", "y", t, <<e>>)
IsTerm(e) == e.node \notin {"add", "div", "less", "cond"}
AsTerm(e) == IF IsTerm(e) THEN e ELSE E("paren", <<e>>)

Statement1(S) ==
  {LetOf(t, e) : t \in {"int", "ubyte"}, e \in S} \cup {Obj(t, AsTerm(e)) : t \in {"D", "I"}, e \in S}

\* the parameters a body names
Params == <<[name |-> "c", type |-> "C"], [name |-> "d", type |-> "D"], [name |-> "i", type |-> "I"],
            [name |-> "n", type |-> "int"], [name |-> "u", type |-> "ubyte"]>>
RECURSIVE NamesIn(_)
NamesIn(e) == {e.name} \cup UNION {NamesIn(e.kids[k]) : k \in DOMAIN e.kids}
P(ret, body) ==
  LET names == UNION {NamesIn(s) : s \in Range(body)}
  IN [params |-> SelectSeq(Params, LAMBDA p : p.name \in names), ret |-> ret, body |-> body]

Single == {P("void", <<s>>) : s \in Statement1(One \cup Two)}

(***************************************************************************)
(* Two and three statements, with scopes around some of them.              *)
(***************************************************************************)
V(x) == T("var", x, "", <<>>)
L(t) == T("lit", t, "", <<>>)
Set(x, op, e) == T("set", x, op, <<e>>)
SetField(x, f, e) == T("setfield", x, f, <<e>>)
Casted(t, e) == T("cast", t, "", <<e>>)
Open == E("open", <<>>)
Close == E("close", <<>>)

Locals ==
  {LetOf("int", V("n")), LetOf("ubyte", L("int")), T("let", "n", "ubyte", <<L("ubyte")>>), LetOf("int", E("div", <<V("n"), V("x")>>)),
   Obj("C", V("c")), Obj("C", E("null", <<>>)), Obj("C", V("d")), Obj("I", Casted("I", V("c"))),
   Obj("D", Casted("D", V("c")))}
Stores ==
  {Set("n", "=", L("ubyte"))} \cup {Set(x, "=", e) : x \in {"c", "y"}, e \in {V("d"), V("n"), E("null", <<>>)}}
    \cup {Set("x", op, e) : op \in {"=", "+=", "/="}, e \in {V("n"), L("ubyte")}}
    \cup {SetField("d", "c", V("d")), SetField("y", "n", V("n")), SetField("n", "n", V("n"))}
Uses == {T("call", "f", "", <<V(x)>>) : x \in {"c", "x", "y", "i"}}
Returns == {E("return", <<e>>) : e \in {V("x"), V("y"), T("call", "f", "", <<V("c")>>)}}
Each == Locals \cup Stores \cup Uses

Bodies ==
  {<<s, t>> : s, t \in Each} \cup {<<Open, s, Close, t>> : s \in Locals, t \in Each}
    \cup {<<s, Open, t, Close, u>> : s, t \in Locals, u \in Uses \cup Stores}
    \cup {<<s, t, u>> : s \in Locals, t \in Stores, u \in Locals \cup Uses}
Several ==
  {P("void", b) : b \in Bodies}
    \cup {P(t, <<s, r>>) : t \in {"int", "C"}, s \in Locals \cup Stores, r \in Returns}
    \cup {P("int", <<r, s>>) : s \in Locals, r \in Returns} \cup {P("int", <<s>>) : s \in Uses}

MCPrograms == Single \cup Several
=============================================================================
