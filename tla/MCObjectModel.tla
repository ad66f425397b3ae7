--------------------------- MODULE MCObjectModel ---------------------------
EXTENDS ObjectRules

CONSTANTS A, B, C, I, J, F, G, H
ThreeClasses == {A, B, C}
TwoInterfaces == {I, J}
Names == {F, G, H}

Fn(name, arity, kind) == [name |-> name, arity |-> arity, kind |-> kind]
Of(t, fns) == [k \in DOMAIN fns |-> [of |-> t, name |-> fns[k].name, arity |-> fns[k].arity, kind |-> fns[k].kind]]
Lists(fns, n) ==
  {l \in UNION {[1 .. m -> fns] : m \in 0 .. n} :
     \A i, j \in DOMAIN l : i # j => <<l[i].name, l[i].arity>> # <<l[j].name, l[j].arity>>}

\* Three classes, each extending the one before, that override by name
InA == Lists({Fn(F, 0, "plain"), Fn(G, 0, "plain"), Fn(F, 1, "abstract")}, 2)
InB == Lists({Fn(F, 0, "override"), Fn(G, 0, "override"), Fn(H, 0, "plain"), Fn(F, 1, "override"), Fn(G, 0, "plain")}, 3)
InC == {<<>>, <<Fn(F, 0, "override")>>, <<Fn(F, 0, "override"), Fn(H, 0, "override")>>}
Overridings ==
  { [extending |-> (A :> NoClass @@ B :> A @@ C :> B),
     implementing |-> [d \in ThreeClasses |-> <<>>], inherits |-> [i \in TwoInterfaces |-> <<>>],
     abstract |-> abstract,
     funcs |-> (A :> Of(A, a) @@ B :> Of(B, b) @@ C :> Of(C, c) @@ I :> <<>> @@ J :> <<>>),
     fields |-> [d \in ThreeClasses |-> <<>>]] :
       abstract \in {{}, {A, C}}, a \in InA, b \in InB, c \in InC }
\* A class and a subclass with interfaces and fields, beside a class with neither
Field1(units) == [static |-> FALSE, units |-> units]
Static(units) == [static |-> TRUE, units |-> units]
FieldsA == {<<>>, <<Field1(2)>>, <<Field1(1), Field1(1)>>, <<Field1(1), Field1(2)>>, <<Static(1), Field1(2)>>,
            <<Static(2), Field1(1)>>, <<Static(1), Field1(2), Field1(1)>>}
FieldsB == {<<>>, <<Field1(1)>>}
Methods == {<<>>, <<Fn(F, 0, "plain")>>, <<Fn(F, 0, "override")>>, <<Fn(F, 0, "plain"), Fn(G, 0, "override")>>,
            <<Fn(F, 0, "override"), Fn(F, 1, "plain")>>}
Implementations ==
  { [extending |-> (A :> NoClass @@ B :> A @@ C :> NoClass),
     implementing |-> (A :> first @@ B :> second @@ C :> <<>>),
     inherits |-> (I :> <<>> @@ J :> inherits), abstract |-> abstract,
     funcs |-> (A :> Of(A, a) @@ B :> Of(B, b) @@ C :> <<>> @@ I :> Of(I, i) @@ J :> Of(J, <<Fn(G, 0, "abstract")>>)),
     fields |-> (A :> fieldsA @@ B :> fieldsB @@ C :> <<>>)] :
       first \in {<<>>, <<I>>, <<J>>, <<I, J>>}, second \in {<<>>, <<J>>}, inherits \in {<<>>, <<I>>},
       abstract \in {{}, {A}}, a \in Methods, b \in Methods, i \in {<<>>, <<Fn(F, 0, "abstract")>>},
       fieldsA \in FieldsA, fieldsB \in FieldsB }

\* Both families, as far as no class names an interface twice
NamedOnce(p) == \A c \in ThreeClasses : \A i, j \in DOMAIN p.implementing[c] :
                  p.implementing[c][i] = p.implementing[c][j] => i = j
Plain(programs) == {p \in programs : NamedOnce(p)}
All == Plain(Overridings) \cup Plain(Implementations)
=============================================================================
