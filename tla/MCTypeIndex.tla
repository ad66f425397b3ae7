---------------------------- MODULE MCTypeIndex ----------------------------
EXTENDS TypeIndexRules

Names == {"A", "B", "C", "D"}

Type(kind, name) ==
  [kind |-> kind, name |-> name, extends |-> <<>>, implements |-> <<>>, prim |-> FALSE]
WithPrim(head) == [head EXCEPT !.prim = TRUE]
Around(head, body) == <<head>> \o body \o <<Close>>
Alone(head) == IF Opens(head) THEN Around(head, <<>>) ELSE <<head>>

Heads == {Type(kind, name) : kind \in Kind, name \in {"A", "B"}}
Outer == {head \in Heads : Opens(head)}
Primed == Heads \cup {WithPrim(head) : head \in {h \in Heads : h.kind \in {"class", "struct", "enum"}}}

\* texts of one, two and three declarations, side by side or nested
One(heads) == {Alone(head) : head \in heads}
Two(heads) == {x \o y : x, y \in One(heads)}
                \cup {Around(head, x) : head \in {h \in heads : Opens(h)}, x \in One(heads)}
Three(heads) == {x \o y : x \in One(heads), y \in Two(heads)}
                  \cup {x \o y : x \in Two(heads), y \in One(heads)}
                  \cup {Around(head, x) : head \in Outer, x \in Two(heads)}

File(text, uses, live) == [text |-> text, uses |-> uses, live |-> live]
Project(files, copies) == [files |-> files, copies |-> copies]
Single(text) == Project(<<File(text, <<>>, FALSE)>>, FALSE)

\* one file
Alones == {Single(text) : text \in Three(Heads) \cup Two(Primed)}
\* two files: what one leaves behind for the other
Pairs == {Project(<<File(x, <<>>, FALSE), File(y, <<>>, FALSE)>>, FALSE) :
            x \in One(Primed) \cup {Around(h, e) : h \in Outer, e \in One({Type("enum", "A")})}, y \in Two(Heads)}
\* a third type that refers to one of the first two: in front of them, behind
\* them, or in another file that uses theirs
Paths == {<<"A">>, <<"B">>, <<"A", "B">>, <<"A", "A">>}
Referring ==
  {[Type("class", "C") EXCEPT !.extends = path] : path \in Paths}
    \cup {[Type(kind, "C") EXCEPT !.implements = path] : kind \in {"class", "interface"}, path \in Paths}
Plain == {Type(kind, name) : kind \in {"class", "interface", "struct"}, name \in {"A", "B"}}
References ==
  {Single(text) : text \in {Alone(head) \o x : head \in Referring, x \in Two(Plain)}
                             \cup {x \o Alone(head) : head \in Referring, x \in Two(Plain)}}
Uses ==
  {Project(<<File(x, used, live1), File(y \o Alone(head), uses, FALSE)>>, copies) :
     x \in Two({Type("interface", "A"), Type("class", "A"), Type("class", "B")}),
     y \in {<<>>, Around(Type("class", "B"), Alone(Type("interface", "A"))), Alone(Type("class", "B"))},
     head \in {h \in Referring : h.extends # <<"A", "A">> /\ h.implements \notin {<<"A", "A">>, <<"B">>}},
     used \in {<<>>, <<2>>}, uses \in {<<>>, <<1>>, <<Outside>>}, live1 \in BOOLEAN, copies \in BOOLEAN}
\* an enum hides a class with the name of a struct: the types in it move into the struct,
\* and contain it, or have an interface ask for its name
Hidden ==
  {Single(Around(Type("class", holder), <<Type("struct", "B")>>) \o between \o <<Type("enum", "C")>>
            \o Around(Type("class", "B"), Alone(Type(kind, "A")))) :
     holder \in {"A", "D"}, kind \in {"class", "interface"},
     between \in {<<>>, Alone([Type("interface", "D") EXCEPT !.implements = <<"B">>])}}
All == Alones \cup Pairs \cup Hidden \cup References \cup Uses
=============================================================================
