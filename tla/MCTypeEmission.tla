--------------------------- MODULE MCTypeEmission ---------------------------
EXTENDS TypeRules, TLC

CONSTANTS F1, F2, F3, A, B
ThreeFiles == {F1, F2, F3}
TwoClasses == {A, B}
Order == <<F1, F2, F3>>

S(op, c) == [op |-> op, of |-> c]
Ret == S("return", NoClass)

Mentions(stmts) == {stmts[i].of : i \in DOMAIN stmts} \ {NoClass}

\* The types of each file when the classes are declared in this order, each in its file.
Declaring(declared, home) ==
  [f \in ThreeFiles |-> SelectSeq(declared, LAMBDA c : home[c] = f)]

\* The files `f` has to use for what its types and bodies mention.
Using(home, super, body, f) ==
  LET own == {c \in TwoClasses : home[c] = f}
      mentioned == Mentions(body[f]) \cup UNION {Mentions(body[c]) \cup {super[c]} : c \in own}
      needed == {home[c] : c \in mentioned \ {NoClass}} \ {f}
  IN SelectSeq(Order, LAMBDA g : g \in needed)

ProjectOf(declared, home, using, super, ctor, body) ==
  [order |-> Order, types |-> Declaring(declared, home), using |-> using,
   super |-> super, ctor |-> ctor, body |-> body]

Needed(home, super, body) == [f \in ThreeFiles |-> Using(home, super, body, f)]

\* A class and perhaps a subclass, used by the functions of three files
Contents == {<<>>} \cup {<<S(op, c)>> : op \in {"new", "catch"}, c \in {A, B}} \cup {<<S("throw", A)>>}
Sharing ==
  { LET supers == A :> NoClass @@ B :> super
        bodies == [b \in TwoClasses |-> <<>>] @@ body
    IN ProjectOf(<<A, B>>, home, Needed(home, supers, bodies), supers,
                 A :> first @@ B :> second, bodies) :
      home \in [TwoClasses -> ThreeFiles], super \in {NoClass, A},
      first \in {"implicit", "explicit", "args"}, second \in {"implicit", "explicit", "super"},
      body \in [ThreeFiles -> Contents] }

\* Classes whose methods use each other, in one or two files, in either order
Methods == {<<>>, <<Ret>>, <<S("catch", A)>>, <<S("catch", B), S("new", A)>>, <<S("catch", A), Ret>>,
            <<S("throw", A)>>, <<S("throw", B)>>, <<S("new", B), S("new", A)>>}
Supers == {[c \in TwoClasses |-> NoClass], A :> NoClass @@ B :> A, A :> B @@ B :> NoClass}
Nesting ==
  { LET bodies == (F1 :> body @@ F2 :> <<>> @@ F3 :> <<>>) @@ method
    IN ProjectOf(declared, home, Needed(home, super, bodies), super, ctor, bodies) :
      declared \in {<<A, B>>, <<B, A>>}, home \in [TwoClasses -> {F1, F2}], super \in Supers,
      ctor \in [TwoClasses -> {"implicit", "explicit"}],
      method \in [TwoClasses -> Methods], body \in {<<>>, <<S("catch", A), S("new", B)>>} }

\* Files that use each other in every way in which the parser still finds what it looks for
Usings(f) == {s \in UNION {[1 .. n -> ThreeFiles \ {f}] : n \in 0 .. 2} :
                \A i, j \in DOMAIN s : s[i] = s[j] => i = j}
Parses(p) ==
  \A f \in ThreeFiles : \A c \in Mentions(p.body[f]) \cup {p.super[d] : d \in Elements(p.types[f])} :
    c # NoClass => FindClass(p.using, [g \in ThreeFiles |-> Elements(p.types[g])], c)[f] = "found"
Rounds ==
  { ProjectOf(<<A, B>>, home, F1 :> u1 @@ F2 :> u2 @@ F3 :> u3, A :> NoClass @@ B :> super,
              [c \in TwoClasses |-> "implicit"],
              [b \in ThreeFiles \cup TwoClasses |-> IF b = f THEN <<S(op, A)>> ELSE <<>>]) :
      home \in [TwoClasses -> ThreeFiles], super \in {NoClass, A},
      u1 \in Usings(F1), u2 \in Usings(F2), u3 \in Usings(F3),
      f \in ThreeFiles, op \in {"new", "throw", "catch"} }

\* Classes that extend themselves, or each other
Circles ==
  { ProjectOf(<<A, B>>, home, Needed(home, super, [b \in ThreeFiles \cup TwoClasses |-> <<>>]), super,
              ctor, [b \in ThreeFiles \cup TwoClasses |-> <<>>]) :
      home \in [TwoClasses -> {F1, F2}], super \in [TwoClasses -> TwoClasses \cup {NoClass}],
      ctor \in [TwoClasses -> {"implicit", "explicit"}] }

Parsed(projects) == {p \in projects : Parses(p)}
All == Parsed(Sharing) \cup (Parsed(Nesting) \cup (Parsed(Rounds) \cup Parsed(Circles)))

=============================================================================
