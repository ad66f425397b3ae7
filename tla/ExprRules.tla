----------------------------- MODULE ExprRules -----------------------------
(***************************************************************************)
(* What the code of a function should be, said of its text with the types  *)
(* its declarations give, and where the generator of ExprGen keeps to it.  *)
(***************************************************************************)
EXTENDS ExprGen, FiniteSetsExt, SequencesExt

(***************************************************************************)
(* Declarations.  That of x at statement k is the last one before k whose  *)
(* scope is still open, or a parameter.                                    *)
(***************************************************************************)
Statements == prog.body
Count(kind, k) == Cardinality({j \in 1 .. k : Statements[j].node = kind})
Depth(k) == Count("open", k) - Count("close", k)

Declares(j, x) == Statements[j].node \in {"let", "object"} /\ Statements[j].name = x
OpenAt(j, k) == \A i \in j .. k : Depth(i) >= Depth(j)
Places(x, k) == {j \in 1 .. k - 1 : Declares(j, x) /\ OpenAt(j, k - 1)}
ParameterOf(x) == {i \in DOMAIN prog.params : prog.params[i].name = x}

Declared(x, k) == Places(x, k) # {} \/ ParameterOf(x) # {}
TypeIn(x, k) ==
  IF Places(x, k) # {} THEN Statements[Max(Places(x, k))].member
  ELSE prog.params[CHOOSE i \in ParameterOf(x) : TRUE].type

\* x is told for what it is: not a parameter whose type is an interface
Telltale(x, k) == Places(x, k) # {} \/ TypeIn(x, k) \in Classes

DeclaredTwice(j) == \E i \in Places(Statements[j].name, j) : Depth(i) = Depth(j - 1)

(***************************************************************************)
(* The type of an expression; "none" if it has none.                       *)
(***************************************************************************)
IsNumber(t) == t \in Primitives
IsObject(t) == t \in Classes \cup Interfaces

Arithmetic(l, r) ==
  CASE ~ IsNumber(l) \/ ~ IsNumber(r) -> "none"
    [] l = r -> l
    [] l \in Floating /\ r \notin Floating -> l
    [] r \in Floating /\ l \notin Floating -> r
    [] Width[l] = Width[r] -> IF Signed(l) THEN r ELSE l
    [] OTHER -> "none"

\* A constructor that takes an object cannot be called.
Constructible(class, types) ==
  /\ \A i \in DOMAIN types : IsNumber(types[i])
  /\ \E c \in Constructors : c.class = class /\ c.params = types

Overloads(name, types) == {f \in Functions : f.name = name /\ f.params = types}

RECURSIVE TypeOf(_, _)
TypeOf(e, k) ==
  LET types == [i \in DOMAIN e.kids |-> TypeOf(e.kids[i], k)]
      x == e.name
  IN CASE e.node = "lit" -> x
       [] e.node = "str" -> "string"
       [] e.node = "null" -> "null"
       [] e.node = "var" -> IF Declared(x, k) THEN TypeIn(x, k) ELSE "none"
       [] e.node = "field" ->
            IF Declared(x, k) /\ TypeIn(x, k) \in Classes /\ e.member \in DOMAIN Fields[TypeIn(x, k)]
              THEN Fields[TypeIn(x, k)][e.member] ELSE "none"
       [] e.node = "paren" -> types[1]
       [] e.node = "new" -> IF Constructible(x, types) THEN x ELSE "none"
       [] e.node = "call" ->
            IF Overloads(x, types) = {} THEN "none" ELSE (CHOOSE f \in Overloads(x, types) : TRUE).ret
       [] e.node = "cast" -> IF IsObject(types[1]) THEN x ELSE "none"
       [] e.node = "instanceOf" -> IF IsObject(types[1]) THEN "bool" ELSE "none"
       [] e.node \in {"add", "div"} -> Arithmetic(types[1], types[2])
       [] e.node = "less" ->
            IF "none" \notin Range(types) /\ getType(types[1]) = getType(types[2])
                 /\ types[1] \notin Floating
              THEN "bool" ELSE "none"
       [] e.node = "cond" ->
            CASE types[1] # "bool" \/ "none" \in Range(types) -> "none"
              [] types[2] = types[3] -> types[2]
              [] getType(types[2]) # getType(types[3]) -> "none"
              [] IsNumber(types[2]) -> Arithmetic(types[2], types[3])
              [] OTHER -> "object"

(***************************************************************************)
(* The objects named in an expression, in the order of the text; a cast is *)
(* all that is named in it.                                                *)
(***************************************************************************)
RECURSIVE NamedIn(_, _)
NamedIn(e, k) ==
  LET inside == FlattenSeq([i \in DOMAIN e.kids |-> NamedIn(e.kids[i], k)])
      x == e.name
  IN CASE e.node = "str" -> <<"string">>
       [] e.node \in {"var", "field"} ->
            IF Declared(x, k) /\ IsObject(TypeIn(x, k)) /\ Telltale(x, k)
              THEN <<TypeIn(x, k)>> ELSE <<>>
       [] e.node \in {"new", "cast", "instanceOf"} -> <<x>>
       [] OTHER -> inside

(***************************************************************************)
(* Told: the generator knows the class of the object.  Known: it knows the *)
(* sign of the number, in time for a call.  A result counts as signed, and *)
(* that of an operation as the parser saw its operands, before a variable  *)
(* was looked up.                                                          *)
(***************************************************************************)
RECURSIVE Told(_, _), Known(_, _), AllLiterals(_)
Told(e, k) ==
  \/ e.node = "var" /\ Declared(e.name, k) /\ Telltale(e.name, k)
  \/ e.node \in {"new", "cast"}
  \/ e.node = "paren" /\ Told(e.kids[1], k)

AllLiterals(e) ==
  \/ e.node = "lit"
  \/ e.node \in {"paren", "add", "div"} /\ \A i \in DOMAIN e.kids : AllLiterals(e.kids[i])

Known(e, k) ==
  \/ AllLiterals(e)
  \/ e.node = "var"
  \/ e.node = "call" /\ Signed(TypeOf(e, k))
  \/ TypeOf(e, k) = "bool"

\* the arguments are what they are taken for: objects that are told come
\* first, then numbers whose sign is known
Clear(e, k) ==
  /\ \A i \in DOMAIN e.kids :
       \/ IsNumber(TypeOf(e.kids[i], k)) /\ Known(e.kids[i], k)
       \/ IsObject(TypeOf(e.kids[i], k)) /\ Told(e.kids[i], k)
  /\ \A i, j \in DOMAIN e.kids :
       i < j /\ IsNumber(TypeOf(e.kids[i], k)) => IsNumber(TypeOf(e.kids[j], k))

(***************************************************************************)
(* WellTyped: every name is declared, every function and constructor       *)
(* exists for the very types of its arguments, objects are put into new    *)
(* variables of their own class, and operands are of one width.  Plain: a  *)
(* function in which nothing is taken for what it is not.                  *)
(***************************************************************************)
LastStatement ==   \* the first return, or the end
  LET returns == {k \in DOMAIN Statements : Statements[k].node = "return"}
  IN IF returns = {} THEN Len(Statements) ELSE Min(returns)

StatementTyped(k) ==
  LET s == Statements[k]
      t == TypeOf(s.kids[1], k)
  IN CASE s.node = "let" -> t # "none" /\ ~ DeclaredTwice(k)
       [] s.node = "object" -> (t = s.member \/ s.kids[1].node = "null") /\ ~ DeclaredTwice(k)
       [] s.node = "set" ->
            /\ Declared(s.name, k) /\ t # "none"
            /\ s.member = "=" \/ (IsNumber(t) /\ t \notin Floating
                                    /\ getType(TypeIn(s.name, k)) = Width[t])
       [] s.node = "setfield" ->
            /\ Declared(s.name, k) /\ t # "none"
            /\ TypeIn(s.name, k) \in Classes
            /\ s.member \in DOMAIN Fields[TypeIn(s.name, k)]
       [] s.node = "return" -> t # "none" /\ getType(t) = getType(prog.ret)
       [] s.node = "call" -> TypeOf(s, k) # "none"
       [] OTHER -> TRUE

WellTyped ==
  /\ \A k \in 1 .. LastStatement : StatementTyped(k)
  /\ prog.ret = "void" <=> \A k \in DOMAIN Statements : Statements[k].node # "return"

RECURSIVE PlainIn(_, _)
PlainIn(e, k) ==
  /\ \A i \in DOMAIN e.kids : PlainIn(e.kids[i], k)
  /\ e.node \in {"call", "new"} => Clear(e, k)
  /\ e.node \in {"cast", "instanceOf"} => Told(e.kids[1], k)
  /\ e.node = "object" => e.kids[1].node = "null" \/ Told(e.kids[1], k)

Plain == \A k \in 1 .. LastStatement : PlainIn(Statements[k], k)

(***************************************************************************)
(* Of plain functions exactly the well-typed ones compile and link.  Of    *)
(* all functions those may compile that put into a new object variable an  *)
(* expression in which the last object named, whatever it is there for, is *)
(* of the class of the variable.                                           *)
(***************************************************************************)
TypedByRule ==
  /\ status # "generating" /\ Plain => (status = "accepted" /\ ~ out.missing <=> WellTyped)
  /\ status = "accepted" =>
       \A k \in 1 .. LastStatement :
         LET s == Statements[k]
         IN s.node = "object" /\ s.kids[1].node # "null" =>
              NamedIn(s.kids[1], k) # <<>> /\ Last(NamedIn(s.kids[1], k)) = s.member

(***************************************************************************)
(* What the code does is what the text means: a call is one of the         *)
(* overload for the types of its arguments, a division has the sign of its *)
(* operands, if all of them are taken for what they are; one in an         *)
(* assignment is signed.  A cast or a test looks at the object only if it  *)
(* is for an interface, never for a class.                                 *)
(***************************************************************************)
KidTypes(e, k) == [i \in DOMAIN e.kids |-> TypeOf(e.kids[i], k)]

MeantByRule ==
  /\ \A c \in out.calls :
       PlainIn(c.node, c.at) => c.callee.params = KidTypes(c.node, c.at)
  /\ \A d \in out.divisions :
       IF d.node.node = "set" THEN d.signed
       ELSE PlainIn(d.node, d.at) /\ (\A e \in Range(d.node.kids) : Known(e, d.at) /\ TypeOf(e, d.at) # "bool") =>
         (d.signed <=> \A t \in Range(KidTypes(d.node, d.at)) : Signed(t))
  /\ \A c \in out.casts : c.checked <=> c.node.name \in Interfaces

(***************************************************************************)
(* A variable holds a value of its type unless a statement has stored one  *)
(* that was not: an initialiser or an assignment whose type is another, a  *)
(* cast down to a class, or what a call or a field gives.                  *)
(***************************************************************************)
RECURSIVE Sure(_, _)
Sure(e, k) ==
  \/ e.node \in {"lit", "null", "new", "var"}
  \/ e.node = "cast" /\ Sure(e.kids[1], k)
       /\ \/ e.name \in Interfaces
          \/ TypeOf(e.kids[1], k) \in Classes /\ e.name \in Above[TypeOf(e.kids[1], k)]
  \/ e.node \in {"paren", "add", "div", "less"} /\ \A i \in DOMAIN e.kids : Sure(e.kids[i], k)

Under(t, u) ==
  \/ t = u
  \/ t = "null" /\ ~ IsNumber(u)
  \/ t \in Classes /\ u \in Above[t]

StoresItsType(k) ==
  LET s == Statements[k]
      t == TypeOf(s.kids[1], k)
      u == IF s.node = "set" /\ Declared(s.name, k) THEN TypeIn(s.name, k) ELSE s.member
  IN s.node \in {"let", "object", "set"} =>
       /\ Sure(s.kids[1], k)
       /\ IF IsNumber(t) /\ IsNumber(u) THEN Width[t] = Width[u] ELSE Under(t, u)

HeldByRule ==
  (\A k \in 1 .. at : StoresItsType(k)) =>
    \A i \in DOMAIN m_vars : \A x \in DOMAIN m_vars[i] :
      m_vars[i][x].is \in Instances(m_vars[i][x].type)
=============================================================================
