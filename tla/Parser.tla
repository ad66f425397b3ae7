------------------------------- MODULE Parser -------------------------------
(***************************************************************************)
(* Parser (parsing/Parser.cpp): the tokens of a file are read by recursive *)
(* descent.  Each operator is the method of its name, from the position    *)
(* it begins at to what it returns and where it leaves off, which a method *)
(* that returns nothing may have moved as well.                            *)
(*                                                                         *)
(* Names are one identifier (TypeIndex has the qualified ones); not        *)
(* modelled are templates, super(...), the modifiers of variables, isLive  *)
(* and the main function a main file needs.  A message and an exception    *)
(* both end the process: "failed".  "undefined" is the end of a method    *)
(* that returns no value where it should: parseEnum behind an access       *)
(* modifier and the name of a type, parseType behind `abstract`; and a     *)
(* type the file's table has no object for.                                *)
(***************************************************************************)
EXTENDS Tokenizer

CONSTANTS
  Files,   \* the files explored, by number: up to `most` of some runs of tokens, in `before` and `behind`
  Types         \* the kind of each type the file knows, by name

ASSUME TypesAssumption ==
  \A n \in DOMAIN Types : Types[n] \in {"class", "struct", "enum", "interface", "namespace"}

VARIABLE file   \* what parseProg made of it

Primitive == {"byte", "short", "int", "long", "ubyte", "ushort", "uint", "ulong", "float", "double", "bool"}
Access == {"public", "protected", "private"}
Assigns == {"eq", "plus_eq", "sub_eq", "div_eq", "mul_eq"}
Steps == {"inc", "dec"}
Connectives == {"and", "or", "xor"}

prec ==
  [t \in {"question"} |-> 0] @@
  [t \in {"equal", "notequal", "bigequal", "smallequal", "big", "small", "bitAnd", "bitOr"} |-> 1] @@
  [t \in {"plus", "sub"} |-> 2] @@ [t \in {"div", "mul", "mod"} |-> 3] @@ [t \in {"pow"} |-> 4]

\* The type of a literal by its last character, whatever else it is
sidChar(c) ==
  CASE c \in {"Z", "z"} -> "bool" [] c \in {"D", "d"} -> "double" [] c \in {"F", "f"} -> "float"
    [] c \in {"L", "l"} -> "long" [] c \in {"S", "s"} -> "short" [] c \in {"B", "b"} -> "byte"
    [] OTHER -> "int"

type(i) == IF i \in DOMAIN m_tokens THEN m_tokens[i].type ELSE "end"
value(i) == IF i \in DOMAIN m_tokens THEN m_tokens[i].value ELSE <<>>

Some(i, tree) == [how |-> "some", at |-> i, tree |-> tree]
Nothing(i) == [how |-> "none", at |-> i, tree |-> <<>>]
Failed == [how |-> "failed", at |-> 0, tree |-> <<>>]
Undefined == [how |-> "undefined", at |-> 0, tree |-> <<>>]

\* What follows when there is a tree, and what needs one
Then(r, F(_, _)) == IF r.how = "some" THEN F(r.at, r.tree) ELSE r
Need(r, F(_, _)) ==
  CASE r.how = "some" -> F(r.at, r.tree) [] r.how = "undefined" -> r [] OTHER -> Failed
tryConsume(t, i, F(_)) == IF type(i) = t THEN F(i + 1) ELSE Failed
Past(ts, i) == IF type(i) \in ts THEN i + 1 ELSE i

IsType(name) == name \in DOMAIN Types
IsClass(name) == IsType(name) /\ Types[name] = "class"

\* A name is looked at with the token behind it.
parseContained(i) ==
  CASE type(i) = "end" \/ (type(i) = "id" /\ type(i + 1) = "end") -> Failed
    [] type(i) = "id" /\ type(i + 1) # "end" -> Some(i + 1, value(i))
    [] OTHER -> Nothing(i)

-----------------------------------------------------------------------------
(***************************************************************************)
(* Terms and expressions.  "chain" is a term with what it is contained in, *)
(* of which a term keeps the one it is given last.                         *)
(***************************************************************************)
LastTerm(t) == IF t[1] = "chain" THEN t[3] ELSE t
Inside(outer, t) == <<"chain", outer, LastTerm(t)>>

\* What stands before the dot is kept if it is a name, a call or an element; the name
\* behind it is left for the next term if an access goes on from there.
Accessed(t, field) ==
  CASE t # <<>> /\ t[1] \in {"name", "call"} -> <<"acces", t, field>>
    [] t # <<>> /\ t[1] = "index" -> <<"chain", t, <<"acces", <<>>, field>>>>
    [] OTHER -> <<"acces", <<>>, field>>

RECURSIVE parse(_, _, _), Args(_, _, _), Indices(_, _), Sizes(_, _), Climb(_, _, _)

\* What calls itself through others; parse, at the end of the descent, is what these are
parseExpr(i, minPrec) == parse("expr", i, minPrec)
parseTerm(i) == parse("term", i, 0)
parseStmt(i, semi) == parse("stmt", i, semi)
parseType(i, super) == parse("type", i, super)
parseProg == parse("prog", 1, <<>>)

Args(i, args, comma) ==
  LET e == parseExpr(i, 0) IN
  CASE e.how = "some" /\ comma ->
         tryConsume("comma", e.at, LAMBDA a : Args(Past({"comma"}, a), Append(args, e.tree), TRUE))
    [] e.how = "some" /\ ~ comma ->
         Args(Past({"comma"}, e.at), Append(args, e.tree), type(e.at) # "comma")
    [] e.how = "none" -> tryConsume("closeParenth", e.at, LAMBDA a : Some(a, args))
    [] OTHER -> Failed

Indices(i, ids) ==
  IF type(i) # "openBracket" THEN Some(i, ids)
  ELSE Need(parseExpr(i + 1, 0), LAMBDA at, e : tryConsume("closeBracket", at, LAMBDA a : Indices(a, Append(ids, e))))

Sizes(i, sizes) ==
  IF type(i) # "openBracket" THEN Some(i, sizes)
  ELSE Need(parseTerm(i + 1), LAMBDA at, t : tryConsume("closeBracket", at, LAMBDA a : Sizes(a, Append(sizes, t))))

Named(i, name) ==
  CASE type(i) = "openParenth" -> Then(Args(i + 1, <<>>, FALSE), LAMBDA at, args : Some(at, <<"call", name, args>>))
    [] type(i) = "openBracket" -> Then(Indices(i, <<>>), LAMBDA at, ids : Some(at, <<"index", name, ids>>))
    [] OTHER -> Some(i, <<"name", name>>)

\* A name alone in parentheses is a type, and all that follows is cast to it.
Parenthesised(i) ==
  Need(parseExpr(i, 0), LAMBDA at, e :
    tryConsume("closeParenth", at, LAMBDA a :
      IF LastTerm(e)[1] = "name" THEN Need(parseExpr(a, 0), LAMBDA b, x : Some(b, <<"cast", LastTerm(e)[2], x>>))
      ELSE Some(a, <<"paren", e>>)))

New(i) ==
  IF type(i) \in Primitive
    THEN Then(Sizes(i + 1, <<>>), LAMBDA at, sizes : Some(at, <<"newArray", type(i), sizes>>))
    ELSE Need(parseContained(i), LAMBDA at, name :
           CASE type(at) = "openBracket" ->
                  Then(Sizes(at, <<>>), LAMBDA a, sizes : Some(a, <<"newArray", name, sizes>>))
             [] type(at) # "openBracket" /\ IsClass(name) ->
                  tryConsume("openParenth", at, LAMBDA a :
                    Then(Args(a, <<>>, FALSE), LAMBDA b, args : Some(b, <<"new", name, args>>)))
             [] OTHER -> Nothing(at))

Primary(i) ==
  CASE type(i) = "int_lit" -> Some(i + 1, <<"int", value(i), sidChar(Last(value(i)))>>)
    [] type(i) = "str" -> Some(i + 1, <<"str">>)
    [] type(i) = "id" -> Then(parseContained(i), Named)
    [] type(i) = "openParenth" -> Parenthesised(i + 1)
    [] type(i) = "new" -> New(i + 1)
    [] type(i) = "null" -> Some(i + 1, <<"null">>)
    [] OTHER -> Nothing(i)

InstanceOf(p) ==
  IF p.how = "failed" \/ type(p.at) # "instanceOf" THEN p
  ELSE Need(parseContained(p.at + 1), LAMBDA at, name : Some(at, <<"instanceOf", p.tree, name>>))

Goes(i) == type(i) \in {"connector", "openBracket", "openParenth"}
Accesses(p) ==
  IF p.how = "failed" \/ type(p.at) # "connector" THEN p
  ELSE LET i == p.at + 1 IN
       IF p.tree # <<>> /\ p.tree[1] = "index" /\ type(i) = "id" /\ value(i) = <<"length">>
         THEN Some(i, <<"length", p.tree>>)
         ELSE IF type(i + 1) = "end" THEN Failed
         ELSE Some(IF Goes(i + 1) THEN i ELSE i + 1, Accessed(p.tree, value(i)))

Chained(p) ==
  Then(p, LAMBDA i, t :
    LET r == parseTerm(i) IN
    CASE r.how = "some" -> Some(r.at, Inside(t, r.tree))
      [] r.how = "none" -> Some(r.at, t)
      [] OTHER -> Failed)

Whole(p) == Chained(Accesses(InstanceOf(p)))
TermAt(i) == Whole(Primary(i))

RightPrecSame(op) == prec[op]   \* variant: operators associate to the right
RightPrec(op) == prec[op] + 1

Climb(i, ls, minPrec) ==
  LET op == type(i) IN
  IF op \notin DOMAIN prec \/ (op \in DOMAIN prec /\ prec[op] < minPrec) THEN Some(i, ls)
  ELSE Need(parseExpr(i + 1, RightPrec(op)), LAMBDA at, rs :
         CASE op = "pow" -> Failed
           [] op = "question" ->
                tryConsume("next", at, LAMBDA a :
                  Need(parseExpr(a, 1), LAMBDA b, other : Climb(b, <<"inlineIf", ls, rs, other>>, minPrec)))
           [] OTHER -> Climb(at, <<op, ls, rs>>, minPrec))

\* A `!` is taken even if no term follows; it negates the whole expression.
ExprAt(i, minPrec) ==
  Then(parseTerm(Past({"not"}, i)), LAMBDA at, t :
    Then(Climb(at, t, minPrec), LAMBDA a, e : Some(a, IF type(i) = "not" THEN <<"not", e>> ELSE e)))

-----------------------------------------------------------------------------
(***************************************************************************)
(* Declarations of variables                                               *)
(***************************************************************************)
parsePirim(i) ==
  CASE type(i + 1) = "id" /\ type(i + 2) = "semi" ->
         Some(i + 3, <<"let", type(i), value(i + 1), <<"int", <<"0">>, "int">>>>)
    [] type(i + 1) = "id" /\ type(i + 2) = "eq" ->
         Need(parseExpr(i + 3, 0), LAMBDA at, e :
           tryConsume("semi", at, LAMBDA a : Some(a, <<"let", type(i), value(i + 1), e>>)))
    [] OTHER -> Nothing(i)

RECURSIVE Brackets(_)
Brackets(i) == IF type(i) = "openBracket" /\ type(i + 1) = "closeBracket" THEN 1 + Brackets(i + 2) ELSE 0

ArrayOf(i, elem) ==   \* from the brackets on; any token is taken as the name
  LET n == Brackets(i)
      at == i + 2 * n
      End(a, term) == tryConsume("semi", a, LAMBDA b : Some(b, <<"letArray", elem, n, value(at), term>>))
  IN CASE type(at) = "end" -> Failed
       [] type(at + 1) = "eq" -> Need(parseTerm(at + 2), End)
       [] OTHER -> End(at + 1, <<>>)

parseNew(i, name) ==
  IF type(i) # "id" THEN Failed
  ELSE CASE Types[name] \in {"struct", "class", "interface"} /\ type(i + 1) = "semi" ->
              Some(i + 2, <<"let", name, value(i), <<"null">>>>)
         [] Types[name] \in {"class", "interface"} /\ type(i + 1) = "eq" ->
              Need(parseTerm(i + 2), LAMBDA at, t :
                tryConsume("semi", at, LAMBDA a : Some(a, <<"let", name, value(i), t>>)))
         [] OTHER -> Failed

\* The name of the variable has been taken for a type by then: a second one is needed.
parseEnum(i, name) ==
  tryConsume("id", i, LAMBDA a :
    CASE type(a) = "semi" -> Some(a + 1, <<"let", name, value(i), <<"null">>>>)
      [] type(a) = "eq" ->
           Need(parseContained(a + 1), LAMBDA at, v : Some(Past({"semi"}, Past({"id"}, at)), <<"let", name, value(i), <<"name", v>>>>))
      [] OTHER -> Failed)

\* Arrays are of what can contain something; with two brackets nobody asks of what.
parseArrNew(i, name) ==
  CASE type(i + 1) = "openBracket" -> ArrayOf(i + 1, "openBracket")
    [] type(i + 1) # "openBracket" /\ IsType(name) /\ Types[name] \in {"class", "interface", "namespace"} -> ArrayOf(i, name)
    [] OTHER -> Nothing(i)

PrimitiveLet(i) == IF type(i + 1) = "openBracket" THEN ArrayOf(i + 1, type(i)) ELSE parsePirim(i)

LetOf(i, name) ==   \* parseLet behind the name of a type
  LET at == Past(Access, i) IN
  CASE Types[name] = "enum" /\ type(at) \in Primitive -> PrimitiveLet(at)
    [] Types[name] = "enum" /\ type(at) \notin Primitive -> Need(parseContained(at), LAMBDA a, n : parseEnum(a, name))
    [] Types[name] # "enum" /\ type(at) = "openBracket" -> parseArrNew(at, name)
    [] OTHER -> parseNew(at, name)

\* Behind a name of whatever kind parseEnum looks for another: one of an enum, or its end is reached.
SecondName(i) ==
  Need(parseContained(i), LAMBDA at, n : IF IsType(n) /\ Types[n] = "enum" THEN parseEnum(at, n) ELSE Undefined)

parseLet(i) ==
  LET at == Past(Access, i) IN
  CASE type(at) \in Primitive -> PrimitiveLet(at)
    [] type(at) = "id" /\ type(at + 1) = "id" -> SecondName(at + 1)
    [] type(at) = "id" /\ type(at + 1) = "openBracket" -> parseArrNew(at + 1, value(at))
    [] type(at) = "end" \/ (type(at) = "id" /\ type(at + 1) \notin {"id", "openBracket"}) -> Failed
    [] OTHER -> Nothing(at)

-----------------------------------------------------------------------------
(***************************************************************************)
(* Statements                                                              *)
(***************************************************************************)
RECURSIVE Stmts(_, _), Conds(_, _, _), parseIf(_), Catches(_, _)

Assignment(i, term, semi) ==
  LET End(a, tree) == IF semi THEN tryConsume("semi", a, LAMBDA b : Some(b, tree)) ELSE Some(a, tree) IN
  CASE type(i) \in Assigns -> Need(parseExpr(i + 1, 0), LAMBDA at, e : End(at, <<"assign", type(i), term, e>>))
    [] type(i) \in Steps -> End(i + 1, <<"assign", type(i), term>>)
    [] OTHER -> Failed

parseTermToStmt(i, term, semi) ==
  CASE LastTerm(term)[1] = "call" -> tryConsume("semi", i, LAMBDA a : Some(a, <<"do", term>>))
    [] LastTerm(term)[1] = "index" ->
         Then(Assignment(i, term, TRUE), LAMBDA a, t : Some(a, <<"assignElement", t>>))
    [] OTHER -> Assignment(i, term, semi)

Stmts(i, stmts) ==
  LET s == parseStmt(i, TRUE) IN
  CASE s.how = "some" -> Stmts(s.at, Append(stmts, s.tree))
    [] s.how = "none" -> tryConsume("closeCurl", s.at, LAMBDA a : Some(a, <<"scope", stmts>>))
    [] OTHER -> s
parseScope(i) == IF type(i) = "openCurl" THEN Stmts(i + 1, <<>>) ELSE Nothing(i)

\* expr and exprCond: what joins two expressions is kept apart from them and may be missing.
Conds(i, exprs, conds) ==
  LET e == parseExpr(i, 0) IN
  CASE e.how = "some" ->
         Conds(Past(Connectives, e.at), Append(exprs, e.tree),
               IF type(e.at) \in Connectives THEN Append(conds, type(e.at)) ELSE conds)
    [] e.how = "none" /\ exprs # <<>> -> Some(e.at, <<exprs, conds>>)
    [] OTHER -> Failed

Body(i, F(_, _)) == Need(parseStmt(i, TRUE), F)

parseIf(i) ==
  tryConsume("openParenth", i, LAMBDA a :
    Then(Conds(a, <<>>, <<>>), LAMBDA b, cond :
      tryConsume("closeParenth", b, LAMBDA c :
        Body(c, LAMBDA at, then :
          CASE type(at) # "else" -> Some(at, <<"if", cond, then>>)
            [] type(at) = "else" /\ type(at + 1) = "if" ->
                 Then(parseIf(at + 2), LAMBDA d, other : Some(d, <<"if", cond, then, other>>))
            [] OTHER -> Body(at + 1, LAMBDA d, other : Some(d, <<"if", cond, then, other>>))))))

parseWhile(i) ==
  tryConsume("openParenth", i, LAMBDA a :
    Then(Conds(a, <<>>, <<>>), LAMBDA b, cond :
      tryConsume("closeParenth", b, LAMBDA c : Body(c, LAMBDA at, body : Some(at, <<"while", cond, body>>)))))

IsLet(t) == t[1] \in {"let", "letArray"}

parseFor(i) ==
  LET let == parseStmt(i + 1, TRUE)
      Step(a, first, cond) ==
        LET step == parseStmt(a, FALSE) IN
        CASE step.how = "none" \/ (step.how = "some" /\ step.tree[1] = "assign") ->
               tryConsume("closeParenth", step.at, LAMBDA b :
                 Body(b, LAMBDA at, body : Some(at, <<"for", first, cond, step.tree, body>>)))
          [] step.how = "some" /\ step.tree[1] # "assign" -> Failed
          [] OTHER -> step
      Rest(a, first) ==
        Then(Conds(a, <<>>, <<>>), LAMBDA b, cond : tryConsume("semi", b, LAMBDA c : Step(c, first, cond)))
  IN CASE type(i) # "openParenth" -> Failed
       [] type(i) = "openParenth" /\ let.how = "some" -> IF IsLet(let.tree) THEN Rest(let.at, let.tree) ELSE Failed
       [] type(i) = "openParenth" /\ let.how = "none" -> tryConsume("semi", let.at, LAMBDA a : Rest(a, <<>>))
       [] OTHER -> let

Catches(i, catches) ==
  IF type(i) # "catch" THEN (IF catches = <<>> THEN Failed ELSE Some(i, catches))
  ELSE tryConsume("openParenth", i + 1, LAMBDA a :
         Need(parseContained(a), LAMBDA b, name :
           IF type(b) # "id" \/ type(b + 1) # "closeParenth" THEN Failed
           ELSE Need(parseScope(b + 2), LAMBDA at, s : Catches(at, Append(catches, <<name, s>>)))))

parseTry(i) ==
  Need(parseScope(i), LAMBDA a, s : Then(Catches(a, <<>>), LAMBDA at, catches : Some(at, <<"try", s, catches>>)))

parseSwitch(i) ==
  tryConsume("openParenth", i, LAMBDA a :
    Need(parseTerm(a), LAMBDA b, t :
      tryConsume("closeParenth", b, LAMBDA c : Need(parseScope(c), LAMBDA at, s : Some(at, <<"switch", t, s>>)))))

parseCase(i) ==
  Need(parseTerm(i), LAMBDA a, t :
    IF LastTerm(t)[1] # "int" THEN Failed ELSE tryConsume("next", a, LAMBDA at : Some(at, <<"case", t>>)))

parseReturn(i) ==
  LET e == parseExpr(i, 0) IN
  IF e.how = "failed" THEN Failed ELSE tryConsume("semi", e.at, LAMBDA a : Some(a, <<"return", e.tree>>))

StmtAt(i, semi) ==
  LET k == Past({"static"}, Past({"final"}, i)) IN
  CASE type(k) \in Primitive -> Need(parseLet(k), Some)
    [] type(k) = "openCurl" -> parseScope(k)
    [] type(k) = "if" -> parseIf(k + 1)
    [] type(k) = "for" -> parseFor(k + 1)
    [] type(k) = "while" -> parseWhile(k + 1)
    [] type(k) = "try" -> parseTry(k + 1)
    [] type(k) = "throw" ->
         Need(parseExpr(k + 1, 0), LAMBDA a, e : tryConsume("semi", a, LAMBDA b : Some(b, <<"throw", e>>)))
    [] type(k) = "switch" -> parseSwitch(k + 1)
    [] type(k) = "case" -> parseCase(k + 1)
    [] type(k) = "default" -> tryConsume("next", k + 1, LAMBDA a : Some(a, <<"default">>))
    [] type(k) = "return" -> parseReturn(k + 1)
    [] type(k) \in {"break", "continue"} -> tryConsume("semi", k + 1, LAMBDA a : Some(a, <<type(k)>>))
    [] type(k) \in Access -> parseLet(k)
    [] type(k) = "id" ->
         Need(parseContained(k), LAMBDA a, name :
           IF IsType(name) THEN Need(LetOf(a, name), Some)
           ELSE Then(Whole(IF type(a) \in {"int_lit", "str"} THEN Primary(a) ELSE Named(a, name)),
                     LAMBDA b, term : parseTermToStmt(b, term, semi)))
    [] type(k) = "end" -> Failed
    [] OTHER -> Nothing(k)

-----------------------------------------------------------------------------
(***************************************************************************)
(* Functions and types.  `contained` is what a container lists: parseFunc  *)
(* enters the function before it knows that there is one.                  *)
(***************************************************************************)
RECURSIVE Params(_, _, _), Members(_, _, _)

Params(i, params, comma) ==
  CASE type(i) \notin Primitive \cup {"id"} -> tryConsume("closeParenth", i, LAMBDA a : Some(a, params))
    [] comma -> Failed   \* no type is a comma
    [] OTHER -> Need(IF type(i) = "id" THEN parseContained(i) ELSE Some(i + 1, <<type(i)>>), LAMBDA a, t :
                  tryConsume("id", a, LAMBDA b : Params(Past({"comma"}, b), Append(params, t), type(b) # "comma")))

Modifiers == <<"final", "static", "abstract", "override">>
ModifiersAt(i) ==   \* each at most once and in this order
  LET end[m \in 0 .. 4] == IF m = 0 THEN Past(Access, i) ELSE Past({Modifiers[m]}, end[m - 1])
  IN [at |-> end[4], set |-> {Modifiers[m] : m \in {k \in 1 .. 4 : end[k] > end[k - 1]}}]
ContradictStatic(mods) ==   \* variant: only what is static is looked at
  "static" \in mods /\ mods \cap {"final", "abstract", "override"} # {}
Contradict(mods) ==
  \/ "static" \in mods /\ mods \cap {"final", "abstract", "override"} # {}
  \/ "abstract" \in mods /\ mods \cap {"final", "override"} # {}

Signature(i, mods) ==   \* from the name on
  IF type(i) # "id" THEN Failed
  ELSE tryConsume("openParenth", i + 1, LAMBDA a :
         Then(Params(a, <<>>, FALSE), LAMBDA b, params :
           IF "abstract" \in mods THEN tryConsume("semi", b, LAMBDA c : Some(c, <<"func", value(i), mods, params>>))
           ELSE Need(parseScope(b), LAMBDA c, s : Some(c, <<"func", value(i), mods, params, s>>))))

parseFunc(i, super) ==
  LET m == ModifiersAt(i)
      mods == m.set \cup (IF super = "interface" THEN {"abstract"} ELSE IF super = "file" THEN {"static"} ELSE {})
  IN CASE Contradict(m.set) -> Failed
       [] ~ Contradict(m.set) /\ type(m.at) = "id" -> Need(parseContained(m.at), LAMBDA a, ret : Signature(a, mods))
       [] ~ Contradict(m.set) /\ type(m.at) \in Primitive \cup {"void"} -> Signature(m.at + 1, mods)
       [] OTHER -> Nothing(m.at)

Constructor(i) == Signature(Past(Access, i), {"final"})

isprocedingFund(i) ==
  LET at == ModifiersAt(i).at IN
  type(i + 2) # "end" /\ type(at) \in {"id", "void"} \cup Primitive /\ type(at + 1) = "id" /\ type(at + 2) = "openParenth"

Empty == [funcs |-> <<>>, constructors |-> <<>>, vars |-> <<>>, types |-> <<>>, contained |-> <<>>]
WithFunc(m, f) == [m EXCEPT !.funcs = Append(@, f), !.contained = Append(@, f[2])]
WithCtor(m, f) == [m EXCEPT !.constructors = Append(@, f)]
WithVar(m, v) == [m EXCEPT !.vars = Append(@, v)]
WithType(m, t, n) == [m EXCEPT !.types = Append(@, t), !.contained = @ \o [k \in 1 .. n |-> t[2]]]
Phantom(m) == [m EXCEPT !.contained = Append(@, <<>>)]

\* Classes, structs and namespaces enter themselves in what they are declared in.
Enters(t) == IF t[1] \in {"class", "struct", "namespace"} THEN 1 ELSE 0

\* The members of a class, a namespace, an interface, up to the brace
Members(i, super, m) ==
  LET name == super[2]
      func == parseFunc(i, super[1])
      stmt == parseStmt(i, TRUE)
      NestedType(at, mm) ==
        Need(parseType(at, super[1]), LAMBDA a, t : Members(a, super, WithType(mm, t, 1 + Enters(t))))
  IN CASE type(i) = "end" -> Failed
       [] type(i) = "closeCurl" -> Some(i + 1, m)
       [] type(i) \notin {"end", "closeCurl"} /\ super[1] # "class" ->
            CASE func.how = "some" -> Members(func.at, super, WithFunc(m, func.tree))
              [] func.how = "none" -> NestedType(func.at, Phantom(m))
              [] OTHER -> func
       [] OTHER ->
            CASE type(i) = "id" /\ value(i) = name /\ type(i + 1) = "openParenth" ->
                   Need(Constructor(i), LAMBDA a, f : Members(a, super, WithCtor(m, f)))
              [] ~ (type(i) = "id" /\ value(i) = name /\ type(i + 1) = "openParenth") /\ isprocedingFund(i) ->
                   Need(func, LAMBDA a, f : Members(a, super, WithFunc(m, f)))
              [] OTHER ->
                   CASE stmt.how = "some" ->
                          IF IsLet(stmt.tree) THEN Members(stmt.at, super, WithVar(m, stmt.tree)) ELSE Failed
                     [] stmt.how = "none" -> NestedType(stmt.at, m)
                     [] OTHER -> stmt

\* The values of an enum, up to the brace, which may be missing
RECURSIVE Values(_, _, _)
Values(i, values, comma) ==
  CASE type(i) \in {"end", "closeCurl"} -> Some(Past({"closeCurl"}, i), values)
    [] type(i) = "id" /\ ~ comma -> Values(Past({"comma"}, i + 1), Append(values, value(i)), type(i + 1) # "comma")
    [] OTHER -> Failed

\* The heads are TypeIndex's: what a type extends and implements is not read here.
TypeAt(i, super) ==
  LET kind == type(i)
      name == value(i + 1)
  IN CASE type(i + 1) # "id" -> IF type(i + 1) = "end" THEN Failed ELSE Nothing(i)
       [] type(i + 1) = "id" /\ kind \in {"class", "namespace", "interface", "enum", "struct"} ->
            IF ~ IsType(name) \/ (IsType(name) /\ Types[name] # kind) THEN Undefined
            ELSE CASE kind = "struct" ->
                        Need(parseScope(i + 2), LAMBDA a, s :
                          IF \A k \in DOMAIN s[2] : IsLet(s[2][k]) THEN Some(a, <<kind, name, s[2]>>) ELSE Failed)
                   [] kind = "enum" ->
                        tryConsume("openCurl", i + 2, LAMBDA a :
                          Then(Values(a, <<>>, FALSE), LAMBDA b, values : Some(b, <<kind, name, values>>)))
                   [] OTHER ->
                        tryConsume("openCurl", i + 2, LAMBDA a :
                          Then(Members(a, <<kind, name>>, Empty), LAMBDA b, m : Some(b, <<kind, name, m>>)))
       [] type(i + 1) = "id" /\ kind = "abstract" -> Undefined   \* a name is no `class`
       [] OTHER -> Nothing(i + 1)

\* The name of a function among those of its file: the letter of an unsigned type is the one behind
\* that of the signed type, as which floating types do not count; `bool` has its own.
Letter ==
  [byte |-> "c", short |-> "s", int |-> "i", long |-> "l", ubyte |-> "d", ushort |-> "t", uint |-> "j", ulong |-> "m",
   float |-> "g", double |-> "e", bool |-> "b"]
Unmangled == {<<"m", "a", "i", "n">>, <<"p", "r", "i", "n", "t", "f">>}
mangle(f) ==
  IF f[2] \in Unmangled THEN <<f[2]>>
  ELSE <<f[2]>> \o [k \in DOMAIN f[4] |-> IF f[4][k][1] \in Primitive THEN <<Letter[f[4][k][1]]>> ELSE <<"P">> \o f[4][k]]

\* A function takes the place of another one of its name.
Entered(m, f) == [m EXCEPT !.funcs = Append(SelectSeq(@, LAMBDA g : mangle(g) # mangle(f)), f)]

RECURSIVE Declarations(_, _)
Declarations(i, m) ==
  LET func == parseFunc(i, "file") IN
  CASE type(i) = "end" -> Some(i, m)
    [] type(i) \in {"semi", "info"} -> Declarations(i + 1, m)
    [] type(i) \notin {"end", "semi", "info"} /\ func.how = "some" ->
         Declarations(func.at, Entered(m, func.tree))
    [] type(i) \notin {"end", "semi", "info"} /\ func.how = "none" ->
         Need(parseType(func.at, "file"), LAMBDA a, t : Declarations(a, [m EXCEPT !.types = Append(@, t)]))
    [] OTHER -> func

parse(what, i, x) ==
  CASE what = "expr" -> ExprAt(i, x)
    [] what = "term" -> TermAt(i)
    [] what = "stmt" -> StmtAt(i, x)
    [] what = "type" -> TypeAt(i, x)
    [] what = "prog" -> Declarations(i, Empty)

-----------------------------------------------------------------------------
Init ==
  /\ \/ text \in Texts /\ m_tokens = <<>> /\ pc = "read"
     \/ /\ text = <<>> /\ pc = "parse"
        /\ \E k \in DOMAIN Files : \E runs \in [1 .. Files[k].most -> Files[k].runs \cup {<<>>}] :
             m_tokens = Files[k].before \o FlattenSeq(runs) \o Files[k].behind
  /\ m_I = 1
  /\ comment = "no"
  /\ file = Empty

Parse ==
  /\ pc = "parse" /\ parseProg.how = "some"
  /\ file' = parseProg.tree
  /\ pc' = "done"
  /\ UNCHANGED <<text, m_I, comment, m_tokens>>

ParseFails == pc = "parse" /\ parseProg.how = "failed" /\ StopReading("refused") /\ UNCHANGED file

RunOff == pc = "parse" /\ parseProg.how = "undefined" /\ StopReading("undefined") /\ UNCHANGED file

Ended == {"done", "refused", "crashed", "undefined"}
Terminating == pc \in Ended /\ UNCHANGED <<tokVars, file>>

Next == (Tokenize /\ UNCHANGED file) \/ Parse \/ ParseFails \/ RunOff \/ Terminating

vars == <<tokVars, file>>
Spec == Init /\ [][Next]_vars
\* The compiler is one thread that nothing holds up: a turn of the loop it can take is taken.
FairSpec == Spec /\ WF_tokVars(Tokenize)
=============================================================================
