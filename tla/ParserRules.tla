----------------------------- MODULE ParserRules ----------------------------
(***************************************************************************)
(* What a text and a list of tokens mean, by rule.  The rule for a text    *)
(* cuts it; the rules for a function's body and for a file are a grammar   *)
(* that lists the sentences of each length with what they mean, a length   *)
(* being a number of pieces (a piece is one or more tokens).               *)
(***************************************************************************)
EXTENDS Parser

CONSTANTS
  Longest,       \* pieces of an expression or a body, at most
  LongestFile,   \* pieces of a file or of a type, at most
  Vocabularies   \* sets of token types that expressions are made of

-----------------------------------------------------------------------------
(***************************************************************************)
(* Texts: a piece p of one, with what is behind it                         *)
(***************************************************************************)
All(p, S) == ToSet(p) \subseteq S

\* A comment ends with the first end there is; a block may close with the star that opened it.
LineEnds(p) == {k \in 3 .. Len(p) : p[k] = "\n"}
BlockEnds(p) == {k \in 3 .. Len(p) : p[k - 1] = "*" /\ p[k] = "/"}
IsComment(p, behind) ==
  /\ Len(p) > 1 /\ p[1] = "/"
  /\ \/ p[2] = "/" /\ (LineEnds(p) = {Len(p)} \/ (LineEnds(p) = {} /\ behind = <<>>))
     \/ p[2] = "*" /\ BlockEnds(p) = {Len(p)}

\* An operator of one character where no longer one fits; some take the next character as well.
IsOperator(p, behind) ==
  LET next == SubSeq(p \o behind, 2, Min({2, Len(p \o behind)}))
      pair == <<p[1]>> \o next
  IN /\ p[1] \in DOMAIN Single
     /\ ~ (p[1] = "/" /\ next # <<>> /\ next[1] \in {"/", "*"})
     /\ ~ (p[1] = "-" /\ next # <<>> /\ next[1] \in Digit)
     /\ p[1] = ":" => next # <<>>
     /\ Len(p) = (IF pair \in DOMAIN Pair \/ p[1] \in {"=", "+", "-", "*"} THEN 2 ELSE 1)

\* Digits with what may stand in a number, and one more letter if there is one
IsNumber(p, behind) ==
  LET first == IF p[1] = "-" THEN 2 ELSE 1
      wide(n) == All(SubSeq(p, first + 1, n), InNumber)
      letter == Last(p) \in Alpha \ InNumber
  IN /\ Len(p) >= first /\ p[first] \in Digit
     /\ wide(IF letter THEN Len(p) - 1 ELSE Len(p))
     /\ letter \/ behind = <<>> \/ behind[1] \notin InNumber \cup Alpha

\* A character is escaped by an odd number of backslashes.
Escaped(p, k) ==
  LET before == {j \in 1 .. k - 1 : \A i \in j .. k - 1 : p[i] = "\\"} IN Cardinality(before) % 2 = 1
IsStr(p) ==
  /\ Len(p) > 1 /\ p[1] = "\""
  /\ \A k \in 2 .. Len(p) : p[k] = "\"" /\ ~ Escaped(p, k) <=> k = Len(p)
StrValue(p) ==
  LET at(k) == CASE p[k] = "\\" /\ ~ Escaped(p, k) -> <<>>
                 [] Escaped(p, k) /\ p[k] \in DOMAIN ESCAPES -> ESCAPES[p[k]]
                 [] OTHER -> <<p[k]>>
  IN FlattenSeq([k \in 1 .. Len(p) - 2 |-> at(k + 1)])

IsChar(p) == p[1] = "'" /\ Len(p) = (IF Len(p) > 1 /\ p[2] = "'" THEN 2 ELSE 3)

\* A word and the blanks behind it, as far as both go
Letters(p) == SelectSeq(p, LAMBDA c : c \notin Space)
IsWord(p, S, behind) ==
  LET w == Letters(p) IN
  /\ All(w, S)
  /\ p = w \o SubSeq(p, Len(w) + 1, Len(p))
  /\ behind # <<>> => behind[1] \notin Space \cup (IF Len(p) = Len(w) THEN S ELSE {})

\* The tokens p stands for, or that it is no piece
NoPiece == <<Tok("none", <<>>)>>
Means(p, behind) ==
  CASE IsComment(p, behind) -> <<>>
    [] IsOperator(p, behind) ->
         <<Tok(IF p \in DOMAIN Pair THEN Pair[p] ELSE Single[p[1]], <<>>)>>
    [] IsNumber(p, behind) -> <<Tok("int_lit", p)>>
    [] IsStr(p) -> <<Tok("str", StrValue(p))>>
    [] IsChar(p) -> IF Len(p) = 2 THEN <<>> ELSE <<Tok("char_lit", <<p[2]>>)>>
    [] p[1] = "#" /\ IsWord(Tail(p), InWord \ {"_"}, behind) ->
         <<Tok("info", [k \in DOMAIN Letters(Tail(p)) |-> Lowered(Letters(Tail(p))[k])])>>
    [] p[1] \in Alpha \cup {"_"} /\ IsWord(p, InWord, behind) -> <<WordToken(Letters(p))>>
    [] p[1] \in Space /\ Len(p) = 1 -> <<>>
    [] OTHER -> NoPiece

\* The ways to cut the text into pieces: where they begin
PieceEnd(cut, k) == Min({j \in cut : j > k} \cup {Len(text) + 1})
PieceAt(k, end) == Means(From(k, end), From(end, Len(text) + 1))
Cuts ==
  LET pieces == {<<k, end>> \in (1 .. Len(text)) \X (2 .. Len(text) + 1) : k < end /\ PieceAt(k, end) # NoPiece}
  IN {cut \in SUBSET DOMAIN text : 1 \in cut /\ \A k \in cut : <<k, PieceEnd(cut, k)>> \in pieces}
TokensOf(cut) ==
  LET begins == SetToSortSeq(cut, <)
  IN FlattenSeq([k \in DOMAIN begins |-> PieceAt(begins[k], PieceEnd(cut, begins[k]))])

\* The tokens of a text are those of its one division into longest pieces; a text that has none is
\* refused or ends the compiler (tokenize).
TokensByRule ==
  /\ pc = "parse" /\ text # <<>> => {TokensOf(cut) : cut \in Cuts} = {m_tokens}
  /\ pc \in {"refused", "crashed"} /\ (m_I <= Len(text) \/ comment = "block") => Cuts = {}

-----------------------------------------------------------------------------
(***************************************************************************)
(* Expressions.  A term is a chain of links that is kept with its first    *)
(* and its last link only; "end" is how the last one ends, which tells     *)
(* what may stand behind it: "name", "closed", "access" (a field, `base`)  *)
(* or "open" (a cast, which takes what follows).                           *)
(***************************************************************************)
T(type_) == Tok(type_, <<>>)
Name(n) == Tok("id", n)
Enclosed(open, s, close) == <<T(open)>> \o s \o <<T(close)>>

Operators == DOMAIN prec \ {"question", "pow"}
Literal == [s |-> <<Tok("int_lit", <<"5">>)>>, t |-> <<"int", <<"5">>, "int">>]
Variable == <<"a">>
Fields == {<<"a">>, <<"length">>}

TreeOf(links) == IF Len(links) = 1 THEN links[1] ELSE <<"chain", links[1], LastTerm(Last(links))>>
Term(s, links, end, base) == [s |-> s, links |-> links, t |-> TreeOf(links), end |-> end, base |-> base]
AddTo(x, s, link, end, base) == Term(x.s \o s, Append(x.links, link), end, base)
ChangeIn(x, s, link, end, base) == Term(x.s \o s, Append(Front(x.links), link), end, base)

\* A field behind a term: of its last link, or of the field before it, which is a name then
WithField(x, f) ==
  LET s == <<T("connector"), Name(f)>>
      last == Last(x.links)
  IN CASE x.end = "access" -> AddTo(x, s, <<"acces", <<"name", x.base>>, f>>, "access", f)
       [] x.end # "access" /\ last[1] = "index" /\ f = <<"length">> ->
            Term(x.s \o s, Front(x.links) \o << <<"length", last>>, <<"name", f>> >>, "name", f)
       [] OTHER -> ChangeIn(x, s, Accessed(last, f), "access", f)

\* Arguments or indices behind a name, which a field is as well
WithTail(x, tail) ==
  LET link == <<tail.kind, x.base, tail.t>> IN
  IF x.end = "name" THEN ChangeIn(x, tail.s, link, "closed", <<>>) ELSE AddTo(x, tail.s, link, "closed", <<>>)

MayFollow(x, y) ==   \* y is a link of its own behind x
  x.end = "closed" \/ (x.end \in {"name", "access"} /\ y.s[1].type # "openParenth")

Splits(n) == {k \in (1 .. n) \X (1 .. n) : k[1] + k[2] = n}
Closed(S) == {x \in S : x.end # "open"}
Not(V, S) == {[s |-> <<T("not")>> \o x.s, t |-> <<"not", x.t>>, end |-> x.end] : x \in {y \in S : "not" \in V}}

\* The phrases of n pieces over the tokens in V; P[k] are those of k pieces, k < n.  `a`, `5`, an operator, `!`, a field,
\* `[5]`, a comma, a parenthesis and `? a :` are a piece each.
\* Arguments have commas between them and may have one more, and a `!`, behind.
ListsOf(V, n, P) ==
  (IF n = 0 THEN {[s |-> <<>>, t |-> <<>>]} ELSE {})
  \cup UNION {{[s |-> x.s \o y.s \o <<T("comma")>>, t |-> Append(x.t, y.t)] : x \in P[k].lists, y \in P[n - 1 - k].exprs}
                 : k \in {m \in 0 .. n - 1 : "comma" \in V}}
ArgsOf(V, n, P) ==
  LET whole(m) == P[m].lists \cup UNION {{[s |-> x.s \o y.s, t |-> Append(x.t, y.t)] :
                                            x \in P[k].lists, y \in P[m - k].exprs} : k \in 0 .. m}
  IN whole(n) \cup {[s |-> Append(x.s, T("not")), t |-> x.t] : x \in {y \in whole(n - 1) : "not" \in V}}

TailsOf(V, n, P) ==
  LET elements == [kind |-> "index", s |-> FlattenSeq([k \in 1 .. n |-> Enclosed("openBracket", Literal.s, "closeBracket")]),
                   t |-> [k \in 1 .. n |-> Literal.t]]
  IN (IF n > 0 /\ "openBracket" \in V THEN {elements} ELSE {})
     \cup {[kind |-> "call", s |-> Enclosed("openParenth", x.s, "closeParenth"), t |-> x.t] : x \in ArgsOf(V, n - 2, P)}

\* Parentheses are a cast if a name is all they hold or the last thing in them.
IsCast(x) == LastTerm(x.t)[1] = "name"
PrimariesOf(V, n, P) ==
  (IF n = 1 THEN {Term(<<Name(Variable)>>, << <<"name", Variable>> >>, "name", Variable)} ELSE {})
  \cup (IF n = 1 /\ "int_lit" \in V THEN {Term(Literal.s, <<Literal.t>>, "closed", <<>>)} ELSE {})
  \cup {Term(Enclosed("openParenth", x.s, "closeParenth"), << <<"paren", x.t>> >>, "closed", <<>>) :
           x \in {y \in P[n - 2].exprs : ~ IsCast(y)}}
  \cup UNION {{Term(Enclosed("openParenth", x.s, "closeParenth") \o y.s, << <<"cast", LastTerm(x.t)[2], y.t>> >>, "open", <<>>) :
                  x \in {z \in P[k[1]].exprs : IsCast(z)}, y \in P[k[2]].exprs} : k \in Splits(n - 2)}

TermsOf(V, n, primaries, P) ==
  primaries
  \cup (IF n = 1 /\ "connector" \in V THEN {Term(<<T("connector"), Name(f)>>, << <<"acces", <<>>, f>> >>, "access", f) : f \in Fields} ELSE {})
  \cup {WithField(x, f) : x \in Closed(P[n - 1].terms), f \in {g \in Fields : "connector" \in V}}
  \cup UNION {{WithTail(x, y) : x \in {z \in P[k[1]].terms : z.end \in {"name", "access"}}, y \in P[k[2]].tails}
                 : k \in Splits(n)}
  \cup UNION {{AddTo(x[1], x[2].s, x[2].t, x[2].end, x[2].base) :
                  x \in {z \in P[k[1]].terms \X P[k[2]].primaries : MayFollow(z[1], z[2])}} : k \in Splits(n)}

\* Level p has the operators that bind at least as tightly as p; `!` negates all of its level.
LevelOf(V, n, p, tighter, P) ==
  tighter
  \cup UNION {{[s |-> x.s \o <<T(op)>> \o y.s, t |-> <<op, x.t, y.t>>, end |-> y.end] :
                  x \in Closed(P[k[1]].left[p]), y \in P[k[2]].right[p + 1]}
                 : k \in Splits(n - 1), op \in {o \in Operators \cap V : prec[o] = p}}
ConditionalsOf(V, n, P) ==
  UNION {{[s |-> x.s \o <<T("question"), Name(Variable), T("next")>> \o y.s,
           t |-> <<"inlineIf", x.t, <<"name", Variable>>, y.t>>, end |-> y.end] :
            x \in {z \in Closed(P[k[1]].left[0]) : "question" \in V}, y \in P[k[2]].right[1]} : k \in Splits(n - 1)}

\* The table of what has 0 to `most` pieces, row by row
Rows(Row(_, _), none, most) ==
  LET Table[n \in Nat] ==
        IF n = 0 THEN <<>>
        ELSE LET t == Table[n - 1] IN
             Append(t, Row(n - 1, [k \in -3 .. n - 2 |-> IF k < 0 THEN none ELSE t[k + 1]]))
  IN Table[most + 1]

PhraseRow(V, n, P) ==
  LET primaries == PrimariesOf(V, n, P)
      terms == TermsOf(V, n, primaries, P)
      l4 == {[s |-> x.s, t |-> x.t, end |-> x.end] : x \in terms}
      l3 == {x : x \in LevelOf(V, n, 3, l4, P)}
      l2 == {x : x \in LevelOf(V, n, 2, l3, P)}
      l1 == {x : x \in LevelOf(V, n, 1, l2, P)}
      l0 == {x : x \in l1 \cup ConditionalsOf(V, n, P)}
      left == (0 :> l0) @@ (1 :> l1) @@ (2 :> l2) @@ (3 :> l3) @@ (4 :> l4)
      right(p) == {x : x \in left[p] \cup Not(V, P[n - 1].left[p])}
  IN [lists |-> ListsOf(V, n, P), tails |-> TailsOf(V, n, P), primaries |-> primaries, terms |-> terms,
      left |-> left, exprs |-> right(0),
      right |-> (0 :> right(0)) @@ (1 :> right(1)) @@ (2 :> right(2)) @@ (3 :> right(3)) @@ (4 :> right(4))]
NoPhrases ==
  [lists |-> {}, tails |-> {}, primaries |-> {}, terms |-> {}, exprs |-> {},
   left |-> [p \in 0 .. 4 |-> {}], right |-> [p \in 0 .. 4 |-> {}]]

-----------------------------------------------------------------------------
(***************************************************************************)
(* Statements.  "open" is an `if` an `else` behind it would belong to.     *)
(* A head, such as `if ( a )`, a brace, a keyword and a simple statement,  *)
(* such as `a ++ ;`, are a piece each.                                     *)
(***************************************************************************)
A == <<"name", Variable>>
InParens(s) == Enclosed("openParenth", s, "closeParenth")
IntVar(tokens) == <<T("int"), Name(Variable)>> \o tokens
Five == Literal.s
IntLet == <<"let", "int", Variable, <<"int", <<"0">>, "int">>>>
Step == [s |-> <<Name(Variable), T("inc"), T("semi")>>, t |-> <<"assign", "inc", A>>]
Conditions ==
  {[s |-> <<Name(Variable)>>, t |-> << <<A>>, <<>> >>],
   [s |-> <<Name(Variable), T("and"), Name(Variable)>>, t |-> << <<A, A>>, <<"and">> >>],
   [s |-> <<Name(Variable), T("or")>>, t |-> << <<A>>, <<"or">> >>],
   \* nothing joins two conditions of which the second is negated
   [s |-> <<Name(Variable), T("not"), Name(Variable)>>, t |-> << <<A, <<"not", A>>>>, <<>> >>]}
Catch == <<T("catch")>> \o InParens(<<Name(<<"C">>), Name(Variable)>>)

\* One of each other statement.  A name before a literal is lost, and the last digit of a
\* hexadecimal literal is taken for its type.
Hex == <<"0", "x", "F">>
Class == Name(<<"C">>)
Empties == <<T("openBracket"), T("closeBracket"), Name(Variable), T("semi")>>
ObjectVar(n, names) == [s |-> names \o <<Name(Variable), T("semi")>>, t |-> <<"let", n, Variable, <<"null">>>>]
ClassVar == ObjectVar(<<"C">>, <<Class>>)
StructVar == ObjectVar(<<"S">>, <<Name(<<"S">>)>>)
EnumVar == ObjectVar(<<"E">>, <<Name(<<"E">>), Name(Variable)>>)
PublicEnumVar == ObjectVar(<<"E">>, <<T("public"), Class, Name(<<"E">>)>>)
ClassArray == [s |-> <<Class>> \o Empties, t |-> <<"letArray", <<"C">>, 1, Variable, <<>>>>]
AnyArray == [s |-> <<T("public"), Name(Variable), T("openBracket")>> \o Empties, t |-> <<"letArray", "openBracket", 1, Variable, <<>>>>]
Simple ==
  {Step,
   [s |-> IntVar(<<T("semi")>>), t |-> IntLet],
   [s |-> <<T("public")>> \o IntVar(<<T("eq")>> \o Five \o <<T("semi")>>), t |-> <<"let", "int", Variable, Literal.t>>],
   [s |-> <<T("int"), T("openBracket"), T("closeBracket"), Name(Variable), T("eq"), T("new"), T("int")>>
            \o Enclosed("openBracket", Five, "closeBracket") \o <<T("semi")>>,
    t |-> <<"letArray", "int", 1, Variable, <<"newArray", "int", <<Literal.t>>>>>>],
   [s |-> <<Class, Name(Variable), T("eq"), T("new"), Class>> \o InParens(Five) \o <<T("semi")>>,
    t |-> <<"let", <<"C">>, Variable, <<"new", <<"C">>, <<Literal.t>>>>>>],
   ClassVar, StructVar, EnumVar, PublicEnumVar, ClassArray, AnyArray,
   [s |-> <<Class, T("public"), Name(Variable), T("semi")>>, t |-> ClassVar.t],
   [s |-> <<Name(<<"E">>)>> \o IntVar(<<T("semi")>>), t |-> IntLet],
   [s |-> <<Name(Variable)>> \o InParens(Five) \o <<T("semi")>>, t |-> <<"do", <<"call", Variable, <<Literal.t>>>>>>],
   [s |-> <<Name(Variable)>> \o Enclosed("openBracket", Five, "closeBracket") \o <<T("plus_eq")>> \o Five \o <<T("semi")>>,
    t |-> <<"assignElement", <<"assign", "plus_eq", <<"index", Variable, <<Literal.t>>>>, Literal.t>>>>],
   [s |-> <<Name(Variable), T("connector"), Name(Variable), T("eq"), T("null"), T("semi")>>,
    t |-> <<"assign", "eq", <<"acces", A, Variable>>, <<"null">>>>],
   [s |-> <<Name(Variable)>> \o Five \o <<T("inc"), T("semi")>>, t |-> <<"assign", "inc", Literal.t>>],
   [s |-> IntVar(<<T("eq"), Tok("int_lit", Hex), T("semi")>>), t |-> <<"let", "int", Variable, <<"int", Hex, "float">>>>],
   [s |-> <<T("throw"), Name(Variable), T("instanceOf"), Class, T("semi")>>, t |-> <<"throw", <<"instanceOf", A, <<"C">>>>>>],
   [s |-> <<T("switch")>> \o InParens(<<Name(Variable)>>) \o Enclosed("openCurl", <<T("case")>> \o Five \o <<T("next")>>, "closeCurl"),
    t |-> <<"switch", A, <<"scope", << <<"case", Literal.t>> >>>>>>],
   [s |-> <<T("default"), T("next")>>, t |-> <<"default">>],
   [s |-> <<T("break"), T("semi")>>, t |-> <<"break">>],
   [s |-> <<T("return"), T("str"), T("semi")>>, t |-> <<"return", <<"str">>>>]}

\* V: the simple statements, the conditions and whether there are loops with `for`
Few == [simple |-> {Step}, conditions |-> {c \in Conditions : Len(c.s) = 1}, counted |-> FALSE]
Many == [simple |-> Simple, conditions |-> Conditions, counted |-> TRUE]
ForHead(c) == <<T("for"), T("openParenth")>> \o IntVar(<<T("semi")>>) \o c.s \o <<T("semi"), Name(Variable), T("inc"), T("closeParenth")>>

\* Of the declarations these may have an access modifier.
MayBePublic(x) == x.s[1].type \in Primitive \/ x = ClassArray

StatementsOf(V, n, P) ==
  LET scopes == {[s |-> Enclosed("openCurl", x.s, "closeCurl"), t |-> <<"scope", x.t>>, open |-> FALSE] : x \in P[n - 2].bodies}
      simple == {[s |-> x.s, t |-> x.t, open |-> FALSE] : x \in {y \in V.simple : n = 1}}
                \cup {[s |-> <<T("public")>> \o x.s, t |-> x.t, open |-> FALSE] : x \in {y \in V.simple : n = 2 /\ MayBePublic(y)}}
      ifs == {[s |-> <<T("if")>> \o InParens(c.s) \o x.s, t |-> <<"if", c.t, x.t>>, open |-> TRUE] :
                c \in V.conditions, x \in P[n - 1].stmts}
      elses == UNION {{[s |-> <<T("if")>> \o InParens(c.s) \o x.s \o <<T("else")>> \o y.s,
                        t |-> <<"if", c.t, x.t, y.t>>, open |-> y.open] :
                         c \in V.conditions, x \in {z \in P[k[1]].stmts : ~ z.open}, y \in P[k[2]].stmts} : k \in Splits(n - 2)}
      whiles == {[s |-> <<T("while")>> \o InParens(c.s) \o x.s, t |-> <<"while", c.t, x.t>>, open |-> x.open] :
                   c \in V.conditions, x \in P[n - 1].stmts}
      fors == {[s |-> ForHead(c) \o x.s, t |-> <<"for", IntLet, c.t, Step.t, x.t>>, open |-> x.open] :
                 c \in {d \in V.conditions : V.counted}, x \in P[n - 1].stmts}
      none == {[s |-> <<>>, t |-> <<>>]}
      catches == UNION {{[s |-> x.s \o Catch \o y.s, t |-> Append(x.t, <<<<"C">>, y.t>>)] :
                           x \in IF k = n - 1 THEN none ELSE P[n - 1 - k].catches, y \in P[k].scopes} : k \in 1 .. n - 1}
      tries == UNION {{[s |-> <<T("try")>> \o x.s \o y.s, t |-> <<"try", x.t, y.t>>, open |-> FALSE] :
                         x \in P[k[1]].scopes, y \in P[k[2]].catches} : k \in Splits(n - 1)}
  IN [scopes |-> scopes, catches |-> catches,
      plain |-> {x : x \in simple \cup scopes \cup ifs \cup elses \cup whiles \cup fors \cup tries}]

\* `final` may stand before any statement; where none follows in a block, an access modifier may as well.
Final(S) == {[x EXCEPT !.s = <<T("final")>> \o @] : x \in S}
StatementRow(V, n, P) ==
  LET own == StatementsOf(V, n, P)
      stmts == {x : x \in own.plain \cup Final(P[n - 1].plain)}
      blocks == (IF n = 0 THEN {[s |-> <<>>, t |-> <<>>]} ELSE {[s |-> x.s, t |-> <<x.t>>] : x \in stmts})
                \cup UNION {{[s |-> x.s \o y.s, t |-> Append(x.t, y.t)] : x \in P[k[1]].blocks, y \in P[k[2]].stmts} : k \in Splits(n)}
  IN [scopes |-> own.scopes, catches |-> own.catches, plain |-> own.plain, stmts |-> stmts, blocks |-> {x : x \in blocks},
      bodies |-> {x : x \in blocks \cup {[s |-> Append(x.s, T(m)), t |-> x.t] : m \in {"final", "public"}, x \in P[n - 1].blocks}}]
NoStatements == [scopes |-> {}, catches |-> {}, plain |-> {}, stmts |-> {}, blocks |-> {}, bodies |-> {}]

-----------------------------------------------------------------------------
\* A function `f` of the statements s, and the file of it alone
HeadTokens(params) == <<T("int"), Name(<<"f">>)>> \o InParens(params)
FunctionTokens(s) == HeadTokens(<<>>) \o Enclosed("openCurl", s, "closeCurl")
FunctionOf(mods, params, stmts) == <<"func", <<"f">>, mods, params, <<"scope", stmts>>>>
BodyOf(s, stmts) == [tokens |-> FunctionTokens(s), file |-> [Empty EXCEPT !.funcs = <<FunctionOf({"static"}, <<>>, stmts)>>]]

ReturnOf(s, t) == BodyOf(<<T("return")>> \o s \o <<T("semi")>>, <<<<"return", t>>>>)
BodySentences ==
  LET phrases(V) == Rows(LAMBDA n, P : PhraseRow(V, n, P), NoPhrases, Longest)
      statements(V, most) == Rows(LAMBDA n, P : StatementRow(V, n, P), NoStatements, most)
      bodies(rows) == UNION {rows[n].bodies : n \in DOMAIN rows}
  IN UNION {UNION {{ReturnOf(x.s, x.t) : x \in phrases(V)[n].exprs} : n \in DOMAIN phrases(V)} : V \in Vocabularies}
     \cup {ReturnOf(s, <<>>) : s \in {<<>>, <<T("not")>>}}
     \cup {BodyOf(x.s, x.t) : x \in bodies(statements(Few, Longest)) \cup bodies(statements(Many, 2))}
BodyTokens == {x.tokens : x \in BodySentences}

\* A file that is one function with something in it
IsBody == Len(m_tokens) > 6 /\ SubSeq(m_tokens, 1, 5) = SubSeq(FunctionTokens(<<>>), 1, 5) /\ m_tokens[6] # T("closeCurl")

\* An access modifier before two names of which the second is no enum's: what parseEnum makes of them
\* is undefined.
PublicOfType(i) ==
  /\ type(i) \in Access /\ type(i + 1) = "id" /\ type(i + 2) = "id" /\ type(i + 3) # "end"
  /\ ~ (IsType(value(i + 2)) /\ Types[value(i + 2)] = "enum")

\* A statement may begin at i: one there, and braces behind it, would make a sentence.
StatementMayBegin(i) ==
  \E k \in 1 .. Longest : SubSeq(m_tokens, 1, i - 1) \o Step.s \o [j \in 1 .. k |-> T("closeCurl")] \in BodyTokens
RunsOffInBody == \E i \in DOMAIN m_tokens : PublicOfType(i) /\ StatementMayBegin(i)

\* The body of a function is what the grammar makes of its tokens: operators bind and associate by
\* precedence, a chain of accesses is its first and its last link, an `else` belongs to the nearest
\* `if`; what is no sentence is refused, or has no defined result, which is so exactly where a
\* variable of a type that is no enum is declared with an access modifier (parseExpr, parseTerm,
\* parseStmt, parseScope, parseLet, parseEnum).
ParsedByRule ==
  IsBody =>
    /\ pc = "done" => [tokens |-> m_tokens, file |-> file] \in BodySentences
    /\ pc = "refused" => m_tokens \notin BodyTokens
    /\ pc \in Ended => (pc = "undefined" <=> RunsOffInBody)

-----------------------------------------------------------------------------
(***************************************************************************)
(* Declarations, of a file or of one class, namespace or interface.  A     *)
(* modifier, a function `f`, a variable `a`, a constructor, a type and `;` *)
(* are a piece each.                                                       *)
(***************************************************************************)
Kinds == {"file", "class", "namespace", "interface"}

\* Modifiers stand in one order; some exclude each other.
InOrder(order, S) == [k \in 1 .. Cardinality(S) |-> T(SelectSeq(order, LAMBDA m : m \in S)[k])]
Excluded == {{"static", "final"}, {"static", "abstract"}, {"abstract", "final"}}
Allowed == {S \in SUBSET {"public", "final", "static", "abstract"} : \A X \in Excluded : ~ X \subseteq S}
FuncOrder == <<"public", "final", "static", "abstract">>
VarOrder == <<"final", "static", "public">>

\* The fields of a class, with the sets of modifiers that each may have; with `public` the type of a
\* variable has to be primitive, of an array or behind another name.
FieldModifiers == SUBSET {"final", "static", "public"}
FieldKinds ==
  ({[s |-> IntVar(<<T("semi")>>), t |-> IntLet], ClassArray} \X {FieldModifiers})
  \cup ({ClassVar, EnumVar} \X {{m \in FieldModifiers : "public" \notin m}})
  \cup {<<[PublicEnumVar EXCEPT !.s = Tail(@)], {m \in FieldModifiers : "public" \in m}>>}

\* Up to two parameters; one more comma may stand behind them.
Parameters == {[s |-> T(t), t |-> <<t>>] : t \in {"ubyte", "double"}} \cup {[s |-> Class, t |-> <<"C">>]}
Signatures ==
  {[s |-> FlattenSeq([k \in DOMAIN x[1] |-> <<x[1][k].s, Name(Variable)>> \o (IF k < Len(x[1]) THEN <<T("comma")>> ELSE x[2])]),
    t |-> [k \in DOMAIN x[1] |-> x[1][k].t]] : x \in SeqOf(Parameters, 2) \X {<<>>, <<T("comma")>>}}

\* Functions of a file are static, those of an interface abstract; what is abstract has no body.
FunctionsIn(kind, S, params) ==
  LET mods == (S \ {"public"}) \cup (CASE kind = "file" -> {"static"} [] kind = "interface" -> {"abstract"} [] OTHER -> {})
      abstract == "abstract" \in mods
  IN [s |-> InOrder(FuncOrder, S) \o HeadTokens(params.s) \o (IF abstract THEN <<T("semi")>> ELSE Enclosed("openCurl", <<>>, "closeCurl")),
      adds |-> [Empty EXCEPT !.funcs = <<IF abstract THEN <<"func", <<"f">>, mods, params.t>> ELSE FunctionOf(mods, params.t, <<>>)>>,
                             !.contained = IF kind = "file" THEN <<>> ELSE << <<"f">> >>]]

\* The types declared inside, with the tokens of one that is as good as empty
Nested ==
  {<<"class", <<"C">>, Empty>>, <<"namespace", <<"M">>, Empty>>, <<"interface", <<"I">>, Empty>>,
   <<"enum", <<"E">>, << <<"V">> >>>>, <<"struct", <<"S">>, <<>>>>}
NestedTokens(t) ==
  <<T(t[1]), Name(t[2])>> \o Enclosed("openCurl", IF t[1] = "enum" THEN <<Name(<<"V">>)>> ELSE <<>>, "closeCurl")

Listed(t) == IF t[1] \in {"enum", "interface"} THEN <<t[2]>> ELSE <<t[2], t[2]>>

\* Modifiers of a type are lost.  What a container lists has a nameless function before a type if
\* functions may stand there without being looked for, and most types twice.
TypesIn(kind, t, before) ==
  [s |-> before \o NestedTokens(t),
   adds |-> [Empty EXCEPT !.types = <<t>>,
                          !.contained = CASE kind = "file" -> <<>>
                                          [] kind = "class" -> Listed(t)
                                          [] OTHER -> << <<>> >> \o Listed(t)]]

\* V: the parameters functions may have
ItemsOf(V, kind, n) ==
  LET S == {m \in Allowed : Cardinality(m) = n - 1}
      free == {m \in FieldModifiers : Cardinality(m) = n - 1}
      constructor == [Empty EXCEPT !.constructors = << <<"func", <<"N">>, {"final"}, <<>>, <<"scope", <<>>>>>> >>]
  IN {FunctionsIn(kind, m, params) : m \in S, params \in V}
     \cup (IF kind = "class"
             THEN UNION {{[s |-> InOrder(VarOrder, m) \o f[1].s, adds |-> [Empty EXCEPT !.vars = <<f[1].t>>]] : m \in free \cap f[2]} :
                           f \in FieldKinds}
                  \cup {TypesIn(kind, t, InOrder(VarOrder, m)) : t \in Nested, m \in free}
                  \cup (IF n = 1 THEN {[s |-> <<Name(<<"N">>)>> \o SubSeq(FunctionTokens(<<>>), 3, 6), adds |-> constructor]} ELSE {})
             ELSE {TypesIn(kind, t, InOrder(FuncOrder, m)) : t \in Nested, m \in S})
     \cup (IF kind = "file" /\ n = 1 THEN {[s |-> <<T("semi")>>, adds |-> Empty]} ELSE {})

\* Of functions with the same parameters a file keeps the last.
Plus(kind, m, x) ==
  LET kept == IF kind = "file" /\ x.funcs # <<>> THEN SelectSeq(m.funcs, LAMBDA f : f[4] # x.funcs[1][4]) ELSE m.funcs
  IN [f \in DOMAIN m |-> (IF f = "funcs" THEN kept ELSE m[f]) \o x[f]]
ContentRow(V, kind, n, P) ==
  {x : x \in (IF n = 0 THEN {[s |-> <<>>, m |-> Empty]} ELSE {})
               \cup UNION {{[s |-> x.s \o y.s, m |-> Plus(kind, x.m, y.adds)] : y \in ItemsOf(V, kind, k), x \in P[n - k]} : k \in 1 .. n}}
Contents ==
  LET rows(V, kind, most) == UNION ToSet(Rows(LAMBDA n, P : ContentRow(V, kind, n, P), {}, most))
  IN [kind \in Kinds |-> rows({p \in Signatures : p.t = <<>>}, kind, LongestFile) \cup rows(Signatures, kind, 2)]
NameOf == [class |-> <<"N">>, namespace |-> <<"M">>, interface |-> <<"I">>]
Heading(kind) == IF kind = "file" THEN <<>> ELSE <<T(kind), Name(NameOf[kind]), T("openCurl")>>
FileSentences ==
  {[tokens |-> x.s, file |-> [x.m EXCEPT !.contained = <<>>]] : x \in Contents["file"]}
  \cup UNION {{[tokens |-> Heading(kind) \o Append(x.s, T("closeCurl")),
                 file |-> [Empty EXCEPT !.types = << <<kind, NameOf[kind], x.m>> >>]] : x \in Contents[kind]} : kind \in Kinds \ {"file"}}
FileTokens == {x.tokens : x \in FileSentences}

\* Where a type is looked for behind modifiers of which `abstract` is not the next, and a variable
\* behind those that come before its access
Behind(kind, order, Sets) == {Heading(kind) \o x.s \o InOrder(order, m) : x \in Contents[kind], m \in Sets}
BeforeType ==
  Behind("class", VarOrder, FieldModifiers)
  \cup UNION {Behind(kind, FuncOrder, {m \in Allowed : "abstract" \in m}) : kind \in Kinds \ {"class"}}
BeforeAccess == Behind("class", VarOrder, {m \in FieldModifiers : "public" \notin m})

\* Where `abstract` stands before the name of a constructor or a variable parseType ends without a
\* result, as parseEnum does for a public variable of a class.
RunsOffInFile ==
  \E i \in DOMAIN m_tokens :
    LET before == SubSeq(m_tokens, 1, i - 1) IN
    /\ type(i + 2) = "id" => type(i + 3) # "openParenth"
    /\ \/ before \in BeforeType /\ type(i) = "abstract" /\ type(i + 1) = "id"
       \/ before \in BeforeAccess /\ PublicOfType(i)

\* A file has the functions and types its declarations name, a type its members, and what a type or
\* a namespace lists is its functions and the types inside, with the doubles and the nameless
\* entries described above; what declares nothing is refused, or has no defined result, which is so
\* exactly where a field of a class is of a class, a struct or an enum and has an access modifier, or
\* where `abstract` stands before a name and no method follows (parseProg, parseType, parseFunc,
\* parseEnum, isprocedingFund).
DeclaredByRule ==
  text = <<>> /\ ~ IsBody =>
    /\ pc = "done" => [tokens |-> m_tokens, file |-> file] \in FileSentences
    /\ pc = "refused" => m_tokens \notin FileTokens
    /\ pc \in Ended => (pc = "undefined" <=> RunsOffInFile)

\* Whatever the text, its reading ends (tokenize).
Terminates == <>(pc # "read")
=============================================================================
