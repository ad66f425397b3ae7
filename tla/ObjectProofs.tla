---------------------------- MODULE ObjectProofs ----------------------------
(***************************************************************************)
(* What is proved of ObjectModel, for every program: any classes, methods  *)
(* and fields.                                                             *)
(*                                                                         *)
(* The definitions are recursive: over superclasses, over the methods of a *)
(* class and over the elements of its layout.  Recursion says once that    *)
(* such a definition has a value; NatMin, that a set of numbers has a      *)
(* least one, is what induction is done with.                              *)
(***************************************************************************)
EXTENDS ObjectRules, FiniteSetTheorems, NaturalsInduction, TLAPS

LEMMA NatMin ==
  ASSUME NEW T \in SUBSET Nat, T # {}
  PROVE  \E x \in T : \A y \in T : ~ (y < x)
<1>1. IsWellFoundedOn(OpToRel(<, Nat), Nat)
  BY NatLessThanWellFounded
<1>2. \E x \in T : \A y \in T : ~ (<<y, x>> \in OpToRel(<, Nat))
  BY <1>1, WFMin
<1>3. QED
  BY <1>2 DEF OpToRel

(***************************************************************************)
(* A function is defined by a step that looks at places of lower rank only.*)
(***************************************************************************)
Local(S, V, rank, step) ==
  /\ \A f \in [S -> V], x \in S : step[<<x, f>>] \in V
  /\ \A f, g \in [S -> V], x \in S :
       (\A y \in S : rank[y] < rank[x] => f[y] = g[y]) => step[<<x, f>>] = step[<<x, g>>]

Solves(f, S, V, step) == f \in [S -> V] /\ \A x \in S : f[x] = step[<<x, f>>]
UpTo(n, f, S, rank, step) == \A x \in S : rank[x] < n => f[x] = step[<<x, f>>]

LEMMA RecursionUpTo ==
  ASSUME NEW S, NEW V, NEW base \in V, NEW rank \in [S -> Nat], NEW step,
         Local(S, V, rank, step), NEW n \in Nat
  PROVE  \E f \in [S -> V] : UpTo(n, f, S, rank, step)
<1> DEFINE T == {m \in Nat : ~ \E f \in [S -> V] : UpTo(m, f, S, rank, step)}
<1> SUFFICES ASSUME T # {} PROVE FALSE
  OBVIOUS
<1>1. PICK m \in T : \A y \in T : ~ (y < m)
  <2>1. T \in SUBSET Nat
    OBVIOUS
  <2> HIDE DEF T
  <2> QED BY <2>1, NatMin
<1>2. CASE m = 0
  <2>1. [x \in S |-> base] \in [S -> V]
    OBVIOUS
  <2>2. UpTo(0, [x \in S |-> base], S, rank, step)
    BY DEF UpTo
  <2> QED BY <1>1, <1>2, <2>1, <2>2
<1>3. CASE m # 0
  <2>1. m - 1 \in Nat /\ m - 1 < m /\ m - 1 \notin T
    BY <1>1, <1>3
  <2>2. PICK f \in [S -> V] : UpTo(m - 1, f, S, rank, step)
    BY <2>1
  <2> DEFINE g == [x \in S |-> IF rank[x] < m - 1 THEN f[x] ELSE step[<<x, f>>]]
  <2>3. g \in [S -> V]
    BY DEF Local
  <2>4. ASSUME NEW x \in S, rank[x] < m PROVE g[x] = step[<<x, g>>]
    <3>1. \A y \in S : rank[y] < rank[x] => f[y] = g[y]
      <4>1. \A y \in S : rank[y] \in Nat
        OBVIOUS
      <4> QED BY <4>1, <2>4, <1>1
    <3>2. step[<<x, f>>] = step[<<x, g>>]
      <4> HIDE DEF g
      <4> QED BY <3>1, <2>3 DEF Local
    <3>3. g[x] = step[<<x, f>>]
      BY <2>2 DEF UpTo
    <3> QED BY <3>2, <3>3
  <2>5. UpTo(m, g, S, rank, step)
    <3> HIDE DEF g
    <3> QED BY <2>4 DEF UpTo
  <2> QED BY <1>1, <2>3, <2>5
<1> QED BY <1>2, <1>3

LEMMA RecursionAgrees ==
  ASSUME NEW S, NEW V, NEW rank \in [S -> Nat], NEW step, Local(S, V, rank, step),
         NEW n \in Nat, NEW f \in [S -> V], UpTo(n, f, S, rank, step),
         NEW m \in Nat, NEW g \in [S -> V], UpTo(m, g, S, rank, step)
  PROVE  \A x \in S : rank[x] < n /\ rank[x] < m => f[x] = g[x]
<1> DEFINE T == {r \in Nat : \E x \in S : rank[x] = r /\ r < n /\ r < m /\ f[x] # g[x]}
<1> SUFFICES ASSUME T # {} PROVE FALSE
  OBVIOUS
<1>1. PICK r \in T : \A y \in T : ~ (y < r)
  <2>1. T \in SUBSET Nat
    OBVIOUS
  <2> HIDE DEF T
  <2> QED BY <2>1, NatMin
<1>2. PICK x \in S : rank[x] = r /\ r < n /\ r < m /\ f[x] # g[x]
  BY <1>1
<1>3. \A y \in S : rank[y] < rank[x] => f[y] = g[y]
  <2> SUFFICES ASSUME NEW y \in S, rank[y] < rank[x], f[y] # g[y] PROVE FALSE
    OBVIOUS
  <2>1. rank[y] \in Nat /\ rank[x] \in Nat
    OBVIOUS
  <2>2. rank[y] \in T
    BY <1>2, <2>1
  <2> QED BY <1>1, <1>2, <2>2
<1>4. step[<<x, f>>] = step[<<x, g>>]
  BY <1>3 DEF Local
<1> QED BY <1>2, <1>4 DEF UpTo

LEMMA Recursion ==
  ASSUME NEW S, NEW V, NEW base \in V, NEW rank \in [S -> Nat], NEW step,
         Local(S, V, rank, step)
  PROVE  \E f : Solves(f, S, V, step)
<1> DEFINE part(n) == CHOOSE f \in [S -> V] : UpTo(n, f, S, rank, step)
           f == [x \in S |-> part(rank[x] + 1)[x]]
<1>1. \A n \in Nat : part(n) \in [S -> V] /\ UpTo(n, part(n), S, rank, step)
  BY RecursionUpTo
<1> HIDE DEF part
<1>2. f \in [S -> V]
  <2>1. \A x \in S : rank[x] + 1 \in Nat
    OBVIOUS
  <2> QED BY <1>1, <2>1
<1>3. ASSUME NEW x \in S PROVE f[x] = step[<<x, f>>]
  <2> DEFINE p == part(rank[x] + 1)
  <2>1. rank[x] + 1 \in Nat /\ rank[x] \in Nat /\ p \in [S -> V] /\ UpTo(rank[x] + 1, p, S, rank, step)
    BY <1>1
  <2>2. ASSUME NEW y \in S, rank[y] < rank[x] PROVE f[y] = p[y]
    <3> DEFINE q == part(rank[y] + 1)
    <3>1. rank[y] + 1 \in Nat /\ rank[y] \in Nat /\ q \in [S -> V] /\ UpTo(rank[y] + 1, q, S, rank, step)
      BY <1>1
    <3>2. rank[y] < rank[y] + 1 /\ rank[y] < rank[x] + 1
      BY <2>1, <2>2, <3>1
    <3>3. f[y] = q[y]
      OBVIOUS
    <3> HIDE DEF p, q, f
    <3>4. q[y] = p[y]
      BY <2>1, <3>1, <3>2, RecursionAgrees
    <3> QED BY <3>3, <3>4
  <2>3. f[x] = p[x]
    OBVIOUS
  <2> HIDE DEF f, p
  <2>4. step[<<x, f>>] = step[<<x, p>>]
    BY <1>2, <2>1, <2>2 DEF Local
  <2>5. p[x] = step[<<x, p>>]
    BY <2>1 DEF UpTo
  <2> QED BY <2>3, <2>4, <2>5
<1> HIDE DEF f
<1> QED BY <1>2, <1>3 DEF Solves

-----------------------------------------------------------------------------
(* The program: who is below whom, and what is declared.                   *)
ProgramOK == program \in Programs
Or(S) == S \cup {NoClass}

LEMMA ProgramParts ==
  ASSUME ProgramOK
  PROVE  /\ program \in Program
         /\ \A c \in Class : extending(c) \in Or(Class) /\ implementing(c) \in Seq(Interface)
         /\ \A t \in Type : program.funcs[t] \in Seq(Func) /\ Told(program.funcs[t], t)
         /\ \A c \in Class : program.fields[c] \in Seq(Field) /\ c \in Type
         /\ \A i \in Interface : program.inherits[i] \in Seq(Interface) /\ i \in Type
BY ProgramsAssumption DEF ProgramOK, Program, extending, implementing, Or, Type

(* A depth below which the superclasses of a class lie.                    *)
Founds(depth) ==
  /\ depth \in [Or(Class) -> Nat]
  /\ \A c \in Class : depth[extending(c)] < depth[c]

LEMMA ClassesFounded ==
  ASSUME ProgramOK
  PROVE  \E depth : Founds(depth)
<1>1. PICK depth \in [Class -> 0 .. Cardinality(Class)] :
        \A c \in Class : program.extending[c] # NoClass => depth[program.extending[c]] < depth[c]
  BY ProgramParts DEF Program, Founded
<1> DEFINE d == [c \in Or(Class) |-> IF c = NoClass THEN 0 ELSE depth[c] + 1]
<1>2. d \in [Or(Class) -> Nat]
  BY DEF Or
<1>3. ASSUME NEW c \in Class PROVE d[extending(c)] < d[c]
  BY <1>1, ProgramParts, NamesAssumption DEF Or, extending
<1> QED BY <1>2, <1>3 DEF Founds

LEMMA InterfacesFounded ==
  ASSUME ProgramOK
  PROVE  \E depth \in [Interface -> Nat] :
           \A i \in Interface : \A k \in DOMAIN program.inherits[i] : depth[program.inherits[i][k]] < depth[i]
<1>1. PICK depth \in [Interface -> 0 .. Cardinality(Interface)] :
           \A i \in Interface : \A k \in DOMAIN program.inherits[i] : depth[program.inherits[i][k]] < depth[i]
  BY ProgramParts DEF Program, Founded
<1> QED BY <1>1

(* What holds without a class, and of a class if it does of its superclass,*)
(* holds of all classes.                                                   *)
LEMMA OfAllClasses ==
  ASSUME ProgramOK, NEW P, NoClass \in P, \A c \in Class : extending(c) \in P => c \in P
  PROVE  Or(Class) \subseteq P
<1>1. PICK depth : Founds(depth)
  BY ClassesFounded
<1> DEFINE T == {n \in Nat : \E c \in Or(Class) : depth[c] = n /\ c \notin P}
<1> SUFFICES ASSUME T # {} PROVE FALSE
  BY <1>1 DEF Founds
<1>2. PICK n \in T : \A y \in T : ~ (y < n)
  <2>1. T \in SUBSET Nat
    OBVIOUS
  <2> HIDE DEF T
  <2> QED BY <2>1, NatMin
<1>3. PICK c \in Or(Class) : depth[c] = n /\ c \notin P
  BY <1>2
<1>4. c \in Class
  BY <1>3 DEF Or
<1>5. depth[extending(c)] \in Nat /\ depth[extending(c)] < n /\ extending(c) \in Or(Class)
  BY <1>1, <1>3, <1>4, ProgramParts DEF Founds
<1>6. extending(c) \in P
  BY <1>2, <1>5
<1> QED BY <1>3, <1>4, <1>6

LEMMA SuperTypes ==
  ASSUME ProgramOK
  PROVE  /\ superTypes[NoClass] = {}
         /\ \A c \in Class : superTypes[c] = {c} \cup superTypes[extending(c)]
         /\ \A c \in Or(Class) : superTypes[c] \subseteq Class
<1>1. PICK depth : Founds(depth)
  BY ClassesFounded
<1> DEFINE S == Or(Class)
           V == SUBSET Class
           Step(c, f) == IF c = NoClass THEN {} ELSE {c} \cup f[extending(c)]
           step == [p \in S \X [S -> V] |-> Step(p[1], p[2])]
<1>2. \A f \in [S -> V], c \in S : step[<<c, f>>] = Step(c, f)
  OBVIOUS
<1>3. \A f \in [S -> V], c \in S : Step(c, f) \in V
  BY ProgramParts DEF Or
<1>4. ASSUME NEW f \in [S -> V], NEW g \in [S -> V], NEW c \in S,
             \A d \in S : depth[d] < depth[c] => f[d] = g[d]
      PROVE  Step(c, f) = Step(c, g)
  BY <1>1, <1>4, ProgramParts DEF Or, Founds
<1>5. Local(S, V, depth, step)
  <2> HIDE DEF S, V, Step, step
  <2> QED BY <1>2, <1>3, <1>4 DEF Local
<1>6. \E f : Solves(f, S, V, step)
  <2>1. depth \in [S -> Nat] /\ {} \in V
    BY <1>1 DEF Founds
  <2> HIDE DEF S, V, step
  <2> QED BY <1>5, <2>1, Recursion
<1>7. PICK f \in [S -> V] : f = [c \in S |-> Step(c, f)]
  <2>1. PICK f : Solves(f, S, V, step)
    BY <1>6
  <2>2. f \in [S -> V] /\ \A c \in S : f[c] = Step(c, f)
    <3> HIDE DEF S, V, Step, step
    <3> QED BY <1>2, <2>1 DEF Solves
  <2> HIDE DEF S, V, Step, step
  <2> QED BY <2>2
<1>8. superTypes = [c \in S |-> Step(c, superTypes)]
  BY <1>7 DEF superTypes, Or
<1>9. superTypes[NoClass] = {}
  BY <1>8 DEF Or
<1>10. \A c \in Class : superTypes[c] = {c} \cup superTypes[extending(c)]
  BY <1>8, NamesAssumption DEF Or
<1>11. \A c \in S : superTypes[c] \subseteq Class
  <2> DEFINE P == {c \in S : superTypes[c] \subseteq Class}
  <2>1. NoClass \in P
    BY <1>9 DEF Or
  <2>2. ASSUME NEW c \in Class, extending(c) \in P PROVE c \in P
    BY <1>10, <2>2 DEF Or
  <2>3. Or(Class) \subseteq P
    <3> HIDE DEF P
    <3> QED BY <2>1, <2>2, OfAllClasses
  <2> QED BY <2>3
<1> QED BY <1>9, <1>10, <1>11

LEMMA DeclaredEquation ==
  ASSUME ProgramOK
  PROVE  /\ declared[NoClass] = <<>>
         /\ \A c \in Class : declared[c] = declared[extending(c)] \o program.funcs[c]
         /\ \A c \in Or(Class) : declared[c] \in Seq(Func)
<1>1. PICK depth : Founds(depth)
  BY ClassesFounded
<1> DEFINE S == Or(Class)
           V == Seq(Func)
           Step(c, f) == IF c = NoClass THEN <<>> ELSE f[extending(c)] \o program.funcs[c]
           step == [p \in S \X [S -> V] |-> Step(p[1], p[2])]
<1>2. \A f \in [S -> V], c \in S : step[<<c, f>>] = Step(c, f)
  OBVIOUS
<1>3. ASSUME NEW f \in [S -> V], NEW c \in S PROVE Step(c, f) \in V
  <2>1. CASE c = NoClass
    BY <2>1
  <2>2. CASE c # NoClass
    <3>1. f[extending(c)] \in Seq(Func) /\ program.funcs[c] \in Seq(Func)
      BY <2>2, ProgramParts DEF Or
    <3> QED BY <2>2, <3>1
  <2> QED BY <2>1, <2>2
<1>4. ASSUME NEW f \in [S -> V], NEW g \in [S -> V], NEW c \in S,
             \A d \in S : depth[d] < depth[c] => f[d] = g[d]
      PROVE  Step(c, f) = Step(c, g)
  BY <1>1, <1>4, ProgramParts DEF Or, Founds
<1>5. Local(S, V, depth, step)
  <2> HIDE DEF S, V, Step, step
  <2> QED BY <1>2, <1>3, <1>4 DEF Local
<1>6. \E f : Solves(f, S, V, step)
  <2>1. depth \in [S -> Nat]
    BY <1>1 DEF Founds
  <2>2. PICK base : base \in V
    <3>1. <<>> \in Seq(Func)
      OBVIOUS
    <3> QED BY <3>1
  <2> HIDE DEF S, V, Step, step
  <2> QED BY <1>5, <2>1, <2>2, Recursion
<1>7. PICK f \in [S -> V] : f = [c \in S |-> Step(c, f)]
  <2>1. PICK f : Solves(f, S, V, step)
    BY <1>6
  <2>2. f \in [S -> V] /\ \A c \in S : f[c] = Step(c, f)
    <3> HIDE DEF S, V, Step, step
    <3> QED BY <1>2, <2>1 DEF Solves
  <2> HIDE DEF S, V, Step, step
  <2> QED BY <2>2
<1>8. declared = [c \in S |-> Step(c, declared)]
  BY <1>7 DEF declared, Or
<1>9. declared[NoClass] = <<>>
  BY <1>8 DEF Or
<1>10. \A c \in Class : declared[c] = declared[extending(c)] \o program.funcs[c]
  BY <1>8, NamesAssumption DEF Or
<1> HIDE DEF S, V, Step, step
<1>11. \A c \in Or(Class) : declared[c] \in Seq(Func)
  <2> DEFINE P == {c \in Or(Class) : declared[c] \in Seq(Func)}
  <2>1. NoClass \in P
    <3>1. declared[NoClass] \in Seq(Func)
      BY <1>9
    <3> QED BY <3>1 DEF Or
  <2>2. ASSUME NEW c \in Class, extending(c) \in P PROVE c \in P
    <3>1. program.funcs[c] \in Seq(Func) /\ declared[extending(c)] \in Seq(Func)
      BY <2>2, ProgramParts
    <3>2. declared[c] = declared[extending(c)] \o program.funcs[c]
      BY <1>10
    <3>3. declared[c] \in Seq(Func)
      BY <3>1, <3>2
    <3> QED BY <3>3 DEF Or
  <2>3. Or(Class) \subseteq P
    <3> HIDE DEF P
    <3> QED BY <2>1, <2>2, OfAllClasses
  <2> QED BY <2>3
<1> QED BY <1>9, <1>10, <1>11

(* Where the methods of a class stand: those of the superclass first.      *)
Before(c) == Len(declared[extending(c)])

LEMMA ConcatParts ==
  ASSUME NEW S, NEW s \in Seq(S), NEW t \in Seq(S)
  PROVE  /\ s \o t \in Seq(S)
         /\ Len(s \o t) = Len(s) + Len(t) /\ DOMAIN (s \o t) = 1 .. Len(s) + Len(t)
         /\ \A k \in 1 .. Len(s) : (s \o t)[k] = s[k]
         /\ \A k \in 1 .. Len(t) : (s \o t)[Len(s) + k] = t[k]
         /\ \A k \in Len(s) + 1 .. Len(s) + Len(t) : (s \o t)[k] = t[k - Len(s)] /\ k - Len(s) \in 1 .. Len(t)
OBVIOUS

LEMMA DeclaredParts ==
  ASSUME ProgramOK, NEW c \in Class
  PROVE  /\ Before(c) \in Nat /\ Len(declared[c]) = Before(c) + Len(program.funcs[c])
         /\ DOMAIN declared[c] = 1 .. Len(declared[c]) /\ Len(declared[c]) \in Nat
         /\ \A k \in 1 .. Before(c) : declared[c][k] = declared[extending(c)][k]
         /\ \A k \in 1 .. Len(program.funcs[c]) : declared[c][Before(c) + k] = program.funcs[c][k]
         /\ \A k \in Before(c) + 1 .. Len(declared[c]) :
              k - Before(c) \in 1 .. Len(program.funcs[c]) /\ declared[c][k] = program.funcs[c][k - Before(c)]
         /\ DOMAIN program.funcs[c] = 1 .. Len(program.funcs[c])
<1>1. /\ declared[extending(c)] \in Seq(Func) /\ program.funcs[c] \in Seq(Func)
      /\ declared[c] = declared[extending(c)] \o program.funcs[c]
  BY ProgramParts, DeclaredEquation
<1> DEFINE s == declared[extending(c)]  t == program.funcs[c]
<1>2. s \in Seq(Func) /\ t \in Seq(Func) /\ declared[c] = s \o t
  BY <1>1
<1>3. Len(s) \in Nat /\ Len(t) \in Nat /\ DOMAIN t = 1 .. Len(t) /\ Before(c) = Len(s)
  BY <1>2 DEF Before
<1> HIDE DEF s, t
<1>4. /\ Len(declared[c]) = Len(s) + Len(t) /\ DOMAIN declared[c] = 1 .. Len(s) + Len(t)
      /\ \A k \in 1 .. Len(s) : declared[c][k] = s[k]
      /\ \A k \in 1 .. Len(t) : declared[c][Len(s) + k] = t[k]
      /\ \A k \in Len(s) + 1 .. Len(s) + Len(t) : declared[c][k] = t[k - Len(s)] /\ k - Len(s) \in 1 .. Len(t)
  BY <1>2, ConcatParts
<1>5. Len(s) + Len(t) \in Nat
  BY <1>3
<1> QED BY <1>3, <1>4, <1>5 DEF s, t

(* A method is declared once, by the class or a superclass.                *)
LEMMA DeclaredOnce ==
  ASSUME ProgramOK, NEW c \in Class
  PROVE  /\ \A k \in DOMAIN declared[c] : declared[c][k].of \in superTypes[c]
         /\ \A j, k \in DOMAIN declared[c] : declared[c][j] = declared[c][k] => j = k
<1>1. PICK depth : Founds(depth)
  BY ClassesFounded
<1> DEFINE Whose(d) ==
             \A k \in DOMAIN declared[d] : declared[d][k].of \in superTypes[d] /\ depth[declared[d][k].of] <= depth[d]
           Once(d) == \A j, k \in DOMAIN declared[d] : declared[d][j] = declared[d][k] => j = k
           P == {d \in Or(Class) : Whose(d) /\ Once(d)}
<1>2. NoClass \in P
  <2>1. DOMAIN declared[NoClass] = {}
    BY DeclaredEquation
  <2> QED BY <2>1 DEF Or
<1>3. ASSUME NEW d \in Class, extending(d) \in P PROVE d \in P
  <2> DEFINE n == Before(d)  m == Len(program.funcs[d])  e == extending(d)
  <2>1. /\ n \in Nat /\ m \in Nat /\ DOMAIN declared[d] = 1 .. n + m
        /\ \A k \in 1 .. n : declared[d][k] = declared[e][k]
        /\ \A k \in n + 1 .. n + m : k - n \in 1 .. m /\ declared[d][k] = program.funcs[d][k - n]
    <3>1. program.funcs[d] \in Seq(Func)
      BY ProgramParts
    <3>2. m \in Nat
      BY <3>1
    <3> QED BY <3>2, DeclaredParts
  <2>2. DOMAIN declared[e] = 1 .. n /\ e \in Or(Class)
    BY DeclaredEquation, ProgramParts DEF Before
  <2>3. /\ depth[e] \in Nat /\ depth[d] \in Nat /\ depth[e] < depth[d]
        /\ \A x \in superTypes[e] : depth[x] \in Nat /\ x \in superTypes[d]
        /\ d \in superTypes[d]
    BY <1>1, <2>2, SuperTypes DEF Founds, Or
  <2>4. /\ DOMAIN program.funcs[d] = 1 .. m
        /\ \A k \in 1 .. m : program.funcs[d][k].of = d
        /\ \A j, k \in 1 .. m : program.funcs[d][j] = program.funcs[d][k] => j = k
    <3>1. d \in Type /\ program.funcs[d] \in Seq(Func)
      BY ProgramParts
    <3>2. Told(program.funcs[d], d)
      BY <3>1, ProgramParts
    <3> QED BY <3>1, <3>2 DEF Told
  <2>5. Whose(e) /\ Once(e)
    BY <1>3
  <2>6. \A k \in 1 .. n : /\ declared[d][k].of \in superTypes[e]
                          /\ depth[declared[d][k].of] <= depth[e]
    BY <2>1, <2>2, <2>5
  <2>7. ASSUME NEW k \in n + 1 .. n + m PROVE declared[d][k].of = d
    <3>1. k - n \in 1 .. m /\ declared[d][k] = program.funcs[d][k - n]
      BY <2>1
    <3> HIDE DEF n, m
    <3> QED BY <2>4, <3>1
  <2>8. Whose(d)
    <3> SUFFICES ASSUME NEW k \in DOMAIN declared[d]
                 PROVE  declared[d][k].of \in superTypes[d] /\ depth[declared[d][k].of] <= depth[d]
      OBVIOUS
    <3>1. CASE k \in 1 .. n
      BY <2>3, <2>6, <3>1
    <3>2. CASE k \in n + 1 .. n + m
      BY <2>3, <2>7, <3>2
    <3> QED BY <2>1, <3>1, <3>2
  <2>9. Once(d)
    <3> SUFFICES ASSUME NEW j \in 1 .. n + m, NEW k \in 1 .. n + m, declared[d][j] = declared[d][k] PROVE j = k
      BY <2>1
    <3> HIDE DEF n, m
    <3>1. CASE j \in 1 .. n /\ k \in 1 .. n
      <4>1. declared[e][j] = declared[e][k]
        BY <2>1, <3>1
      <4> QED BY <2>2, <2>5, <3>1, <4>1
    <3>2. CASE j \in n + 1 .. n + m /\ k \in n + 1 .. n + m
      <4>1. j - n = k - n
        BY <2>1, <2>4, <3>2
      <4> QED BY <2>1, <4>1
    <3>3. CASE j \in 1 .. n /\ k \in n + 1 .. n + m
      BY <2>3, <2>6, <2>7, <3>3
    <3>4. CASE k \in 1 .. n /\ j \in n + 1 .. n + m
      BY <2>3, <2>6, <2>7, <3>4
    <3> QED BY <2>1, <3>1, <3>2, <3>3, <3>4
  <2> QED BY <2>8, <2>9 DEF Or
<1>4. Or(Class) \subseteq P
  <2> HIDE DEF P
  <2> QED BY <1>2, <1>3, OfAllClasses
<1> QED BY <1>4 DEF Or

-----------------------------------------------------------------------------
(* The methods that the loop of Class::generate looks at and removes.      *)
Overrides(D) == {k \in DOMAIN D : D[k].kind = "override"}
Removed(D) == {k \in Overrides(D) : InTurn(D)[k]}            \* in its turn
Gone(D) == {k \in Overrides(D) : k \in Removed(D) \/ k = Len(D)}   \* in the end

LEMMA InTurnEquation ==
  ASSUME NEW D \in Seq(Func)
  PROVE  \A k \in DOMAIN D : InTurn(D)[k] <=> (k = 1 \/ ~ (InTurn(D)[k - 1] /\ D[k - 1].kind = "override"))
<1> DEFINE S == DOMAIN D
           V == BOOLEAN
           rank == [k \in S |-> k]
           Step(k, f) == k = 1 \/ ~ (f[k - 1] /\ D[k - 1].kind = "override")
           step == [p \in S \X [S -> V] |-> Step(p[1], p[2])]
<1>1. S = 1 .. Len(D) /\ Len(D) \in Nat /\ rank \in [S -> Nat]
  OBVIOUS
<1>2. \A f \in [S -> V], k \in S : step[<<k, f>>] = Step(k, f)
  OBVIOUS
<1>3. \A f \in [S -> V], k \in S : Step(k, f) \in V
  OBVIOUS
<1>4. ASSUME NEW f \in [S -> V], NEW g \in [S -> V], NEW k \in S,
             \A j \in S : rank[j] < rank[k] => f[j] = g[j]
      PROVE  Step(k, f) = Step(k, g)
  <2>1. CASE k = 1
    BY <2>1
  <2>2. CASE k # 1
    <3>1. k - 1 \in S /\ rank[k - 1] < rank[k]
      BY <1>1, <2>2
    <3>2. f[k - 1] = g[k - 1]
      BY <1>4, <3>1
    <3> QED BY <3>2
  <2> QED BY <2>1, <2>2
<1>5. Local(S, V, rank, step)
  <2> HIDE DEF S, V, Step, step, rank
  <2>1. \A f \in [S -> V], k \in S : step[<<k, f>>] \in V
    BY <1>2, <1>3
  <2>2. ASSUME NEW f \in [S -> V], NEW g \in [S -> V], NEW k \in S,
               \A j \in S : rank[j] < rank[k] => f[j] = g[j]
        PROVE  step[<<k, f>>] = step[<<k, g>>]
    <3>1. step[<<k, f>>] = Step(k, f) /\ step[<<k, g>>] = Step(k, g)
      BY <1>2
    <3>2. Step(k, f) = Step(k, g)
      BY <1>4, <2>2
    <3> QED BY <3>1, <3>2
  <2> QED BY <2>1, <2>2 DEF Local
<1>6. \E f : Solves(f, S, V, step)
  <2> HIDE DEF S, V, rank, step
  <2> QED BY <1>1, <1>5, Recursion DEF V
<1>7. PICK f \in [S -> V] : f = [k \in S |-> Step(k, f)]
  <2>1. PICK f : Solves(f, S, V, step)
    BY <1>6
  <2>2. f \in [S -> V] /\ \A k \in S : f[k] = Step(k, f)
    <3> HIDE DEF S, V, Step, step
    <3> QED BY <1>2, <2>1 DEF Solves
  <2> HIDE DEF S, V, Step, step
  <2> QED BY <2>2
<1>8. InTurn(D) = [k \in S |-> Step(k, InTurn(D))]
  BY <1>7 DEF InTurn
<1> HIDE DEF S
<1>9. ASSUME NEW k \in S PROVE InTurn(D)[k] = Step(k, InTurn(D))
  <2> HIDE DEF Step
  <2> QED BY <1>8
<1> QED BY <1>9 DEF S

LEMMA RemovedParts ==
  ASSUME NEW D \in Seq(Func)
  PROVE  /\ Removed(D) \subseteq 1 .. Len(D) /\ Overrides(D) \subseteq 1 .. Len(D)
         /\ \A k \in 1 .. Len(D) : k \in Removed(D) <=> k \in Overrides(D) /\ k - 1 \notin Removed(D)
         /\ \A k \in 1 .. Len(D) : k \in Seen(D) <=> k - 1 \notin Removed(D) \/ k = Len(D)
         /\ Gone(D) = {k \in Seen(D) : D[k].kind = "override"}
<1>1. DOMAIN D = 1 .. Len(D) /\ Len(D) \in Nat
  OBVIOUS
<1>2. \A k \in DOMAIN D : InTurn(D)[k] <=> (k = 1 \/ ~ (InTurn(D)[k - 1] /\ D[k - 1].kind = "override"))
  BY InTurnEquation
<1>3. Removed(D) \subseteq 1 .. Len(D) /\ Overrides(D) \subseteq 1 .. Len(D)
  BY <1>1 DEF Removed, Overrides
<1>4. ASSUME NEW k \in 1 .. Len(D) PROVE InTurn(D)[k] <=> k - 1 \notin Removed(D)
  <2>1. CASE k = 1
    <3>1. k \in DOMAIN D
      BY <1>1
    <3>2. InTurn(D)[k]
      BY <1>2, <2>1, <3>1
    <3>3. k - 1 \notin 1 .. Len(D)
      BY <2>1
    <3> QED BY <1>3, <3>2, <3>3
  <2>2. CASE k # 1
    <3>1. k - 1 \in 1 .. Len(D)
      BY <1>1, <2>2
    <3> QED BY <1>1, <1>2, <2>2, <3>1 DEF Removed, Overrides
  <2> QED BY <2>1, <2>2
<1>5. ASSUME NEW k \in 1 .. Len(D) PROVE k \in Removed(D) <=> k \in Overrides(D) /\ k - 1 \notin Removed(D)
  BY <1>1, <1>4 DEF Removed
<1>6. ASSUME NEW k \in 1 .. Len(D) PROVE k \in Seen(D) <=> k - 1 \notin Removed(D) \/ k = Len(D)
  BY <1>1, <1>4 DEF Seen
<1>7. Gone(D) = {k \in Seen(D) : D[k].kind = "override"}
  BY <1>1 DEF Gone, Seen, Removed, Overrides
<1> QED BY <1>3, <1>5, <1>6, <1>7

(* How many of the first k are not in R: the place of the k-th when those  *)
(* in R are removed.                                                       *)
Rank(R, k) == Cardinality((1 .. k) \ R)

LEMMA RankParts ==
  ASSUME NEW R
  PROVE  /\ Rank(R, 0) = 0
         /\ \A k \in Nat : Rank(R, k) \in Nat /\ IsFiniteSet((1 .. k) \ R)
         /\ \A k \in Nat \ {0} : k - 1 \in Nat /\ Rank(R, k) = IF k \in R THEN Rank(R, k - 1) ELSE Rank(R, k - 1) + 1
<1>1. Rank(R, 0) = 0
  <2>1. (1 .. 0) \ R = {}
    OBVIOUS
  <2> QED BY <2>1, FS_EmptySet DEF Rank
<1>2. ASSUME NEW k \in Nat PROVE Rank(R, k) \in Nat /\ IsFiniteSet((1 .. k) \ R)
  <2>1. IsFiniteSet(1 .. k)
    BY FS_Interval
  <2>2. (1 .. k) \ R \subseteq 1 .. k
    OBVIOUS
  <2>3. IsFiniteSet((1 .. k) \ R)
    BY <2>1, <2>2, FS_Subset
  <2> QED BY <2>3, FS_CardinalityType DEF Rank
<1>3. ASSUME NEW k \in Nat PROVE Rank(R, k + 1) = IF k + 1 \in R THEN Rank(R, k) ELSE Rank(R, k) + 1
  <2>1. CASE k + 1 \in R
    <3>1. (1 .. k + 1) \ R = (1 .. k) \ R
      BY <2>1
    <3> QED BY <2>1, <3>1 DEF Rank
  <2>2. CASE k + 1 \notin R
    <3>1. (1 .. k + 1) \ R = ((1 .. k) \ R) \cup {k + 1}
      BY <2>2
    <3>2. k + 1 \notin (1 .. k) \ R
      OBVIOUS
    <3>3. Cardinality(((1 .. k) \ R) \cup {k + 1}) = Cardinality((1 .. k) \ R) + 1
      BY <1>2, <3>2, FS_AddElement
    <3> QED BY <2>2, <3>1, <3>3 DEF Rank
  <2> QED BY <2>1, <2>2
<1>4. ASSUME NEW k \in Nat \ {0}
      PROVE  k - 1 \in Nat /\ Rank(R, k) = IF k \in R THEN Rank(R, k - 1) ELSE Rank(R, k - 1) + 1
  <2>1. k - 1 \in Nat /\ (k - 1) + 1 = k
    OBVIOUS
  <2> DEFINE m == k - 1
  <2>2. Rank(R, m + 1) = IF m + 1 \in R THEN Rank(R, m) ELSE Rank(R, m) + 1
    BY <1>3, <2>1
  <2> QED BY <2>1, <2>2
<1> QED BY <1>1, <1>2, <1>4

LEMMA RankStep ==
  ASSUME NEW R, NEW k \in Nat, k + 1 \notin R
  PROVE  Rank(R, k + 1) = Rank(R, k) + 1
<1> DEFINE i == k + 1
<1>1. i \in Nat \ {0} /\ i \notin R /\ i - 1 = k
  OBVIOUS
<1> HIDE DEF i
<1>2. Rank(R, i) = Rank(R, i - 1) + 1
  BY <1>1, RankParts
<1> QED BY <1>1, <1>2 DEF i

LEMMA RankGrows ==
  ASSUME NEW R, NEW j \in Nat, NEW k \in Nat, j <= k
  PROVE  /\ Rank(R, j) \in Nat /\ Rank(R, k) \in Nat
         /\ Rank(R, j) <= Rank(R, k) /\ Rank(R, k) - Rank(R, j) <= k - j
         /\ j < k /\ k \notin R => Rank(R, j) < Rank(R, k)
         /\ Rank(R, k) <= k
<1> DEFINE T == {m \in Nat : ~ (Rank(R, j) <= Rank(R, j + m) /\ Rank(R, j + m) - Rank(R, j) <= m)}
<1>1. T = {}
  <2> SUFFICES ASSUME T # {} PROVE FALSE
    OBVIOUS
  <2>1. PICK m \in T : \A y \in T : ~ (y < m)
    <3>1. T \in SUBSET Nat
      OBVIOUS
    <3> HIDE DEF T
    <3> QED BY <3>1, NatMin
  <2>2. CASE m = 0
    <3> DEFINE r == Rank(R, j)
    <3>1. r \in Nat
      BY RankParts
    <3>2. Rank(R, j + 0) = r
      <4>1. j + 0 = j
        OBVIOUS
      <4> QED BY <4>1
    <3> HIDE DEF r
    <3>3. r <= r /\ r - r <= 0
      BY <3>1
    <3> QED BY <2>1, <2>2, <3>2, <3>3 DEF r
  <2>3. CASE m # 0
    <3>1. m - 1 \in Nat /\ m - 1 \notin T /\ m \in Nat
      BY <2>1, <2>3
    <3>2. j + (m - 1) \in Nat /\ (j + m) - 1 = j + (m - 1) /\ j + m \in Nat \ {0}
      BY <2>3, <3>1
    <3>3. Rank(R, j + m) = IF j + m \in R THEN Rank(R, j + (m - 1)) ELSE Rank(R, j + (m - 1)) + 1
      <4> DEFINE i == j + m
      <4>1. i \in Nat \ {0} /\ i - 1 = j + (m - 1)
        BY <3>2
      <4> HIDE DEF i, T
      <4>2. Rank(R, i) = IF i \in R THEN Rank(R, i - 1) ELSE Rank(R, i - 1) + 1
        BY <4>1, RankParts
      <4> QED BY <4>1, <4>2 DEF i
    <3>4. Rank(R, j) \in Nat /\ Rank(R, j + (m - 1)) \in Nat
      BY <3>2, RankParts
    <3> HIDE DEF Rank
    <3> QED BY <2>1, <3>1, <3>3, <3>4
  <2> QED BY <2>2, <2>3
<1>2. \A m \in Nat : Rank(R, j) <= Rank(R, j + m) /\ Rank(R, j + m) - Rank(R, j) <= m
  BY <1>1
<1> HIDE DEF T
<1>3. Rank(R, j) <= Rank(R, k) /\ Rank(R, k) - Rank(R, j) <= k - j
  <2>1. k - j \in Nat /\ j + (k - j) = k
    OBVIOUS
  <2> QED BY <1>2, <2>1
<1>4. Rank(R, j) \in Nat /\ Rank(R, k) \in Nat
  BY RankParts
<1>5. ASSUME j < k, k \notin R PROVE Rank(R, j) < Rank(R, k)
  <2>1. k - 1 \in Nat /\ k - 1 - j \in Nat /\ j + (k - 1 - j) = k - 1 /\ k \in Nat \ {0}
    BY <1>5
  <2>2. Rank(R, j) <= Rank(R, k - 1)
    BY <1>2, <2>1
  <2>3. Rank(R, k) = Rank(R, k - 1) + 1
    BY <1>5, <2>1, RankParts
  <2>4. Rank(R, k - 1) \in Nat
    BY <2>1, RankParts
  <2> QED BY <1>4, <2>2, <2>3, <2>4
<1>6. Rank(R, k) <= k
  <2>1. IsFiniteSet(1 .. k) /\ Cardinality(1 .. k) = k
    BY FS_Interval
  <2>2. (1 .. k) \ R \subseteq 1 .. k
    OBVIOUS
  <2> QED BY <2>1, <2>2, FS_Subset DEF Rank
<1> QED BY <1>3, <1>4, <1>5, <1>6

LEMMA RankOnto ==
  ASSUME NEW R, NEW n \in Nat, NEW j \in 1 .. Rank(R, n)
  PROVE  \E k \in 1 .. n : k \notin R /\ Rank(R, k) = j
<1> DEFINE T == {k \in Nat : k <= n /\ j <= Rank(R, k)}
<1>1. n \in T /\ T \in SUBSET Nat
  BY RankParts
<1>2. PICK k \in T : \A y \in T : ~ (y < k)
  <2> HIDE DEF T
  <2> QED BY <1>1, NatMin
<1>3. Rank(R, 0) = 0 /\ Rank(R, k) \in Nat
  BY <1>2, RankParts
<1>4. k # 0
  BY <1>2, <1>3
<1>5. k - 1 \in Nat /\ k \in Nat \ {0} /\ k - 1 \notin T /\ k \in 1 .. n /\ j <= Rank(R, k)
  BY <1>2, <1>4
<1>6. Rank(R, k - 1) < j /\ Rank(R, k - 1) \in Nat
  <2>1. Rank(R, k - 1) \in Nat
    BY <1>5, RankParts
  <2> QED BY <1>5, <2>1
<1> HIDE DEF T
<1>7. Rank(R, k) = IF k \in R THEN Rank(R, k - 1) ELSE Rank(R, k - 1) + 1
  BY <1>5, RankParts
<1> QED BY <1>3, <1>5, <1>6, <1>7

LEMMA RankSame ==
  ASSUME NEW R, NEW Q, NEW n \in Nat, \A k \in 1 .. n : k \in R <=> k \in Q
  PROVE  Rank(R, n) = Rank(Q, n)
<1>1. (1 .. n) \ R = (1 .. n) \ Q
  OBVIOUS
<1> QED BY <1>1 DEF Rank

LEMMA RankWithout ==
  ASSUME NEW R, NEW b \in Nat \ {0}, b \notin R, NEW k \in Nat
  PROVE  Rank(R \cup {b}, k) = IF k < b THEN Rank(R, k) ELSE Rank(R, k) - 1
<1>1. CASE k < b
  <2>1. \A j \in 1 .. k : j \in R \cup {b} <=> j \in R
    BY <1>1
  <2> QED BY <1>1, <2>1, RankSame
<1>2. CASE ~ (k < b)
  <2>1. (1 .. k) \ (R \cup {b}) = ((1 .. k) \ R) \ {b} /\ b \in (1 .. k) \ R
    BY <1>2
  <2>2. Cardinality(((1 .. k) \ R) \ {b}) = Cardinality((1 .. k) \ R) - 1
    BY <2>1, RankParts, FS_RemoveElement
  <2> QED BY <1>2, <2>1, <2>2 DEF Rank
<1> QED BY <1>1, <1>2

-----------------------------------------------------------------------------
(* The tables that getFuncsRec makes.                                      *)
InterfaceFunc == {f \in Func : f.of \in Interface}

LEMMA FlattenType ==
  ASSUME NEW A, NEW s \in Seq(Seq(A))
  PROVE  FlattenSeq(s) \in Seq(A)
<1>1. CASE Len(s) = 0
  <2>1. s = <<>> /\ <<>> \in Seq(A)
    BY <1>1
  <2> QED BY <1>1, <2>1 DEF FlattenSeq
<1>2. CASE Len(s) # 0
  <2> DEFINE S == 1 .. Len(s)
             V == Seq(A)
             rank == [k \in S |-> k]
             Step(k, f) == IF k = 1 THEN s[k] ELSE f[k - 1] \o s[k]
             step == [p \in S \X [S -> V] |-> Step(p[1], p[2])]
  <2>1. Len(s) \in S /\ rank \in [S -> Nat]
    BY <1>2
  <2>2. \A f \in [S -> V], k \in S : step[<<k, f>>] = Step(k, f)
    OBVIOUS
  <2>3. ASSUME NEW f \in [S -> V], NEW k \in S PROVE Step(k, f) \in V
    <3>1. s[k] \in Seq(A)
      OBVIOUS
    <3>2. CASE k = 1
      BY <3>1, <3>2
    <3>3. CASE k # 1
      <4>1. k - 1 \in S
        BY <3>3
      <4>2. f[k - 1] \in Seq(A)
        BY <4>1
      <4> QED BY <3>1, <3>3, <4>2
    <3> QED BY <3>2, <3>3
  <2>4. ASSUME NEW f \in [S -> V], NEW g \in [S -> V], NEW k \in S,
               \A j \in S : rank[j] < rank[k] => f[j] = g[j]
        PROVE  Step(k, f) = Step(k, g)
    <3>1. CASE k = 1
      BY <3>1
    <3>2. CASE k # 1
      <4>1. k - 1 \in S /\ rank[k - 1] < rank[k]
        BY <3>2
      <4>2. f[k - 1] = g[k - 1]
        BY <2>4, <4>1
      <4> QED BY <3>2, <4>2
    <3> QED BY <3>1, <3>2
  <2>5. Local(S, V, rank, step)
    <3> HIDE DEF S, V, Step, step, rank
    <3>1. \A f \in [S -> V], k \in S : step[<<k, f>>] \in V
      BY <2>2, <2>3
    <3>2. ASSUME NEW f \in [S -> V], NEW g \in [S -> V], NEW k \in S,
                 \A j \in S : rank[j] < rank[k] => f[j] = g[j]
          PROVE  step[<<k, f>>] = step[<<k, g>>]
      <4>1. step[<<k, f>>] = Step(k, f) /\ step[<<k, g>>] = Step(k, g)
        BY <2>2
      <4>2. Step(k, f) = Step(k, g)
        BY <2>4, <3>2
      <4> QED BY <4>1, <4>2
    <3> QED BY <3>1, <3>2 DEF Local
  <2>6. PICK f : Solves(f, S, V, step)
    <3>1. <<>> \in V
      OBVIOUS
    <3>2. PICK base : base \in V
      BY <3>1
    <3> HIDE DEF S, V, rank, step
    <3> QED BY <2>1, <2>5, <3>2, Recursion
  <2>7. f \in [S -> V] /\ \A k \in S : f[k] = Step(k, f)
    <3> HIDE DEF S, V, Step, step
    <3> QED BY <2>2, <2>6 DEF Solves
  <2>8. f = [k \in S |-> Step(k, f)]
    <3> HIDE DEF S, V, Step, step
    <3> QED BY <2>7
  <2> DEFINE flat == CHOOSE g : g = [k \in S |-> Step(k, g)]
  <2>9. flat = [k \in S |-> Step(k, flat)]
    <3> HIDE DEF S, Step
    <3> QED BY <2>8
  <2>10. FlattenSeq(s) = flat[Len(s)]
    BY <1>2 DEF FlattenSeq
  <2> HIDE DEF flat, step
  <2> DEFINE T == {k \in Nat : k \in S /\ flat[k] \notin Seq(A)}
  <2>11. T = {}
    <3> SUFFICES ASSUME T # {} PROVE FALSE
      OBVIOUS
    <3>1. PICK k \in T : \A y \in T : ~ (y < k)
      <4>1. T \in SUBSET Nat
        OBVIOUS
      <4> HIDE DEF T
      <4> QED BY <4>1, NatMin
    <3>2. flat[k] = Step(k, flat) /\ k \in S
      <4> HIDE DEF Step
      <4> QED BY <2>9, <3>1
    <3>3. s[k] \in Seq(A)
      BY <3>2
    <3>4. CASE k = 1
      BY <3>1, <3>2, <3>3, <3>4
    <3>5. CASE k # 1
      <4>1. k - 1 \in S /\ k - 1 \in Nat /\ k - 1 < k
        BY <3>2, <3>5
      <4>2. flat[k - 1] \in Seq(A)
        BY <3>1, <4>1
      <4>3. flat[k] = flat[k - 1] \o s[k]
        BY <3>2, <3>5
      <4>4. flat[k] \in Seq(A)
        BY <3>3, <4>2, <4>3
      <4> QED BY <3>1, <4>4
    <3> QED BY <3>4, <3>5
  <2> QED BY <2>1, <2>10, <2>11
<1> QED BY <1>1, <1>2

LEMMA InterfaceTablesType ==
  ASSUME ProgramOK
  PROVE  \A i \in Interface : InterfaceTables(i) \in Seq(Seq(InterfaceFunc))
<1>1. PICK depth \in [Interface -> Nat] :
        \A i \in Interface : \A k \in DOMAIN program.inherits[i] : depth[program.inherits[i][k]] < depth[i]
  BY InterfacesFounded
<1> DEFINE S == Interface
           V == Seq(Seq(InterfaceFunc))
           Own(j) == IF program.funcs[j] = <<>> THEN <<>> ELSE <<program.funcs[j]>>
           Lists(j, f) == [k \in DOMAIN program.inherits[j] |-> f[program.inherits[j][k]]]
           Step(j, f) == Own(j) \o FlattenSeq(Lists(j, f))
           step == [p \in S \X [S -> V] |-> Step(p[1], p[2])]
<1>2. \A f \in [S -> V], j \in S : step[<<j, f>>] = Step(j, f)
  OBVIOUS
<1>3. ASSUME NEW j \in S PROVE Own(j) \in V
  <2>1. program.funcs[j] \in Seq(Func) /\ Told(program.funcs[j], j) /\ j \in Type
    BY ProgramParts
  <2>2. program.funcs[j] \in Seq(InterfaceFunc)
    BY <2>1 DEF Told, InterfaceFunc
  <2> QED BY <2>2
<1>4. ASSUME NEW f \in [S -> V], NEW j \in S PROVE Step(j, f) \in V
  <2>1. program.inherits[j] \in Seq(Interface)
    BY ProgramParts
  <2>2. Lists(j, f) \in Seq(V)
    <3> DEFINE s == program.inherits[j]
    <3>1. DOMAIN s = 1 .. Len(s) /\ Len(s) \in Nat /\ \A k \in 1 .. Len(s) : s[k] \in Interface
      BY <2>1
    <3> HIDE DEF V, s
    <3>2. \A k \in 1 .. Len(s) : f[s[k]] \in V
      BY <3>1
    <3>3. [k \in 1 .. Len(s) |-> f[s[k]]] \in Seq(V)
      BY <3>1, <3>2
    <3> QED BY <3>1, <3>3 DEF s
  <2>3. FlattenSeq(Lists(j, f)) \in V
    <3> HIDE DEF Lists
    <3> QED BY <2>2, FlattenType
  <2> HIDE DEF Own, Lists
  <2> QED BY <1>3, <2>3
<1>5. ASSUME NEW f \in [S -> V], NEW g \in [S -> V], NEW j \in S,
             \A d \in S : depth[d] < depth[j] => f[d] = g[d]
      PROVE  Step(j, f) = Step(j, g)
  <2>1. program.inherits[j] \in Seq(Interface)
    BY ProgramParts
  <2>2. \A k \in DOMAIN program.inherits[j] : program.inherits[j][k] \in S
    BY <2>1
  <2>3. Lists(j, f) = Lists(j, g)
    BY <1>1, <1>5, <2>2
  <2> HIDE DEF Own, Lists
  <2> QED BY <2>3
<1>6. Local(S, V, depth, step)
  <2> HIDE DEF S, V, Step, step
  <2>1. \A f \in [S -> V], k \in S : step[<<k, f>>] \in V
    BY <1>2, <1>4
  <2>2. ASSUME NEW f \in [S -> V], NEW g \in [S -> V], NEW k \in S,
               \A j \in S : depth[j] < depth[k] => f[j] = g[j]
        PROVE  step[<<k, f>>] = step[<<k, g>>]
    <3>1. step[<<k, f>>] = Step(k, f) /\ step[<<k, g>>] = Step(k, g)
      BY <1>2
    <3>2. Step(k, f) = Step(k, g)
      BY <1>5, <2>2
    <3> QED BY <3>1, <3>2
  <2> QED BY <2>1, <2>2 DEF Local
<1>7. PICK f : Solves(f, S, V, step)
  <2>1. <<>> \in V
    OBVIOUS
  <2>2. PICK base : base \in V
    BY <2>1
  <2>3. depth \in [S -> Nat]
    BY <1>1
  <2> HIDE DEF S, V, step
  <2> QED BY <1>6, <2>2, <2>3, Recursion
<1>8. f \in [S -> V] /\ \A k \in S : f[k] = Step(k, f)
  <2> HIDE DEF S, V, Step, step
  <2> QED BY <1>2, <1>7 DEF Solves
<1>9. f = [k \in S |-> Step(k, f)]
  <2> HIDE DEF S, V, Step, step
  <2> QED BY <1>8
<1> DEFINE of == CHOOSE g : g = [k \in S |-> Step(k, g)]
<1>10. of = [k \in S |-> Step(k, of)]
  <2> HIDE DEF S, Step
  <2> QED BY <1>9
<1>11. \A i \in Interface : InterfaceTables(i) = of[i]
  BY DEF InterfaceTables
<1> HIDE DEF of, step
<1> DEFINE T == {n \in Nat : \E i \in Interface : depth[i] = n /\ of[i] \notin V}
<1>12. T = {}
  <2> SUFFICES ASSUME T # {} PROVE FALSE
    OBVIOUS
  <2>1. PICK n \in T : \A y \in T : ~ (y < n)
    <3>1. T \in SUBSET Nat
      OBVIOUS
    <3> HIDE DEF T
    <3> QED BY <3>1, NatMin
  <2>2. PICK i \in Interface : depth[i] = n /\ of[i] \notin V
    BY <2>1
  <2>3. of[i] = Step(i, of)
    <3> HIDE DEF Step
    <3> QED BY <1>10
  <2>4. program.inherits[i] \in Seq(Interface)
    BY ProgramParts
  <2>5. ASSUME NEW k \in DOMAIN program.inherits[i] PROVE of[program.inherits[i][k]] \in V
    <3>1. program.inherits[i][k] \in Interface /\ depth[program.inherits[i][k]] < n
      BY <1>1, <2>2, <2>4
    <3>2. depth[program.inherits[i][k]] \in Nat
      BY <1>1, <3>1
    <3> HIDE DEF V
    <3> QED BY <2>1, <3>1, <3>2
  <2>6. Lists(i, of) \in Seq(V)
    <3> HIDE DEF V
    <3> DEFINE N == Len(program.inherits[i])
    <3>1. N \in Nat /\ DOMAIN program.inherits[i] = 1 .. N
      BY <2>4
    <3> HIDE DEF N
    <3>2. Lists(i, of) \in [1 .. N -> V]
      BY <2>5, <3>1
    <3> HIDE DEF Lists
    <3> QED BY <3>1, <3>2
  <2>7. FlattenSeq(Lists(i, of)) \in V
    <3> HIDE DEF Lists
    <3> QED BY <2>6, FlattenType
  <2>8. Step(i, of) \in V
    <3> HIDE DEF Own, Lists
    <3> QED BY <1>3, <2>7
  <2> QED BY <2>2, <2>3, <2>8
<1> HIDE DEF V
<1>13. \A i \in Interface : of[i] \in V
  BY <1>1, <1>12
<1> QED BY <1>11, <1>13 DEF V

LEMMA InterfacesTablesType ==
  ASSUME ProgramOK, NEW c \in Class
  PROVE  InterfacesTables(c) \in Seq(Seq(InterfaceFunc))
<1> DEFINE s == implementing(c)
           V == Seq(Seq(InterfaceFunc))
<1>1. s \in Seq(Interface)
  BY ProgramParts
<1>2. DOMAIN s = 1 .. Len(s) /\ Len(s) \in Nat /\ \A k \in 1 .. Len(s) : s[k] \in Interface
  BY <1>1
<1> DEFINE lists == [k \in DOMAIN s |-> InterfaceTables(s[k])]
<1>3. lists \in Seq(V)
  <2> HIDE DEF V, s
  <2>1. \A k \in 1 .. Len(s) : InterfaceTables(s[k]) \in V
    BY <1>2, InterfaceTablesType DEF V
  <2>2. [k \in 1 .. Len(s) |-> InterfaceTables(s[k])] \in Seq(V)
    BY <1>2, <2>1
  <2> QED BY <1>2, <2>2
<1>4. InterfacesTables(c) = FlattenSeq(lists)
  BY DEF InterfacesTables
<1> HIDE DEF lists
<1> QED BY <1>3, <1>4, FlattenType

LEMMA FirstReplaced ==
  ASSUME NEW A, NEW s \in Seq(A), Len(s) >= 1, NEW x \in A
  PROVE  LET r == [s EXCEPT ![1] = x] IN
         r \in Seq(A) /\ Len(r) = Len(s) /\ r[1] = x /\ \A i \in 2 .. Len(s) : r[i] = s[i]
OBVIOUS

(* The tables getFuncsRec returned: what is declared, then the methods of  *)
(* interfaces, no fewer tables than the superclass has.                    *)
RecOK(c) ==
  /\ rec[c] \in Seq(Seq(Func)) /\ Len(rec[c]) >= 1 /\ rec[c][1] = declared[c]
  /\ \A i \in 2 .. Len(rec[c]) : rec[c][i] \in Seq(InterfaceFunc)
  /\ extending(c) # NoClass => rec[extending(c)] # NotDone /\ Len(rec[extending(c)]) <= Len(rec[c])

LEMMA FuncsRecParts ==
  ASSUME ProgramOK, NEW c \in Class, extending(c) # NoClass => RecOK(extending(c))
  PROVE  LET r == FuncsRec(c) IN
         /\ r \in Seq(Seq(Func)) /\ Len(r) >= 1 /\ r[1] = declared[c]
         /\ \A i \in 2 .. Len(r) : r[i] \in Seq(InterfaceFunc)
         /\ extending(c) # NoClass => Len(rec[extending(c)]) <= Len(r)
<1> DEFINE s == SuperTables(c)
           own == [s EXCEPT ![1] = @ \o program.funcs[c]]
           t == InterfacesTables(c)
           e == extending(c)
<1>1. /\ s \in Seq(Seq(Func)) /\ Len(s) >= 1 /\ s[1] = declared[e]
      /\ \A i \in 2 .. Len(s) : s[i] \in Seq(InterfaceFunc)
      /\ e # NoClass => s = rec[e]
  <2>1. CASE e = NoClass
    <3>1. s = <<<<>>>>
      BY <2>1 DEF SuperTables
    <3>2. <<>> \in Seq(Func)
      OBVIOUS
    <3> HIDE DEF s
    <3> QED BY <2>1, <3>1, <3>2, DeclaredEquation
  <2>2. CASE e # NoClass
    BY <2>2 DEF SuperTables, RecOK
  <2> QED BY <2>1, <2>2
<1>2. /\ program.funcs[c] \in Seq(Func) /\ declared[c] = declared[e] \o program.funcs[c]
      /\ declared[c] \in Seq(Func)
  BY ProgramParts, DeclaredEquation DEF Or
<1>3. t \in Seq(Seq(InterfaceFunc)) /\ Seq(InterfaceFunc) \subseteq Seq(Func)
  BY InterfacesTablesType DEF InterfaceFunc
<1> HIDE DEF s, t, e
<1>4. own \in Seq(Seq(Func)) /\ Len(own) = Len(s) /\ own[1] = declared[c] /\ \A i \in 2 .. Len(s) : own[i] = s[i]
  <2> DEFINE W == Seq(Func)
             x == s[1] \o program.funcs[c]
  <2>1. x = declared[c] /\ x \in W
    BY <1>1, <1>2
  <2>2. s \in Seq(W) /\ Len(s) >= 1
    BY <1>1
  <2>3. own = [s EXCEPT ![1] = x]
    OBVIOUS
  <2> HIDE DEF W, x, own
  <2>4. own \in Seq(W) /\ Len(own) = Len(s) /\ own[1] = x /\ \A i \in 2 .. Len(s) : own[i] = s[i]
    BY <2>1, <2>2, <2>3, FirstReplaced
  <2> QED BY <2>1, <2>4 DEF W
<1>5. \A i \in 2 .. Len(s) : own[i] \in Seq(InterfaceFunc)
  BY <1>1, <1>4
<1> HIDE DEF own
<1>6. \A k \in 1 .. Len(t) : t[k] \in Seq(InterfaceFunc)
  BY <1>3
<1>7. t \in Seq(Seq(Func))
  BY <1>3
<1>8. /\ own \o t \in Seq(Seq(Func)) /\ Len(own \o t) = Len(s) + Len(t) /\ Len(s) \in Nat /\ Len(t) \in Nat
      /\ \A k \in 1 .. Len(s) : (own \o t)[k] = own[k]
      /\ \A k \in Len(s) + 1 .. Len(s) + Len(t) : (own \o t)[k] = t[k - Len(s)] /\ k - Len(s) \in 1 .. Len(t)
  <2> DEFINE W == Seq(Func)
  <2>1. own \in Seq(W) /\ t \in Seq(W) /\ s \in Seq(W)
    BY <1>1, <1>4, <1>7
  <2>2. Len(s) \in Nat /\ Len(t) \in Nat /\ Len(own) = Len(s)
    BY <1>4, <2>1
  <2> HIDE DEF W
  <2>3. own \o t \in Seq(W)
    BY <2>1
  <2>4. /\ Len(own \o t) = Len(own) + Len(t)
        /\ \A k \in 1 .. Len(own) : (own \o t)[k] = own[k]
        /\ \A k \in Len(own) + 1 .. Len(own) + Len(t) : (own \o t)[k] = t[k - Len(own)] /\ k - Len(own) \in 1 .. Len(t)
    BY <2>1, ConcatParts
  <2> QED BY <2>2, <2>3, <2>4 DEF W
<1>9. FuncsRec(c) = own \o t
  BY DEF FuncsRec, own, s, t
<1> DEFINE r == FuncsRec(c)
<1>10. r = own \o t
  BY <1>9
<1> HIDE DEF r
<1>11. r \in Seq(Seq(Func)) /\ Len(r) >= 1 /\ r[1] = declared[c]
  BY <1>1, <1>4, <1>8, <1>10
<1>12. ASSUME NEW i \in 2 .. Len(r) PROVE r[i] \in Seq(InterfaceFunc)
  <2>1. CASE i <= Len(s)
    BY <1>5, <1>8, <1>10, <2>1
  <2>2. CASE i > Len(s)
    BY <1>6, <1>8, <1>10, <2>2
  <2> QED BY <1>8, <2>1, <2>2
<1>13. e # NoClass => Len(rec[e]) <= Len(r)
  BY <1>1, <1>8, <1>10
<1> QED BY <1>11, <1>12, <1>13 DEF r, e

-----------------------------------------------------------------------------
(* The layout of a class.                                                  *)
Elems(c) == TableElements(c) + Len(program.fields[c])

LEMMA Remainders ==
  /\ \A n \in Nat \ {0} : 0 % n = 0
  /\ \A x \in Nat, n \in Nat \ {0} : x % n \in Nat
  /\ \A x \in Nat : x % 2 \in {0, 1} /\ (x + (x % 2)) % 2 = 0 /\ x % 1 = 0
  /\ \A x \in Nat : x % 2 = 0 => (x + 2) % 2 = 0
OBVIOUS

LEMMA Counts ==
  ASSUME ProgramOK, NEW c \in Class
  PROVE  /\ TableElements(c) \in Nat /\ TableElements(c) >= 1
         /\ Len(program.fields[c]) \in Nat /\ DOMAIN program.fields[c] = 1 .. Len(program.fields[c])
         /\ Elems(c) \in Nat /\ Elems(c) >= TableElements(c)
         /\ \A j \in 1 .. Len(program.fields[c]) : program.fields[c][j].units \in {1, 2}
<1> DEFINE s == implementing(c)  f == program.fields[c]
<1>1. s \in Seq(Interface) /\ f \in Seq(Field)
  BY ProgramParts
<1>2. Len(s) \in Nat /\ Len(f) \in Nat /\ DOMAIN f = 1 .. Len(f) /\ \A j \in 1 .. Len(f) : f[j] \in Field
  BY <1>1
<1>3. \A j \in 1 .. Len(f) : f[j].units \in {1, 2}
  BY <1>2 DEF Field
<1> HIDE DEF f
<1>4. TableElements(c) = Len(s) + 1 /\ Elems(c) = TableElements(c) + Len(f)
  BY DEF TableElements, Elems, f
<1> HIDE DEF s
<1>5. /\ TableElements(c) \in Nat /\ TableElements(c) >= 1
      /\ Elems(c) \in Nat /\ Elems(c) >= TableElements(c)
  BY <1>2, <1>4
<1> QED BY <1>2, <1>3, <1>5 DEF f

LEMMA UnitsParts ==
  ASSUME ProgramOK, NEW c \in Class, SuperSize(c) \in Nat, SuperSize(c) >= 2
  PROVE  /\ Units(c, 1) = SuperSize(c)
         /\ \A k \in 2 .. TableElements(c) : Units(c, k) = 2
         /\ \A k \in TableElements(c) + 1 .. Elems(c) :
              Units(c, k) = program.fields[c][k - TableElements(c)].units /\ Units(c, k) \in {1, 2}
         /\ \A k \in 1 .. Elems(c) : Units(c, k) \in Nat \ {0}
<1>1. Units(c, 1) = SuperSize(c)
  BY DEF Units
<1>2. ASSUME NEW k \in 2 .. TableElements(c) PROVE Units(c, k) = 2
  BY Counts DEF Units
<1>3. ASSUME NEW k \in TableElements(c) + 1 .. Elems(c)
      PROVE  Units(c, k) = program.fields[c][k - TableElements(c)].units /\ Units(c, k) \in {1, 2}
  <2>1. k - TableElements(c) \in 1 .. Len(program.fields[c]) /\ k # 1 /\ ~ (k <= TableElements(c))
    BY Counts DEF Elems
  <2>2. Units(c, k) = program.fields[c][k - TableElements(c)].units
    BY <2>1 DEF Units
  <2> QED BY <2>1, <2>2, Counts
<1>4. ASSUME NEW k \in 1 .. Elems(c) PROVE Units(c, k) \in Nat \ {0}
  <2>1. k = 1 \/ k \in 2 .. TableElements(c) \/ k \in TableElements(c) + 1 .. Elems(c)
    BY Counts
  <2> QED BY <1>1, <1>2, <1>3, <2>1
<1> QED BY <1>1, <1>2, <1>3, <1>4

LEMMA ElementsEquation ==
  ASSUME ProgramOK, NEW c \in Class, SuperSize(c) \in Nat, SuperSize(c) >= 2
  PROVE  /\ Elements(c) \in [1 .. 1 + Elems(c) -> Nat]
         /\ Elements(c)[1] = 0
         /\ \A k \in 1 .. Elems(c) :
              Elements(c)[k + 1] = Aligned(Elements(c)[k], Units(c, k)) + Units(c, k)
<1> DEFINE S == 1 .. 1 + Elems(c)
           V == Nat
           rank == [k \in S |-> k]
           Step(k, f) == IF k = 1 THEN 0 ELSE Aligned(f[k - 1], Units(c, k - 1)) + Units(c, k - 1)
           step == [p \in S \X [S -> V] |-> Step(p[1], p[2])]
<1>1. rank \in [S -> Nat] /\ Elems(c) \in Nat
  BY Counts
<1>2. \A f \in [S -> V], k \in S : step[<<k, f>>] = Step(k, f)
  OBVIOUS
<1>3. ASSUME NEW f \in [S -> V], NEW k \in S PROVE Step(k, f) \in V
  <2>1. CASE k = 1
    BY <2>1
  <2>2. CASE k # 1
    <3>1. k - 1 \in S /\ k - 1 \in 1 .. Elems(c)
      BY <1>1, <2>2
    <3>2. f[k - 1] \in Nat /\ Units(c, k - 1) \in Nat \ {0}
      BY <3>1, UnitsParts
    <3>3. f[k - 1] % Units(c, k - 1) \in Nat
      BY <3>2, Remainders
    <3> QED BY <2>2, <3>2, <3>3 DEF Aligned
  <2> QED BY <2>1, <2>2
<1>4. ASSUME NEW f \in [S -> V], NEW g \in [S -> V], NEW k \in S,
             \A j \in S : rank[j] < rank[k] => f[j] = g[j]
      PROVE  Step(k, f) = Step(k, g)
  <2>1. CASE k = 1
    BY <2>1
  <2>2. CASE k # 1
    <3>1. k - 1 \in S /\ rank[k - 1] < rank[k]
      BY <1>1, <2>2
    <3>2. f[k - 1] = g[k - 1]
      BY <1>4, <3>1
    <3> QED BY <3>2
  <2> QED BY <2>1, <2>2
<1>5. Local(S, V, rank, step)
  <2> HIDE DEF S, V, Step, step, rank
  <2>1. \A f \in [S -> V], k \in S : step[<<k, f>>] \in V
    BY <1>2, <1>3
  <2>2. ASSUME NEW f \in [S -> V], NEW g \in [S -> V], NEW k \in S,
               \A j \in S : rank[j] < rank[k] => f[j] = g[j]
        PROVE  step[<<k, f>>] = step[<<k, g>>]
    <3>1. step[<<k, f>>] = Step(k, f) /\ step[<<k, g>>] = Step(k, g)
      BY <1>2
    <3>2. Step(k, f) = Step(k, g)
      BY <1>4, <2>2
    <3> QED BY <3>1, <3>2
  <2> QED BY <2>1, <2>2 DEF Local
<1>6. PICK f : Solves(f, S, V, step)
  <2>1. 0 \in V
    OBVIOUS
  <2> HIDE DEF S, V, rank, step
  <2> QED BY <1>1, <1>5, <2>1, Recursion
<1>7. f \in [S -> V] /\ \A k \in S : f[k] = Step(k, f)
  <2> HIDE DEF S, V, Step, step
  <2> QED BY <1>2, <1>6 DEF Solves
<1>8. f = [k \in S |-> Step(k, f)]
  <2> HIDE DEF S, V, Step, step
  <2> QED BY <1>7
<1> DEFINE ends == CHOOSE g : g = [k \in S |-> Step(k, g)]
<1>9. ends = [k \in S |-> Step(k, ends)]
  <2> HIDE DEF S, Step
  <2> QED BY <1>8
<1>10. 1 + TableElements(c) + Len(program.fields[c]) = 1 + Elems(c)
  <2> HIDE DEF S, Step, step, ends
  <2> DEFINE x == Len(program.fields[c])  y == TableElements(c)
  <2>1. x \in Nat /\ y \in Nat
    BY Counts
  <2> HIDE DEF x, y
  <2>2. 1 + y + x = 1 + (y + x)
    BY <2>1
  <2> QED BY <2>2 DEF Elems, x, y
<1>11. Elements(c) = ends
  BY <1>10 DEF Elements
<1> HIDE DEF ends, step
<1>12. ASSUME NEW k \in S PROVE ends[k] = Step(k, ends)
  <2> HIDE DEF Step, S
  <2> QED BY <1>9
<1> DEFINE T == {k \in Nat : k \in S /\ ends[k] \notin Nat}
<1>13. T = {}
  <2> SUFFICES ASSUME T # {} PROVE FALSE
    OBVIOUS
  <2>1. PICK k \in T : \A y \in T : ~ (y < k)
    <3>1. T \in SUBSET Nat
      OBVIOUS
    <3> HIDE DEF T
    <3> QED BY <3>1, NatMin
  <2>2. k \in S /\ ends[k] = Step(k, ends)
    BY <1>12, <2>1
  <2>3. k # 1
    BY <2>1, <2>2
  <2>4. k - 1 \in S /\ k - 1 \in 1 .. Elems(c) /\ k - 1 < k /\ k - 1 \in Nat
    BY <1>1, <2>2, <2>3
  <2>5. ends[k - 1] \in Nat
    BY <2>1, <2>4
  <2>6. Units(c, k - 1) \in Nat \ {0}
    BY <2>4, UnitsParts
  <2>7. ends[k - 1] % Units(c, k - 1) \in Nat
    BY <2>5, <2>6, Remainders
  <2>8. ends[k] \in Nat
    BY <2>2, <2>3, <2>5, <2>6, <2>7 DEF Aligned
  <2> QED BY <2>1, <2>8
<1>14. \A k \in S : ends[k] \in Nat
  BY <1>13
<1>15. ends \in [S -> Nat]
  <2> HIDE DEF Step, S, T
  <2> QED BY <1>9, <1>14
<1>16. ends[1] = 0
  <2>1. 1 \in S
    BY <1>1
  <2> QED BY <1>12, <2>1
<1>17. ASSUME NEW k \in 1 .. Elems(c) PROVE ends[k + 1] = Aligned(ends[k], Units(c, k)) + Units(c, k)
  <2>1. k + 1 \in S /\ k + 1 # 1 /\ (k + 1) - 1 = k
    BY <1>1
  <2>2. ends[k + 1] = Step(k + 1, ends)
    BY <1>12, <2>1
  <2> QED BY <2>1, <2>2
<1> QED BY <1>11, <1>15, <1>16, <1>17

(* The elements of a class end one behind the other, each at a multiple of *)
(* its width; a class begins with something as big as its superclass.      *)
SuperOK(c) == SuperSize(c) \in Nat /\ SuperSize(c) >= 2 /\ SuperSize(c) % 2 = 0
LayoutOK(c) ==
  /\ elements[c] \in [1 .. 1 + Elems(c) -> Nat]
  /\ elements[c][1] = 0
  /\ \A k \in 1 .. Elems(c) : elements[c][k + 1] = Aligned(elements[c][k], Units(c, k)) + Units(c, k)
  /\ extending(c) # NoClass => elements[extending(c)] # NotDone
  /\ SuperOK(c)

(* The pointers stand behind the superclass, and the fields behind these,  *)
(* none before the one that precedes it.                                   *)
LEMMA LayoutParts ==
  ASSUME ProgramOK, NEW c \in Class, LayoutOK(c)
  PROVE  /\ \A k \in 1 .. 1 + Elems(c) : elements[c][k] \in Nat
         /\ \A k \in 1 .. Elems(c) :
              /\ Units(c, k) \in Nat \ {0} /\ Start(c, k) \in Nat
              /\ elements[c][k] <= Start(c, k) /\ elements[c][k + 1] = Start(c, k) + Units(c, k)
         /\ \A j, k \in 1 .. 1 + Elems(c) : j <= k => elements[c][j] <= elements[c][k]
         /\ Start(c, 1) = 0
         /\ \A k \in 1 .. TableElements(c) : elements[c][k + 1] = SuperSize(c) + 2 * (k - 1)
         /\ \A k \in 2 .. TableElements(c) : Start(c, k) = SuperSize(c) + 2 * (k - 2)
         /\ Size(c) \in Nat /\ Size(c) % 2 = 0 /\ Size(c) >= SuperSize(c)
         /\ \A k \in 1 .. 1 + Elems(c) : elements[c][k] <= Size(c)
<1> DEFINE E == elements[c]  n == Elems(c)  m == TableElements(c)  S == SuperSize(c)
           U(k) == Units(c, k)
<1>1. /\ E \in [1 .. 1 + n -> Nat] /\ E[1] = 0
      /\ \A k \in 1 .. n : E[k + 1] = Aligned(E[k], U(k)) + U(k)
      /\ S \in Nat /\ S >= 2 /\ S % 2 = 0
  BY DEF LayoutOK, SuperOK
<1>2. n \in Nat /\ m \in Nat /\ m >= 1 /\ n >= m
  BY Counts
<1>3. /\ U(1) = S /\ \A k \in 2 .. m : U(k) = 2
      /\ \A k \in 1 .. n : U(k) \in Nat \ {0}
  BY <1>1, UnitsParts DEF SuperOK
<1>4. \A k \in 1 .. n : Start(c, k) = E[k + 1] - U(k)
  BY DEF Start
<1> HIDE DEF E, n, m, S, U
<1>5. \A k \in 1 .. 1 + n : E[k] \in Nat
  BY <1>1
<1>6. ASSUME NEW k \in 1 .. n
      PROVE  U(k) \in Nat \ {0} /\ Start(c, k) \in Nat /\ E[k] <= Start(c, k) /\ E[k + 1] = Start(c, k) + U(k)
  <2>1. k \in 1 .. 1 + n /\ k + 1 \in 1 .. 1 + n
    BY <1>2
  <2>2. E[k] \in Nat /\ E[k + 1] \in Nat /\ U(k) \in Nat \ {0}
    BY <1>3, <1>5, <2>1
  <2>3. E[k] % U(k) \in Nat
    BY <2>2, Remainders
  <2>4. E[k + 1] = E[k] + (E[k] % U(k)) + U(k)
    BY <1>1 DEF Aligned
  <2> QED BY <1>4, <2>2, <2>3, <2>4
<1>7. ASSUME NEW j \in 1 .. 1 + n, NEW k \in 1 .. 1 + n, j <= k PROVE E[j] <= E[k]
  <2> DEFINE T == {i \in Nat : i \in j .. 1 + n /\ ~ (E[j] <= E[i])}
  <2>1. T = {}
    <3> SUFFICES ASSUME T # {} PROVE FALSE
      OBVIOUS
    <3>1. PICK i \in T : \A y \in T : ~ (y < i)
      <4>1. T \in SUBSET Nat
        OBVIOUS
      <4> HIDE DEF T
      <4> QED BY <4>1, NatMin
    <3>2. i \in j .. 1 + n /\ i \in 1 .. 1 + n /\ ~ (E[j] <= E[i]) /\ E[i] \in Nat /\ E[j] \in Nat
      BY <1>2, <1>5, <3>1
    <3>3. i # j
      BY <3>2
    <3>4. i - 1 \in Nat /\ i - 1 \in j .. 1 + n /\ i - 1 \in 1 .. n /\ i - 1 < i /\ i - 1 \in 1 .. 1 + n
      BY <1>2, <3>2, <3>3
    <3>5. E[j] <= E[i - 1]
      BY <3>1, <3>4
    <3> DEFINE h == i - 1
    <3>6. U(h) \in Nat \ {0} /\ Start(c, h) \in Nat /\ E[h] <= Start(c, h) /\ E[h + 1] = Start(c, h) + U(h)
      BY <1>6, <3>4
    <3>7. h + 1 = i /\ E[h] \in Nat
      BY <1>5, <3>2, <3>4
    <3> QED BY <3>2, <3>5, <3>6, <3>7
  <2>2. k \in Nat /\ k \in j .. 1 + n
    BY <1>2, <1>7
  <2> QED BY <2>1, <2>2
<1>8. E[2] = S /\ Start(c, 1) = 0
  <2>1. 1 \in 1 .. n /\ 1 + 1 = 2
    BY <1>2
  <2>2. E[1 + 1] = Aligned(E[1], U(1)) + U(1)
    BY <1>1, <2>1
  <2>3. 0 % S = 0
    BY <1>1, Remainders
  <2>4. E[2] = S
    BY <1>1, <1>3, <2>1, <2>2, <2>3 DEF Aligned
  <2>5. Start(c, 1) = E[1 + 1] - U(1)
    BY <1>4, <2>1
  <2> QED BY <1>1, <1>3, <2>1, <2>4, <2>5
<1>9. ASSUME NEW k \in 1 .. m PROVE E[k + 1] = S + 2 * (k - 1)
  <2> DEFINE Good(i) == E[i + 1] = S + 2 * (i - 1) /\ E[i + 1] % 2 = 0
             T == {i \in Nat : i \in 1 .. m /\ ~ Good(i)}
  <2>1. T = {}
    <3> SUFFICES ASSUME T # {} PROVE FALSE
      OBVIOUS
    <3>1. PICK i \in T : \A y \in T : ~ (y < i)
      <4>1. T \in SUBSET Nat
        OBVIOUS
      <4> HIDE DEF T
      <4> QED BY <4>1, NatMin
    <3>2. i \in 1 .. m /\ ~ Good(i)
      BY <3>1
    <3>3. i # 1
      <4>1. Good(1)
        BY <1>1, <1>8
      <4> QED BY <3>2, <4>1
    <3>4. i - 1 \in Nat /\ i - 1 \in 1 .. m /\ i - 1 < i /\ (i - 1) + 1 = i /\ i \in 2 .. m /\ i \in 1 .. n
      BY <1>2, <3>2, <3>3
    <3>5. Good(i - 1)
      <4> HIDE DEF Good
      <4> QED BY <3>1, <3>4
    <3>6. E[i] = S + 2 * ((i - 1) - 1) /\ E[i] % 2 = 0
      BY <3>4, <3>5
    <3>7. E[i + 1] = Aligned(E[i], 2) + 2
      BY <1>1, <1>3, <3>4
    <3>8. E[i] \in Nat
      BY <1>2, <1>5, <3>4
    <3>9. E[i + 1] = E[i] + 2
      BY <3>6, <3>7, <3>8 DEF Aligned
    <3>10. E[i + 1] % 2 = 0
      BY <3>6, <3>8, <3>9, Remainders
    <3>11. E[i + 1] = S + 2 * (i - 1)
      BY <1>1, <3>4, <3>6, <3>9
    <3> QED BY <3>2, <3>10, <3>11
  <2>2. k \in Nat
    BY <1>2
  <2>3. Good(k)
    <3> HIDE DEF Good
    <3> QED BY <2>1, <2>2
  <2> QED BY <2>3
<1>10. ASSUME NEW k \in 2 .. m PROVE Start(c, k) = S + 2 * (k - 2)
  <2>1. k \in 1 .. m /\ k \in 1 .. n
    BY <1>2
  <2>2. E[k + 1] = S + 2 * (k - 1) /\ U(k) = 2 /\ Start(c, k) = E[k + 1] - U(k)
    BY <1>3, <1>4, <1>9, <2>1
  <2> QED BY <1>1, <2>1, <2>2
<1>11. Len(E) = 1 + n
  <2>1. 1 + n \in Nat
    BY <1>2
  <2> QED BY <1>1, <2>1
<1>12. Size(c) = E[1 + n] + (E[1 + n] % 2)
  BY <1>11 DEF Size, Aligned, E
<1>13. /\ Size(c) \in Nat /\ Size(c) % 2 = 0 /\ E[1 + n] <= Size(c)
  <2>1. E[1 + n] \in Nat
    BY <1>2, <1>5
  <2> QED BY <1>12, <2>1, Remainders
<1>14. \A k \in 1 .. 1 + n : E[k] <= Size(c)
  <2> SUFFICES ASSUME NEW k \in 1 .. 1 + n PROVE E[k] <= Size(c)
    OBVIOUS
  <2>1. 1 + n \in 1 .. 1 + n /\ k <= 1 + n /\ E[k] \in Nat /\ E[1 + n] \in Nat
    BY <1>2, <1>5
  <2>2. E[k] <= E[1 + n]
    BY <1>7, <2>1
  <2> QED BY <1>13, <2>1, <2>2
<1>15. Size(c) >= S
  <2>1. 2 \in 1 .. 1 + n
    BY <1>2
  <2> QED BY <1>1, <1>8, <1>13, <1>14, <2>1
<1> QED BY <1>5, <1>6, <1>7, <1>8, <1>9, <1>10, <1>13, <1>14, <1>15 DEF E, n, m, S, U

LEMMA SuperOKWhenReady ==
  ASSUME ProgramOK, NEW c \in Class, extending(c) # NoClass => LayoutOK(extending(c))
  PROVE  SuperOK(c)
<1>1. CASE extending(c) = NoClass
  <2>1. SuperSize(c) = 2
    BY <1>1 DEF SuperSize
  <2> QED BY <2>1 DEF SuperOK
<1>2. CASE extending(c) # NoClass
  <2> DEFINE e == extending(c)
  <2>1. e \in Class /\ SuperSize(c) = Size(e) /\ LayoutOK(e)
    BY <1>2, ProgramParts DEF SuperSize, Or
  <2> HIDE DEF e
  <2>2. Size(e) \in Nat /\ Size(e) % 2 = 0 /\ Size(e) >= SuperSize(e)
    BY <2>1, LayoutParts
  <2>3. SuperSize(e) \in Nat /\ SuperSize(e) >= 2
    BY <2>1 DEF LayoutOK, SuperOK
  <2> QED BY <2>1, <2>2, <2>3 DEF SuperOK
<1> QED BY <1>1, <1>2

-----------------------------------------------------------------------------
(* The phases of the compilation, and the tables of methods they begin     *)
(* with.                                                                   *)
Phase == {"part", "generate", "overrides", "construct", "ready", "refused"}

(* What generatePart has made of a class stands, as its superclass's does; *)
(* the phases after it find every class made.                              *)
PartInv ==
  /\ ProgramOK /\ pc \in Phase
  /\ rec \in [Class -> Seq(Seq(Func))]
  /\ \A c \in Class : rec[c] # NotDone => RecOK(c) /\ LayoutOK(c)
  /\ elements = [c \in Class |-> elements[c]]
  /\ \A c \in Class : elements[c] # NotDone <=> rec[c] # NotDone
  /\ pc # "part" => \A c \in Class : rec[c] # NotDone

(* The program is the same throughout, and what has been made of it stays. *)
LEMMA InitPart ==
  ASSUME Init
  PROVE  PartInv
<1>1. <<>> \in Seq(Seq(Func))
  OBVIOUS
<1>2. rec = [c \in Class |-> <<>>] /\ elements = [c \in Class |-> <<>>] /\ pc = "part" /\ program \in Programs
  BY DEF Init, NotDone
<1>3. /\ rec \in [Class -> Seq(Seq(Func))] /\ elements = [c \in Class |-> elements[c]]
      /\ \A c \in Class : elements[c] = rec[c] /\ rec[c] = NotDone
  BY <1>1, <1>2 DEF NotDone
<1> QED BY <1>2, <1>3 DEF PartInv, ProgramOK, Phase

LEMMA Frame ==
  ASSUME program' = program
  PROVE  /\ declared' = declared /\ superTypes' = superTypes
         /\ \A c : extending(c)' = extending(c) /\ implementing(c)' = implementing(c)
         /\ ProgramOK' <=> ProgramOK
<1>1. \A c : extending(c)' = extending(c) /\ implementing(c)' = implementing(c)
  BY DEF extending, implementing
<1>2. declared' = declared
  BY <1>1 DEF declared, extending
<1>3. superTypes' = superTypes
  BY <1>1 DEF superTypes, extending
<1> QED BY <1>1, <1>2, <1>3 DEF ProgramOK

LEMMA NextProgram ==
  ASSUME [Next]_vars
  PROVE  program' = program
BY DEF Next, vars, GeneratePart, Generate, NewObject, Overriding, MakeTables, TablesRefused, CallSuper, Construct,
       Call, Ended

LEMMA LayoutFrame ==
  ASSUME program' = program, NEW c,
         elements'[c] = elements[c], extending(c) # NoClass => elements'[extending(c)] = elements[extending(c)]
  PROVE  /\ LayoutOK(c)' <=> LayoutOK(c)
         /\ SuperSize(c)' = SuperSize(c) /\ Elems(c)' = Elems(c) /\ TableElements(c)' = TableElements(c)
         /\ \A k : Units(c, k)' = Units(c, k)
<1>1. extending(c)' = extending(c) /\ implementing(c)' = implementing(c)
  BY Frame
<1>2. TableElements(c)' = TableElements(c) /\ Elems(c)' = Elems(c)
  BY <1>1 DEF TableElements, Elems
<1>3. SuperSize(c)' = SuperSize(c)
  BY <1>1 DEF SuperSize, Size
<1>4. \A k : Units(c, k)' = Units(c, k)
  BY <1>2, <1>3 DEF Units
<1>5. SuperOK(c)' <=> SuperOK(c)
  BY <1>3 DEF SuperOK
<1>6. LayoutOK(c)' <=> LayoutOK(c)
  BY <1>1, <1>2, <1>4, <1>5 DEF LayoutOK, Aligned, NotDone
<1> QED BY <1>2, <1>3, <1>4, <1>6

LEMMA PartFrame ==
  ASSUME PartInv, program' = program, rec' = rec, elements' = elements, pc' \in Phase,
         pc' # "part" => pc # "part"
  PROVE  PartInv'
<1>1. \A c \in Class : (RecOK(c)' <=> RecOK(c)) /\ (LayoutOK(c)' <=> LayoutOK(c))
  BY Frame, LayoutFrame DEF RecOK, NotDone
<1>2. /\ ProgramOK /\ pc \in Phase
      /\ rec \in [Class -> Seq(Seq(Func))]
      /\ \A c \in Class : rec[c] # NotDone => RecOK(c) /\ LayoutOK(c)
      /\ elements = [c \in Class |-> elements[c]]
      /\ \A c \in Class : elements[c] # NotDone <=> rec[c] # NotDone
      /\ pc # "part" => \A c \in Class : rec[c] # NotDone
  BY DEF PartInv
<1>3. ProgramOK'
  BY <1>2, Frame
<1>4. elements' = [c \in Class |-> elements'[c]]
  BY <1>2
<1>5. \A c \in Class : elements'[c] # NotDone <=> rec'[c] # NotDone
  BY <1>2
<1>6. pc' # "part" => \A c \in Class : rec'[c] # NotDone
  BY <1>2
<1>7. \A c \in Class : rec'[c] # NotDone => RecOK(c)' /\ LayoutOK(c)'
  BY <1>1, <1>2
<1> QED BY <1>2, <1>3, <1>4, <1>5, <1>6, <1>7 DEF PartInv, NotDone

LEMMA GeneratePartPart ==
  ASSUME PartInv, NEW c \in Class, GeneratePart(c)
  PROVE  PartInv'
<1>1. /\ ProgramOK /\ pc \in Phase
      /\ rec \in [Class -> Seq(Seq(Func))]
      /\ \A d \in Class : rec[d] # NotDone => RecOK(d) /\ LayoutOK(d)
      /\ elements = [d \in Class |-> elements[d]]
      /\ \A d \in Class : elements[d] # NotDone <=> rec[d] # NotDone
  BY DEF PartInv
<1>2. /\ pc = "part" /\ Ready(c, elements)
      /\ elements' = [elements EXCEPT ![c] = Elements(c)]
      /\ rec' = [rec EXCEPT ![c] = FuncsRec(c)]
      /\ pc' = IF AllBut(c, elements) THEN "generate" ELSE "part"
      /\ program' = program
  BY DEF GeneratePart
<1> DEFINE e == extending(c)
           r == FuncsRec(c)
<1>3. e \in Or(Class) /\ rec[c] = NotDone /\ (e # NoClass => e \in Class /\ rec[e] # NotDone /\ RecOK(e) /\ LayoutOK(e))
  BY <1>1, <1>2, ProgramParts DEF Ready, Or
<1>4. /\ r \in Seq(Seq(Func)) /\ Len(r) >= 1 /\ r[1] = declared[c]
      /\ \A i \in 2 .. Len(r) : r[i] \in Seq(InterfaceFunc)
      /\ e # NoClass => Len(rec[e]) <= Len(r)
  BY <1>1, <1>3, FuncsRecParts
<1>5. r # NotDone
  BY <1>4 DEF NotDone
<1>6. Elements(c) # NotDone
  <2>1. SuperOK(c)
    BY <1>1, <1>3, SuperOKWhenReady
  <2>2. DOMAIN Elements(c) = 1 .. 1 + Elems(c) /\ Elems(c) \in Nat
    BY <1>1, <2>1, ElementsEquation, Counts DEF SuperOK
  <2>3. 1 \in 1 .. 1 + Elems(c) /\ DOMAIN NotDone = {}
    BY <2>2 DEF NotDone
  <2> QED BY <2>2, <2>3
<1> HIDE DEF r, e
<1>7. \A d \in Class : rec'[d] = IF d = c THEN r ELSE rec[d]
  BY <1>1, <1>2 DEF r
<1>8. rec' \in [Class -> Seq(Seq(Func))]
  BY <1>1, <1>2, <1>4 DEF r
<1>9. /\ \A d \in Class : elements'[d] = IF d = c THEN Elements(c) ELSE elements[d]
      /\ elements' = [d \in Class |-> elements'[d]]
  <2> HIDE DEF Elements
  <2> QED BY <1>1, <1>2
<1>10. ASSUME NEW d \in Class, rec'[d] # NotDone PROVE RecOK(d)'
  <2>1. declared' = declared /\ extending(d)' = extending(d) /\ extending(d) \in Or(Class)
    BY <1>1, <1>2, Frame, ProgramParts
  <2>2. CASE d = c
    <3>1. rec'[c] = r
      BY <1>7
    <3>2. e # NoClass => rec'[e] = rec[e] \/ rec'[e] = r
      BY <1>3, <1>7
    <3>3. rec'[c] \in Seq(Seq(Func)) /\ Len(rec'[c]) >= 1 /\ rec'[c][1] = declared[c]
      BY <1>4, <3>1
    <3>4. \A i \in 2 .. Len(rec'[c]) : rec'[c][i] \in Seq(InterfaceFunc)
      BY <1>4, <3>1
    <3>5. e # NoClass => rec'[e] # NotDone /\ Len(rec'[e]) <= Len(rec'[c])
      <4>1. Len(r) \in Nat
        BY <1>4
      <4> QED BY <1>3, <1>4, <1>5, <3>1, <3>2, <4>1
    <3> QED BY <2>1, <2>2, <3>3, <3>4, <3>5 DEF RecOK, e, NotDone
  <2>3. CASE d # c
    <3>1. rec'[d] = rec[d] /\ RecOK(d)
      BY <1>1, <1>7, <1>10, <2>3
    <3>2. extending(d) # NoClass => rec'[extending(d)] = rec[extending(d)]
      BY <1>3, <1>7, <2>1, <3>1 DEF RecOK, Or
    <3>3. rec'[d] \in Seq(Seq(Func)) /\ Len(rec'[d]) >= 1 /\ rec'[d][1] = declared[d]
      BY <3>1 DEF RecOK
    <3>4. \A i \in 2 .. Len(rec'[d]) : rec'[d][i] \in Seq(InterfaceFunc)
      BY <3>1 DEF RecOK
    <3>5. extending(d) # NoClass => rec'[extending(d)] # NotDone /\ Len(rec'[extending(d)]) <= Len(rec'[d])
      BY <3>1, <3>2 DEF RecOK
    <3> QED BY <2>1, <3>3, <3>4, <3>5 DEF RecOK, NotDone
  <2> QED BY <2>2, <2>3
<1>14. ASSUME NEW d \in Class, rec'[d] # NotDone PROVE LayoutOK(d)'
  <2>1. extending(d) \in Or(Class)
    BY <1>1, ProgramParts
  <2>2. CASE d = c
    <3>1. SuperOK(c)
      BY <1>1, <1>3, SuperOKWhenReady DEF e
    <3>2. /\ Elements(c) \in [1 .. 1 + Elems(c) -> Nat] /\ Elements(c)[1] = 0
          /\ \A k \in 1 .. Elems(c) : Elements(c)[k + 1] = Aligned(Elements(c)[k], Units(c, k)) + Units(c, k)
      BY <1>1, <3>1, ElementsEquation DEF SuperOK
    <3>3. e # NoClass => e # c /\ e \in Class
      BY <1>3
    <3>4. elements'[c] = Elements(c) /\ (e # NoClass => elements'[e] = elements[e])
      <4> HIDE DEF Elements
      <4> QED BY <1>9, <3>3
    <3>5. extending(c)' = e /\ implementing(c)' = implementing(c)
      BY <1>2, Frame DEF e
    <3>6. TableElements(c)' = TableElements(c) /\ Elems(c)' = Elems(c)
      BY <1>2, <3>5 DEF TableElements, Elems
    <3>7. SuperSize(c)' = SuperSize(c)
      BY <3>4, <3>5 DEF SuperSize, Size, e
    <3>8. \A k : Units(c, k)' = Units(c, k)
      BY <1>2, <3>6, <3>7 DEF Units
    <3>9. SuperOK(c)'
      BY <3>1, <3>7 DEF SuperOK
    <3>10. e # NoClass => elements'[e] # NotDone
      BY <1>1, <1>3, <3>4
    <3> HIDE DEF Elements
    <3> QED BY <2>2, <3>2, <3>4, <3>5, <3>6, <3>8, <3>9, <3>10 DEF LayoutOK, Aligned, NotDone
  <2>3. CASE d # c
    <3>1. rec'[d] = rec[d] /\ LayoutOK(d)
      BY <1>1, <1>7, <1>14, <2>3
    <3>2. elements'[d] = elements[d]
      BY <1>9, <2>3
    <3>3. extending(d) # NoClass => extending(d) # c /\ extending(d) \in Class
      BY <1>1, <1>3, <2>1, <3>1 DEF LayoutOK, Or
    <3>4. extending(d) # NoClass => elements'[extending(d)] = elements[extending(d)]
      BY <1>9, <3>3
    <3> QED BY <1>2, <3>1, <3>2, <3>4, LayoutFrame
  <2> QED BY <2>2, <2>3
<1>11. \A d \in Class : elements'[d] # NotDone <=> rec'[d] # NotDone
  BY <1>1, <1>5, <1>6, <1>7, <1>9
<1>12. pc' \in Phase /\ (pc' # "part" => \A d \in Class : rec'[d] # NotDone)
  BY <1>1, <1>2, <1>5, <1>7 DEF AllBut, Phase
<1>13. ProgramOK'
  BY <1>1, <1>2, Frame
<1> QED BY <1>8, <1>9, <1>10, <1>11, <1>12, <1>13, <1>14 DEF PartInv, NotDone

LEMMA NextPart ==
  ASSUME PartInv, [Next]_vars
  PROVE  PartInv'
<1>1. program' = program
  BY NextProgram
<1>2. ASSUME NEW c \in Class, GeneratePart(c) PROVE PartInv'
  BY <1>2, GeneratePartPart
<1>3. ASSUME NEW c \in Class, Generate(c) PROVE PartInv'
  <2>1. rec' = rec /\ elements' = elements /\ pc' = "overrides" /\ pc = "generate"
    BY <1>3 DEF Generate
  <2> QED BY <1>1, <2>1, PartFrame DEF Phase
<1>4. CASE UNCHANGED vars
  <2>1. rec' = rec /\ elements' = elements /\ pc' = pc
    BY <1>4 DEF vars, compileVars
  <2> QED BY <1>1, <2>1, PartFrame DEF PartInv
<1>5. ASSUME NEW c \in Class, NewObject(c) PROVE PartInv'
  <2>1. rec' = rec /\ elements' = elements /\ pc' = pc
    BY <1>5 DEF NewObject, compileVars
  <2> QED BY <1>1, <2>1, PartFrame DEF PartInv
<1>6. ASSUME Overriding PROVE PartInv'
  <2>1. rec' = rec /\ elements' = elements /\ pc' = pc
    BY <1>6 DEF Overriding
  <2> QED BY <1>1, <2>1, PartFrame DEF PartInv
<1>7. ASSUME MakeTables PROVE PartInv'
  <2>1. rec' = rec /\ elements' = elements /\ pc = "overrides" /\ pc' \in {"construct", "generate"}
    BY <1>7 DEF MakeTables
  <2> QED BY <1>1, <2>1, PartFrame DEF Phase
<1>8. ASSUME TablesRefused PROVE PartInv'
  <2>1. rec' = rec /\ elements' = elements /\ pc = "overrides" /\ pc' = "refused"
    BY <1>8 DEF TablesRefused
  <2> QED BY <1>1, <2>1, PartFrame DEF Phase
<1>9. ASSUME CallSuper PROVE PartInv'
  <2>1. rec' = rec /\ elements' = elements /\ pc' = pc
    BY <1>9 DEF CallSuper, compileVars
  <2> QED BY <1>1, <2>1, PartFrame DEF PartInv
<1>10. ASSUME Construct PROVE PartInv'
  <2>1. rec' = rec /\ elements' = elements /\ pc = "construct" /\ pc' \in {"ready", "construct"}
    BY <1>10 DEF Construct
  <2> QED BY <1>1, <2>1, PartFrame DEF Phase
<1>11. ASSUME NEW c \in Class, NEW n \in Name, NEW a \in 0 .. 1, Call(c, n, a) PROVE PartInv'
  <2>1. rec' = rec /\ elements' = elements /\ pc' = pc
    BY <1>11 DEF Call, compileVars
  <2> QED BY <1>1, <2>1, PartFrame DEF PartInv
<1>12. ASSUME Ended PROVE PartInv'
  BY <1>4, <1>12 DEF Ended
<1> QED BY <1>2, <1>3, <1>4, <1>5, <1>6, <1>7, <1>8, <1>9, <1>10, <1>11, <1>12 DEF Next

(***************************************************************************)
(* The classes are laid out, and their lists of methods made, in the order *)
(* of their superclasses: each list begins with what is declared, and the  *)
(* pointers stand behind the superclass (Class::generatePart).             *)
(***************************************************************************)
THEOREM PartsMade == Spec => []PartInv
<1>1. Init => PartInv
  BY InitPart
<1>2. PartInv /\ [Next]_vars => PartInv'
  BY NextPart
<1> QED BY <1>1, <1>2, PTL DEF Spec

-----------------------------------------------------------------------------
(* The loop over the methods.  R holds the places, in the list it began    *)
(* with, of the methods that it has removed.                               *)
Once(D) == D \in Seq(Func) /\ \A j, k \in 1 .. Len(D) : D[j] = D[k] => j = k

(* What erase has left of the list D: in front what is not in R, in order, *)
(* and behind the new end copies of its last method.                       *)
Shrunk(f, s, D, R) ==
  /\ R \subseteq 1 .. Len(D) /\ f \in Seq(Func) /\ Len(f) = Len(D) /\ s = Rank(R, Len(D))
  /\ \A k \in 1 .. Len(D) : k \notin R => f[Rank(R, k)] = D[k]
  /\ \A j \in 1 .. Len(D) : j > s => f[j] = D[Len(D)]

(* The overrides taken so far are the methods at R, in the order of D; the *)
(* last one may have been taken twice.                                     *)
Took(o, D, R) ==
  /\ o \in Seq(Func)
  /\ \A m \in 1 .. Len(o) : \E k \in R : o[m] = D[k]
  /\ \A k \in R : \E m \in 1 .. Len(o) : o[m] = D[k]
  /\ \A l, m \in 1 .. Len(o) : \A j, k \in R : l <= m /\ o[l] = D[j] /\ o[m] = D[k] => j <= k

\* The loop is at the b-th method, or behind the end of what is left.
At(i, D, R, b) == b - 1 \notin Removed(D) /\ R = Removed(D) \cap (1 .. b - 1) /\ i = Rank(R, b)
Behind(i, s, D, R) ==
  /\ i \in Nat /\ s < i /\ i <= Len(D) + 1
  /\ R = Removed(D) \/ (Len(D) \in Overrides(D) /\ R = Removed(D) \cup {Len(D)})
  /\ Len(D) \in Overrides(D) /\ Len(D) \notin R => i = s + 1 /\ s < Len(D)
Looking(i, s, D, R) == (\E b \in 1 .. Len(D) : At(i, D, R, b)) \/ Behind(i, s, D, R)

LEMMA RankAt ==
  ASSUME NEW R, NEW n \in Nat, NEW k \in 1 .. n, k \notin R
  PROVE  /\ Rank(R, k) \in 1 .. Rank(R, n) /\ Rank(R, n) \in Nat /\ Rank(R, n) <= n
         /\ \A j \in 1 .. n : j < k => Rank(R, j) < Rank(R, k)
<1>1. 0 \in Nat /\ k \in Nat /\ 0 < k /\ k <= n
  OBVIOUS
<1>2. Rank(R, 0) = 0 /\ Rank(R, 0) < Rank(R, k) /\ Rank(R, k) \in Nat
  BY <1>1, RankParts, RankGrows
<1>3. Rank(R, k) <= Rank(R, n) /\ Rank(R, n) \in Nat /\ Rank(R, n) <= n
  BY <1>1, RankGrows
<1>4. ASSUME NEW j \in 1 .. n, j < k PROVE Rank(R, j) < Rank(R, k)
  <2>1. j \in Nat /\ j <= k
    BY <1>4
  <2> QED BY <1>1, <1>4, <2>1, RankGrows
<1> QED BY <1>2, <1>3, <1>4

LEMMA ShrinkOne ==
  ASSUME NEW D, Once(D), NEW R, Shrunk(full, size, D, R), NEW b \in 1 .. Len(D), b \notin R, Len(D) \notin R
  PROVE  /\ PlaceOf(D[b]) = {Rank(R, b)}
         /\ Shrunk(MovedUp(Rank(R, b)), size - 1, D, R \cup {b})
<1> DEFINE n == Len(D)  p == Rank(R, b)  Q == R \cup {b}  g == MovedUp(p)
<1>1. /\ D \in Seq(Func) /\ n \in Nat /\ \A j, k \in 1 .. n : D[j] = D[k] => j = k
      /\ R \subseteq 1 .. n /\ full \in Seq(Func) /\ Len(full) = n /\ size = Rank(R, n)
      /\ \A k \in 1 .. n : k \notin R => full[Rank(R, k)] = D[k]
      /\ \A j \in 1 .. n : j > size => full[j] = D[n]
  BY DEF Once, Shrunk
<1>2. p \in 1 .. size /\ size \in Nat /\ size <= n /\ n \in 1 .. n
  BY <1>1, RankAt
<1>3. DOMAIN full = 1 .. n
  BY <1>1
<1>4. PlaceOf(D[b]) = {p}
  <2>1. ASSUME NEW j \in 1 .. size, full[j] = D[b] PROVE j = p
    <3>1. PICK k \in 1 .. n : k \notin R /\ Rank(R, k) = j
      BY <1>1, RankOnto
    <3>2. D[k] = D[b]
      BY <1>1, <2>1, <3>1
    <3>3. k = b
      BY <1>1, <3>2
    <3> QED BY <3>1, <3>3
  <2> QED BY <1>1, <1>2, <2>1 DEF PlaceOf
<1> HIDE DEF n
<1>5. \A j \in 1 .. n : g[j] = IF j >= p /\ j < size THEN full[j + 1] ELSE full[j]
  BY <1>3 DEF MovedUp
<1>6. g \in Seq(Func) /\ Len(g) = n
  <2>1. \A j \in 1 .. n : full[j] \in Func
    BY <1>1
  <2>2. g = [j \in 1 .. n |-> IF j >= p /\ j < size THEN full[j + 1] ELSE full[j]]
    BY <1>3 DEF MovedUp
  <2>3. \A j \in 1 .. n : (IF j >= p /\ j < size THEN full[j + 1] ELSE full[j]) \in Func
    BY <1>1, <1>2, <2>1
  <2> HIDE DEF g, p
  <2> QED BY <1>1, <2>2, <2>3
<1> HIDE DEF g
<1>7. \A k \in Nat : Rank(Q, k) = IF k < b THEN Rank(R, k) ELSE Rank(R, k) - 1
  <2>1. b \in Nat \ {0}
    BY <1>1
  <2> QED BY <2>1, RankWithout
<1>8. size - 1 = Rank(Q, n)
  <2>1. n \in Nat /\ ~ (n < b)
    BY <1>1 DEF n
  <2> HIDE DEF Q
  <2>2. Rank(Q, n) = Rank(R, n) - 1
    BY <1>7, <2>1
  <2> QED BY <1>1, <2>2
<1>9. ASSUME NEW k \in 1 .. n, k \notin Q PROVE g[Rank(Q, k)] = D[k]
  <2>1. k \notin R /\ k # b /\ full[Rank(R, k)] = D[k] /\ k \in Nat /\ b \in Nat /\ b \in 1 .. n
    BY <1>1, <1>9 DEF n
  <2>2. Rank(R, k) \in 1 .. size
    BY <1>1, <2>1, RankAt
  <2>3. CASE k < b
    <3>1. Rank(R, k) < p
      BY <1>1, <2>1, <2>3, RankAt
    <3>2. Rank(Q, k) = Rank(R, k)
      BY <1>7, <2>1, <2>3
    <3> HIDE DEF p, Q
    <3> QED BY <1>2, <1>5, <2>1, <2>2, <3>1, <3>2
  <2>4. CASE b < k
    <3>1. p < Rank(R, k)
      BY <1>1, <2>1, <2>4, RankAt
    <3>2. Rank(Q, k) = Rank(R, k) - 1
      <4>1. k \in Nat /\ ~ (k < b)
        BY <2>1, <2>4
      <4> HIDE DEF Q, p
      <4> QED BY <1>7, <4>1
    <3> DEFINE i == Rank(R, k)
    <3>3. i - 1 \in 1 .. n /\ i - 1 >= p /\ i - 1 < size /\ (i - 1) + 1 = i
      BY <1>2, <2>2, <3>1
    <3> HIDE DEF p, Q, i
    <3>4. g[i - 1] = full[i]
      BY <1>5, <3>3
    <3> QED BY <2>1, <3>2, <3>4 DEF i
  <2> QED BY <2>1, <2>3, <2>4
<1>10. ASSUME NEW j \in 1 .. n, j > size - 1 PROVE g[j] = D[n]
  <2>1. g[j] = full[j]
    BY <1>2, <1>5, <1>10
  <2>2. CASE j = size
    <3>1. n \notin R
      BY DEF n
    <3> QED BY <1>1, <1>2, <2>1, <2>2, <3>1
  <2>3. CASE j > size
    BY <1>1, <2>1, <2>3
  <2> QED BY <1>2, <1>10, <2>2, <2>3
<1>11. Q \subseteq 1 .. n
  BY <1>1 DEF n
<1> HIDE DEF p, Q
<1>12. Shrunk(g, size - 1, D, Q)
  BY <1>6, <1>8, <1>9, <1>10, <1>11 DEF Shrunk, n
<1> QED BY <1>4, <1>12 DEF g, p, Q

(* A method that is removed is not found again.                            *)
LEMMA NotFound ==
  ASSUME NEW D, Once(D), NEW R, Shrunk(full, size, D, R), NEW b \in R
  PROVE  PlaceOf(D[b]) = {}
<1>1. /\ Len(D) \in Nat /\ \A j, k \in 1 .. Len(D) : D[j] = D[k] => j = k
      /\ R \subseteq 1 .. Len(D) /\ size = Rank(R, Len(D))
      /\ \A k \in 1 .. Len(D) : k \notin R => full[Rank(R, k)] = D[k]
  BY DEF Once, Shrunk
<1>2. ASSUME NEW j \in 1 .. size, full[j] = D[b] PROVE FALSE
  <2>1. PICK k \in 1 .. Len(D) : k \notin R /\ Rank(R, k) = j
    <3> DEFINE n == Len(D)
    <3>1. n \in Nat /\ j \in 1 .. Rank(R, n)
      BY <1>1
    <3> HIDE DEF n
    <3>2. \E k \in 1 .. n : k \notin R /\ Rank(R, k) = j
      BY <3>1, RankOnto
    <3> QED BY <3>2 DEF n
  <2>2. D[k] = D[b] /\ b \in 1 .. Len(D)
    BY <1>1, <1>2, <2>1
  <2>3. k = b
    BY <1>1, <2>2
  <2> QED BY <2>1, <2>3
<1> QED BY <1>2 DEF PlaceOf

LEMMA TookMore ==
  ASSUME NEW D, Once(D), NEW R \in SUBSET (1 .. Len(D)), NEW o, Took(o, D, R),
         NEW b \in 1 .. Len(D), \A k \in R : k <= b
  PROVE  Took(Append(o, D[b]), D, R \cup {b})
<1> DEFINE q == Append(o, D[b])  Q == R \cup {b}
<1>1. /\ D \in Seq(Func) /\ \A j, k \in 1 .. Len(D) : D[j] = D[k] => j = k
      /\ o \in Seq(Func) /\ D[b] \in Func
  BY DEF Once, Took
<1>2. /\ q \in Seq(Func) /\ Len(q) = Len(o) + 1 /\ Len(o) \in Nat
      /\ \A m \in 1 .. Len(o) : q[m] = o[m]
      /\ q[Len(o) + 1] = D[b]
  BY <1>1
<1> HIDE DEF q
<1>3. ASSUME NEW m \in 1 .. Len(q) PROVE \E k \in Q : q[m] = D[k]
  <2>1. m \in 1 .. Len(o) \/ m = Len(o) + 1
    BY <1>2
  <2>2. CASE m \in 1 .. Len(o)
    <3>1. PICK k \in R : o[m] = D[k]
      BY <2>2 DEF Took
    <3> QED BY <1>2, <2>2, <3>1
  <2>3. CASE m = Len(o) + 1
    BY <1>2, <2>3
  <2> QED BY <2>1, <2>2, <2>3
<1>4. ASSUME NEW k \in Q PROVE \E m \in 1 .. Len(q) : q[m] = D[k]
  <2>1. CASE k = b
    BY <1>2, <2>1
  <2>2. CASE k \in R
    <3>1. PICK m \in 1 .. Len(o) : o[m] = D[k]
      BY <2>2 DEF Took
    <3>2. m \in 1 .. Len(q) /\ q[m] = D[k]
      BY <1>2, <3>1
    <3> QED BY <3>2
  <2> QED BY <2>1, <2>2
<1>5. ASSUME NEW l \in 1 .. Len(q), NEW m \in 1 .. Len(q), NEW j \in Q, NEW k \in Q,
             l <= m, q[l] = D[j], q[m] = D[k]
      PROVE  j <= k
  <2>1. j \in 1 .. Len(D) /\ k \in 1 .. Len(D) /\ j <= b
    OBVIOUS
  <2>2. CASE k = b
    BY <2>1, <2>2
  <2>3. CASE k # b
    <3>1. m # Len(o) + 1
      BY <1>1, <1>2, <1>5, <2>1, <2>3
    <3>2. m \in 1 .. Len(o) /\ l \in 1 .. Len(o)
      BY <1>2, <1>5, <3>1
    <3>3. o[m] = D[k] /\ o[l] = D[j] /\ k \in R
      BY <1>2, <1>5, <2>3, <3>2
    <3>4. PICK i \in R : o[l] = D[i]
      BY <3>2 DEF Took
    <3>5. i = j
      BY <1>1, <2>1, <3>3, <3>4
    <3> QED BY <1>5, <3>2, <3>3, <3>4, <3>5 DEF Took
  <2> QED BY <2>2, <2>3
<1> HIDE DEF Q
<1>6. Took(q, D, Q)
  BY <1>2, <1>3, <1>4, <1>5 DEF Took
<1> QED BY <1>6 DEF q, Q

(* The state of the loop, whichever methods it has removed.                *)
Looped(D) ==
  \E R : Shrunk(full, size, D, R) /\ Took(overides, D, R) /\ Looking(index, size, D, R)

LEMMA LoopBegins ==
  ASSUME NEW D, Once(D)
  PROVE  \E R : Shrunk(D, Len(D), D, R) /\ Took(<<>>, D, R) /\ Looking(1, Len(D), D, R)
<1> DEFINE n == Len(D)
<1>1. D \in Seq(Func) /\ n \in Nat
  BY DEF Once
<1>2. \A k \in Nat : Rank({}, k) = k
  <2> TAKE k \in Nat
  <2>1. (1 .. k) \ {} = 1 .. k
    OBVIOUS
  <2>2. Cardinality(1 .. k) = k
    BY FS_Interval
  <2> QED BY <2>1, <2>2 DEF Rank
<1>3. Shrunk(D, n, D, {})
  BY <1>1, <1>2 DEF Shrunk
<1>4. Took(<<>>, D, {})
  BY DEF Took
<1>5. 0 \notin Removed(D) /\ Removed(D) \subseteq 1 .. n
  BY <1>1, RemovedParts
<1>6. Looking(1, n, D, {})
  <2>1. CASE n = 0
    <3>1. Removed(D) = {} /\ n \notin Overrides(D)
      <4>1. Overrides(D) \subseteq 1 .. n
        BY <1>1, RemovedParts
      <4> HIDE DEF n
      <4> QED BY <1>5, <2>1, <4>1
    <3> QED BY <2>1, <3>1 DEF Looking, Behind
  <2>2. CASE n # 0
    <3>1. 1 \in 1 .. n /\ 1 - 1 = 0 /\ 1 .. 0 = {} /\ Rank({}, 1) = 1
      BY <1>1, <1>2, <2>2
    <3>2. At(1, D, {}, 1)
      BY <1>5, <3>1 DEF At
    <3> QED BY <3>1, <3>2 DEF Looking
  <2> QED BY <2>1, <2>2
<1> QED BY <1>3, <1>4, <1>6

LEMMA LoopSteps ==
  ASSUME NEW D, Once(D), Looped(D), Overriding
  PROVE  Looped(D)'
<1> DEFINE n == Len(D)  T == Removed(D)
<1>1. PICK R : Shrunk(full, size, D, R) /\ Took(overides, D, R) /\ Looking(index, size, D, R)
  BY DEF Looped
<1>2. /\ D \in Seq(Func) /\ n \in Nat /\ \A j, k \in 1 .. n : D[j] = D[k] => j = k
      /\ R \subseteq 1 .. n /\ full \in Seq(Func) /\ Len(full) = n /\ size = Rank(R, n)
      /\ \A k \in 1 .. n : k \notin R => full[Rank(R, k)] = D[k]
      /\ \A j \in 1 .. n : j > size => full[j] = D[n]
  BY <1>1 DEF Once, Shrunk
<1>3. /\ T \subseteq 1 .. n
      /\ \A k \in 1 .. n : k \in T <=> k \in Overrides(D) /\ k - 1 \notin T
      /\ \A k \in 1 .. n : k \in Overrides(D) <=> D[k].kind = "override"
  BY <1>2, RemovedParts DEF Overrides
<1>4. /\ index <= n /\ index' = index + 1
      /\ IF full[index].kind = "override"
           THEN overides' = Append(overides, full[index]) /\ Erase(full[index])
           ELSE UNCHANGED <<overides, full, size>>
  BY <1>2 DEF Overriding
<1> DEFINE Done(Q) == Shrunk(full', size', D, Q) /\ Took(overides', D, Q) /\ Looking(index', size', D, Q)
<1>5. ASSUME NEW Q, Done(Q) PROVE Looped(D)'
  BY <1>5 DEF Looped
<1>6. ASSUME NEW b \in 1 .. n, At(index, D, R, b) PROVE Looped(D)'
  <2>1. b - 1 \notin T /\ R = T \cap (1 .. b - 1) /\ index = Rank(R, b) /\ b \notin R
    BY <1>6 DEF At
  <2>2. full[index] = D[b]
    BY <1>2, <2>1
  <2>3. b \in T <=> D[b].kind = "override"
    BY <1>3, <2>1
  <2>4. CASE D[b].kind # "override"
    <3>1. overides' = overides /\ full' = full /\ size' = size
      BY <1>4, <2>2, <2>4
    <3>2. R = T \cap (1 .. b)
      BY <2>1, <2>3, <2>4
    <3>3. Looking(index', size', D, R)
      <4>1. CASE b = n
        <5>1. R = T
          BY <1>3, <3>2, <4>1
        <5>2. index' = size + 1 /\ size <= n /\ size \in Nat
          BY <1>2, <1>4, <2>1, <4>1, RankAt
        <5>3. n \notin Overrides(D)
          BY <1>3, <2>4, <4>1
        <5> QED BY <1>2, <3>1, <5>1, <5>2, <5>3 DEF Looking, Behind
      <4>2. CASE b # n
        <5>1. b + 1 \in 1 .. n /\ (b + 1) - 1 = b /\ b + 1 \in Nat \ {0} /\ b + 1 \notin R
          BY <1>2, <2>1, <4>2
        <5>2. Rank(R, b + 1) = Rank(R, b) + 1
          BY <5>1, RankStep
        <5>3. At(index', D, R, b + 1)
          BY <1>4, <2>1, <2>3, <2>4, <3>2, <5>1, <5>2 DEF At
        <5> QED BY <5>1, <5>3 DEF Looking
      <4> QED BY <4>1, <4>2
    <3>4. Done(R)
      BY <1>1, <3>1, <3>3
    <3> QED BY <1>5, <3>4
  <2>5. CASE D[b].kind = "override"
    <3> DEFINE p == Rank(R, b)  Q == R \cup {b}
    <3>1. n \notin R
      BY <1>2, <2>1
    <3>2. PlaceOf(D[b]) = {p} /\ Shrunk(MovedUp(p), size - 1, D, Q)
      BY <1>1, <2>1, <3>1, ShrinkOne
    <3>3. overides' = Append(overides, D[b]) /\ full' = MovedUp(p) /\ size' = size - 1
      <4>1. overides' = Append(overides, D[b]) /\ Erase(D[b])
        BY <1>4, <2>2, <2>5
      <4> HIDE DEF p
      <4> QED BY <3>2, <4>1 DEF Erase
    <3>4. Took(overides', D, Q)
      <4>1. \A k \in R : k <= b
        BY <1>2, <2>1
      <4>2. R \in SUBSET (1 .. n)
        BY <1>2
      <4> QED BY <1>1, <3>3, <4>1, <4>2, TookMore
    <3>5. b \in T /\ Q = T \cap (1 .. b)
      BY <1>3, <2>1, <2>3, <2>5
    <3>6. \A k \in Nat : Rank(Q, k) = IF k < b THEN Rank(R, k) ELSE Rank(R, k) - 1
      <4>1. b \in Nat \ {0}
        BY <1>2
      <4> QED BY <2>1, <4>1, RankWithout
    <3>7. p \in 1 .. size /\ size \in Nat /\ size <= n /\ index = p
      BY <1>2, <2>1, RankAt
    <3> HIDE DEF Q
    <3>8. Looking(index', size', D, Q)
      <4>1. CASE b = n
        <5>1. Q = T /\ n \in Q
          BY <1>3, <3>5, <4>1
        <5>2. p = size
          BY <1>2, <4>1
        <5> QED BY <1>2, <1>4, <3>3, <3>7, <5>1, <5>2 DEF Looking, Behind
      <4>2. CASE b + 1 = n
        <5>1. b + 1 \notin T /\ b + 1 \in Nat \ {0} /\ (b + 1) - 1 = b /\ b + 1 \in 1 .. n
          BY <1>2, <1>3, <3>5, <4>2
        <5>2. Q = T
          BY <1>2, <1>3, <3>5, <4>2, <5>1
        <5>3. b + 1 \notin R
          BY <2>1, <5>1
        <5>4. Rank(R, b + 1) = p + 1
          BY <5>1, <5>3, RankStep
        <5>5. size = p + 1
          BY <1>2, <4>2, <5>4
        <5> HIDE DEF p
        <5>6. index' \in Nat /\ index' = size' + 1 /\ size' < n /\ size' < index' /\ index' <= n + 1
          BY <1>2, <1>4, <3>3, <3>7, <5>5
        <5> QED BY <5>2, <5>6 DEF Looking, Behind
      <4>3. CASE b + 1 < n
        <5>1. b + 2 \in 1 .. n /\ (b + 2) - 1 = b + 1 /\ b + 1 \in 1 .. n /\ (b + 1) - 1 = b
              /\ b + 1 \in Nat \ {0} /\ b + 2 \in Nat \ {0}
          BY <1>2, <4>3
        <5>2. b + 1 \notin T
          BY <1>3, <3>5, <5>1
        <5>3. Q = T \cap (1 .. b + 1)
          BY <1>2, <3>5, <5>2
        <5>4. b + 1 \notin Q /\ b + 2 \notin Q
          BY <3>5, <5>2
        <5>5. Rank(Q, b + 1) = Rank(Q, b) + 1 /\ Rank(Q, b + 2) = Rank(Q, b + 1) + 1
          <6>1. b \in Nat /\ b + 1 \in Nat /\ (b + 1) + 1 = b + 2
            BY <1>2
          <6>2. Rank(Q, b + 1) = Rank(Q, b) + 1
            BY <5>4, <6>1, RankStep
          <6> DEFINE a == b + 1
          <6>3. a \in Nat /\ a + 1 \notin Q /\ a + 1 = b + 2
            BY <5>4, <6>1
          <6> HIDE DEF a
          <6>4. Rank(Q, a + 1) = Rank(Q, a) + 1
            BY <6>3, RankStep
          <6> QED BY <6>2, <6>3, <6>4 DEF a
        <5>6. Rank(Q, b) = p - 1
          BY <1>2, <3>6
        <5> HIDE DEF p
        <5>7. Rank(Q, b + 2) = index'
          BY <1>4, <3>7, <5>5, <5>6
        <5>8. At(index', D, Q, b + 2)
          BY <5>1, <5>2, <5>3, <5>7 DEF At
        <5> QED BY <5>1, <5>8 DEF Looking
      <4> QED BY <1>2, <4>1, <4>2, <4>3
    <3>9. Done(Q)
      BY <3>2, <3>3, <3>4, <3>8 DEF Q
    <3> QED BY <1>5, <3>9
  <2> QED BY <2>4, <2>5
<1>7. ASSUME Behind(index, size, D, R) PROVE Looped(D)'
  <2>1. /\ size < index /\ index <= n + 1
        /\ R = T \/ (n \in Overrides(D) /\ R = T \cup {n})
        /\ n \in Overrides(D) /\ n \notin R => index = size + 1 /\ size < n
    BY <1>7 DEF Behind
  <2>2. size \in Nat /\ size <= n
    BY <1>2, RankGrows
  <2>3. index \in Nat /\ index \in 1 .. n /\ full[index] = D[n] /\ n \in 1 .. n
    <3>1. index \in Nat
      BY <1>7 DEF Behind
    <3> QED BY <1>2, <1>4, <2>1, <2>2, <3>1
  <2>4. CASE D[n].kind # "override"
    <3>1. overides' = overides /\ full' = full /\ size' = size /\ n \notin Overrides(D)
      BY <1>3, <1>4, <2>3, <2>4
    <3>2. Looking(index', size', D, R)
      BY <1>2, <1>4, <2>1, <2>2, <2>3, <3>1 DEF Looking, Behind
    <3>3. Done(R)
      BY <1>1, <3>1, <3>2
    <3> QED BY <1>5, <3>3
  <2>5. CASE D[n].kind = "override" /\ n \in R
    <3>1. PlaceOf(D[n]) = {}
      BY <1>1, <2>5, NotFound
    <3>2. overides' = Append(overides, D[n]) /\ full' = full /\ size' = size
      BY <1>4, <2>3, <2>5, <3>1 DEF Erase
    <3>3. Took(overides', D, R)
      <4>1. \A k \in R : k <= n
        BY <1>2
      <4>2. R \in SUBSET (1 .. n) /\ R \cup {n} = R
        BY <1>2, <2>5
      <4>3. Took(overides', D, R \cup {n})
        BY <1>1, <2>3, <3>2, <4>1, <4>2, TookMore
      <4> QED BY <4>2, <4>3
    <3>4. Looking(index', size', D, R)
      BY <1>2, <1>4, <2>1, <2>2, <2>3, <2>5, <3>2 DEF Looking, Behind
    <3>5. Done(R)
      BY <1>1, <3>2, <3>3, <3>4
    <3> QED BY <1>5, <3>5
  <2>6. CASE D[n].kind = "override" /\ n \notin R
    <3> DEFINE p == Rank(R, n)  Q == R \cup {n}
    <3>1. PlaceOf(D[n]) = {p} /\ Shrunk(MovedUp(p), size - 1, D, Q)
      BY <1>1, <2>3, <2>6, ShrinkOne
    <3>2. overides' = Append(overides, D[n]) /\ full' = MovedUp(p) /\ size' = size - 1
      <4>1. overides' = Append(overides, D[n]) /\ Erase(D[n])
        BY <1>4, <2>3, <2>6
      <4> HIDE DEF p
      <4> QED BY <3>1, <4>1 DEF Erase
    <3>3. Took(overides', D, Q)
      <4>1. \A k \in R : k <= n
        BY <1>2
      <4>2. R \in SUBSET (1 .. n)
        BY <1>2
      <4> QED BY <1>1, <2>3, <3>2, <4>1, <4>2, TookMore
    <3>4. n \in Overrides(D) /\ Q = T \cup {n} /\ n \in Q
      BY <1>3, <2>1, <2>3, <2>6
    <3> HIDE DEF p, Q
    <3>5. Looking(index', size', D, Q)
      BY <1>2, <1>4, <2>1, <2>2, <2>3, <3>2, <3>4 DEF Looking, Behind
    <3>6. Done(Q)
      BY <3>1, <3>2, <3>3, <3>5 DEF Q
    <3> QED BY <1>5, <3>6
  <2> QED BY <2>4, <2>5, <2>6
<1> QED BY <1>1, <1>6, <1>7 DEF Looking

\* What the loop leaves, and what it took.
LEMMA LoopEnds ==
  ASSUME NEW D, Once(D), Looped(D), index > Len(full)
  PROVE  Shrunk(full, size, D, Gone(D)) /\ Took(overides, D, Gone(D))
<1> DEFINE n == Len(D)  T == Removed(D)
<1>1. PICK R : Shrunk(full, size, D, R) /\ Took(overides, D, R) /\ Looking(index, size, D, R)
  BY DEF Looped
<1>2. /\ D \in Seq(Func) /\ n \in Nat /\ Len(full) = n /\ size = Rank(R, n)
      /\ DOMAIN D = 1 .. n
  BY <1>1 DEF Once, Shrunk
<1>3. T \subseteq 1 .. n /\ T \subseteq Overrides(D) /\ Overrides(D) \subseteq 1 .. n
  BY <1>2, RemovedParts DEF Removed
<1>4. Gone(D) = IF n \in Overrides(D) THEN T \cup {n} ELSE T
  BY <1>3 DEF Gone
<1>5. ~ \E b \in 1 .. n : At(index, D, R, b)
  <2> SUFFICES ASSUME NEW b \in 1 .. n, At(index, D, R, b) PROVE FALSE
    OBVIOUS
  <2>1. b \notin R /\ index = Rank(R, b)
    BY <1>2 DEF At
  <2>2. Rank(R, b) \in 1 .. Rank(R, n) /\ Rank(R, n) \in Nat /\ Rank(R, n) <= n
    BY <1>2, <2>1, RankAt
  <2> QED BY <1>2, <2>1, <2>2
<1>6. Behind(index, size, D, R)
  BY <1>1, <1>5 DEF Looking
<1>7. R = Gone(D)
  <2>1. CASE n \in Overrides(D) /\ n \notin R
    <3>1. index = size + 1 /\ size < n /\ size \in Nat
      BY <1>2, <1>6, <2>1, RankGrows DEF Behind
    <3> QED BY <1>2, <3>1
  <2>2. CASE n \in Overrides(D) /\ n \in R
    BY <1>4, <1>6, <2>2 DEF Behind
  <2>3. CASE n \notin Overrides(D)
    BY <1>4, <1>6, <2>3 DEF Behind
  <2> QED BY <2>1, <2>2, <2>3
<1> QED BY <1>1, <1>7

LEMMA DeclaredIsOnce ==
  ASSUME ProgramOK, NEW c \in Class
  PROVE  Once(declared[c])
<1>1. declared[c] \in Seq(Func)
  BY DeclaredEquation DEF Or
<1>2. \A j, k \in DOMAIN declared[c] : declared[c][j] = declared[c][k] => j = k
  BY DeclaredOnce
<1> QED BY <1>1, <1>2, DeclaredParts DEF Once

(* The loop runs over what the class and its superclasses declare.         *)
LoopInv == pc = "overrides" => current \in Class /\ tables[current] = NotDone /\ Looped(declared[current])

LEMMA NextLoop ==
  ASSUME PartInv, LoopInv, [Next]_vars
  PROVE  LoopInv'
<1>1. program' = program /\ declared' = declared /\ ProgramOK
  BY NextProgram, Frame DEF PartInv
<1>2. ASSUME NEW c \in Class, Generate(c) PROVE LoopInv'
  <2>1. /\ current' = c /\ full' = rec[c][1] /\ size' = Len(rec[c][1]) /\ index' = 1 /\ overides' = <<>>
        /\ tables' = tables /\ tables[c] = NotDone /\ pc = "generate"
    BY <1>2 DEF Generate, Ready
  <2>2. rec[c][1] = declared[c]
    BY <2>1 DEF PartInv, RecOK
  <2> DEFINE D == declared[c]
  <2>3. Once(D)
    BY <1>1, DeclaredIsOnce
  <2>4. full' = D /\ size' = Len(D)
    BY <2>1, <2>2
  <2> HIDE DEF D
  <2>5. PICK R : Shrunk(D, Len(D), D, R) /\ Took(<<>>, D, R) /\ Looking(1, Len(D), D, R)
    BY <2>3, LoopBegins
  <2>6. PICK E : E = D
    OBVIOUS
  <2>7. Looped(E)'
    BY <2>1, <2>4, <2>5, <2>6 DEF Looped
  <2> QED BY <1>1, <2>1, <2>6, <2>7 DEF LoopInv, NotDone, D
<1>3. ASSUME Overriding PROVE LoopInv'
  <2>1. pc = "overrides" /\ pc' = pc /\ current' = current /\ tables' = tables
    BY <1>3 DEF Overriding
  <2>2. PICK D : D = declared[current]
    OBVIOUS
  <2>3. current \in Class /\ tables[current] = NotDone /\ Looped(D) /\ Once(D)
    BY <1>1, <2>1, <2>2, DeclaredIsOnce DEF LoopInv
  <2>4. Looped(D)'
    BY <1>3, <2>3, LoopSteps
  <2> QED BY <1>1, <2>1, <2>2, <2>3, <2>4 DEF LoopInv, NotDone
<1>4. CASE UNCHANGED <<pc, current, tables, full, size, overides, index>>
  <2>1. Looped(declared[current])' <=> Looped(declared[current])
    BY <1>1, <1>4 DEF Looped
  <2> QED BY <1>1, <1>4, <2>1 DEF LoopInv, NotDone
<1>5. CASE pc' # "overrides"
  BY <1>5 DEF LoopInv
<1>6. CASE \E c \in Class : GeneratePart(c)
  BY <1>5, <1>6 DEF GeneratePart
<1>7. CASE MakeTables \/ TablesRefused \/ Construct
  BY <1>5, <1>7 DEF MakeTables, TablesRefused, Construct
<1>8. CASE UNCHANGED vars \/ CallSuper \/ Ended \/ \E c \in Class : NewObject(c)
  BY <1>4, <1>8 DEF vars, compileVars, CallSuper, Ended, NewObject
<1>9. CASE \E c \in Class, n \in Name, a \in 0 .. 1 : Call(c, n, a)
  BY <1>4, <1>9 DEF Call, compileVars
<1> QED BY <1>2, <1>3, <1>6, <1>7, <1>8, <1>9 DEF Next

(***************************************************************************)
(* The overrides that replace what they override are those that the loop   *)
(* looks at, in whatever class: erase moves the next method under the      *)
(* position that is left behind (Class::generate).                         *)
(***************************************************************************)
THEOREM OverridesTakenAlways == Spec => []OverridesTaken
<1>1. Init => LoopInv
  BY DEF Init, LoopInv
<1>2. LoopInv /\ PartInv /\ [Next]_vars => LoopInv'
  BY NextLoop
<1>3. LoopInv /\ PartInv => OverridesTaken
  <2> SUFFICES ASSUME LoopInv, PartInv, pc = "overrides", index > Len(full)
               PROVE  Range(overides) = Taken(current)
    BY DEF OverridesTaken
  <2> DEFINE D == declared[current]
  <2>1. current \in Class /\ Looped(D) /\ Once(D)
    BY DeclaredIsOnce DEF LoopInv, PartInv
  <2>2. Took(overides, D, Gone(D))
    BY <2>1, LoopEnds
  <2>3. Range(overides) = {D[k] : k \in Gone(D)}
    <3>1. Range(overides) = {overides[m] : m \in 1 .. Len(overides)}
      BY <2>2 DEF Range, Took
    <3> HIDE DEF D
    <3>2. ASSUME NEW f \in Range(overides) PROVE f \in {D[k] : k \in Gone(D)}
      BY <2>2, <3>1 DEF Took
    <3>3. ASSUME NEW k \in Gone(D) PROVE D[k] \in Range(overides)
      <4>1. PICK m \in 1 .. Len(overides) : overides[m] = D[k]
        BY <2>2 DEF Took
      <4> QED BY <3>1, <4>1
    <3> QED BY <3>2, <3>3
  <2>4. Gone(D) = {k \in Seen(D) : D[k].kind = "override"}
    BY <2>1, RemovedParts DEF Once
  <2>5. Taken(current) = {D[k] : k \in {j \in Seen(D) : D[j].kind = "override"}}
    BY DEF Taken, Declared
  <2> QED BY <2>3, <2>4, <2>5
<1> QED BY <1>1, <1>2, <1>3, PartsMade, PTL DEF Spec

-----------------------------------------------------------------------------
(* The tables.                                                             *)
LEMMA MaxParts ==
  ASSUME NEW n \in Nat, NEW S \in SUBSET (1 .. n), S # {}
  PROVE  Max(S) \in S /\ \A y \in S : y <= Max(S)
<1> DEFINE T == {m \in Nat : \A y \in S : y <= m}
<1>1. n \in T
  OBVIOUS
<1>2. PICK m \in T : \A y \in T : ~ (y < m)
  <2>1. T \in SUBSET Nat
    OBVIOUS
  <2> HIDE DEF T
  <2> QED BY <1>1, <2>1, NatMin
<1>3. m \in S
  <2> SUFFICES ASSUME m \notin S PROVE FALSE
    OBVIOUS
  <2>1. PICK x \in S : TRUE
    OBVIOUS
  <2>2. x \in 1 .. n /\ x <= m /\ m \in Nat /\ x # m
    BY <1>2, <2>1
  <2>3. m - 1 \in Nat /\ m - 1 < m
    BY <2>2
  <2>4. ASSUME NEW y \in S PROVE y <= m - 1
    <3>1. y \in 1 .. n /\ y <= m /\ y # m
      BY <1>2
    <3> QED BY <2>2, <3>1
  <2>5. m - 1 \in T
    BY <2>3, <2>4
  <2> QED BY <1>2, <2>3, <2>5
<1>4. \A y \in S : m >= y
  BY <1>2
<1>5. \E x \in S : \A y \in S : x >= y
  BY <1>3, <1>4
<1>6. Max(S) \in S /\ \A y \in S : Max(S) >= y
  BY <1>5 DEF Max
<1> QED BY <1>6

\* The override of D that replaces f, or f.
Overrode(D, f) == {k \in Gone(D) : D[k].name = f.name}
RepFor(D, f) == IF Overrode(D, f) = {} THEN f ELSE D[Max(Overrode(D, f))]

LEMMA RepForParts ==
  ASSUME NEW D \in Seq(Func), NEW f \in Func
  PROVE  RepFor(D, f) \in Func /\ RepFor(D, f).name = f.name
<1>1. Overrode(D, f) \in SUBSET (1 .. Len(D)) /\ Len(D) \in Nat
  BY RemovedParts DEF Overrode, Gone
<1>2. CASE Overrode(D, f) = {}
  BY <1>2 DEF RepFor
<1>3. CASE Overrode(D, f) # {}
  <2> DEFINE m == Max(Overrode(D, f))
  <2>1. m \in Overrode(D, f)
    BY <1>1, <1>3, MaxParts
  <2>2. m \in 1 .. Len(D) /\ D[m].name = f.name
    BY <1>1, <2>1 DEF Overrode
  <2> HIDE DEF m
  <2>3. D[m] \in Func
    BY <2>2
  <2> QED BY <1>3, <2>2, <2>3 DEF RepFor, m
<1> QED BY <1>2, <1>3

LEMMA ReplacedByLast ==
  ASSUME NEW D, Once(D), Took(overides, D, Gone(D)), NEW f
  PROVE  Replaced(f) = RepFor(D, f)
<1> DEFINE N == Named(f.name)  O == Overrode(D, f)
<1>1. /\ D \in Seq(Func) /\ Len(D) \in Nat /\ \A j, k \in 1 .. Len(D) : D[j] = D[k] => j = k
      /\ overides \in Seq(Func) /\ DOMAIN overides = 1 .. Len(overides) /\ Len(overides) \in Nat
  BY DEF Once, Took
<1>2. Gone(D) \subseteq 1 .. Len(D)
  BY <1>1, RemovedParts DEF Gone
<1>3. O \in SUBSET (1 .. Len(D)) /\ N \in SUBSET (1 .. Len(overides))
  BY <1>1, <1>2 DEF Overrode, Named
<1>4. \A m \in N : \E k \in O : overides[m] = D[k]
  BY <1>1 DEF Took, Overrode, Named
<1>5. \A k \in O : \E m \in N : overides[m] = D[k]
  BY <1>1 DEF Took, Overrode, Named
<1>6. CASE N = {}
  <2>1. O = {}
    BY <1>5, <1>6
  <2> QED BY <1>6, <2>1 DEF Replaced, RepFor
<1>7. CASE N # {}
  <2>1. O # {}
    BY <1>4, <1>7
  <2> HIDE DEF N, O
  <2>2. Max(N) \in N /\ \A y \in N : y <= Max(N)
    BY <1>1, <1>3, <1>7, MaxParts
  <2>3. Max(O) \in O /\ \A y \in O : y <= Max(O)
    BY <1>1, <1>3, <2>1, MaxParts
  <2>4. PICK k \in O : overides[Max(N)] = D[k]
    BY <1>4, <2>2
  <2>5. PICK m \in N : overides[m] = D[Max(O)]
    BY <1>5, <2>3
  <2>6. m <= Max(N) /\ k <= Max(O)
    BY <2>2, <2>3
  <2>7. Max(O) <= k
    <3>1. m \in 1 .. Len(overides) /\ Max(N) \in 1 .. Len(overides) /\ k \in Gone(D) /\ Max(O) \in Gone(D)
      BY <1>3, <2>2, <2>3 DEF O, Overrode
    <3> QED BY <2>4, <2>5, <2>6, <3>1 DEF Took
  <2>8. k = Max(O)
    <3>1. \A x \in O : x \in Nat
      BY <1>1, <1>3
    <3>2. k \in Nat /\ Max(O) \in Nat
      BY <2>3, <3>1
    <3> QED BY <2>6, <2>7, <3>2
  <2> QED BY <1>7, <2>1, <2>4, <2>8 DEF Replaced, RepFor, N, O
<1> QED BY <1>6, <1>7

(* The tables t that the loop over D makes of the lists r: the first is D  *)
(* without what is gone, and every method is replaced by its override.     *)
TableOf(t, r, D) ==
  /\ t \in Seq(Seq(Func)) /\ Len(t) = Len(r)
  /\ Len(t[1]) = Rank(Gone(D), Len(D))
  /\ \A k \in 1 .. Len(D) : k \notin Gone(D) => t[1][Rank(Gone(D), k)] = RepFor(D, D[k])
  /\ \A i \in 2 .. Len(r) :
       /\ Len(t[i]) = Len(r[i])
       /\ \A j \in 1 .. Len(r[i]) : t[i][j] = RepFor(D, r[i][j])
TableOK(c) == TableOf(tables[c], rec[c], declared[c])

LEMMA PrefixParts ==
  ASSUME NEW A, NEW s \in Seq(A), NEW n \in Nat, n <= Len(s)
  PROVE  /\ SubSeq(s, 1, n) \in Seq(A) /\ Len(SubSeq(s, 1, n)) = n
         /\ \A j \in 1 .. n : SubSeq(s, 1, n)[j] = s[j]
OBVIOUS

LEMMA FullFuncsParts ==
  ASSUME PartInv, LoopInv, pc = "overrides", index > Len(full)
  PROVE  TableOf(FullFuncs, rec[current], declared[current]) /\ Len(FullFuncs) >= 1
<1> DEFINE c == current
           D == declared[c]
           r == rec[c]
           G == Gone(D)
           left1 == SubSeq(full, 1, size)
           kept == [r EXCEPT ![1] = left1]
           F == FullFuncs
           W == Seq(Func)
<1>1. c \in Class /\ Looped(D) /\ Once(D) /\ D \in Seq(Func)
  BY DeclaredIsOnce DEF LoopInv, PartInv, Once
<1>2. r \in Seq(W) /\ Len(r) >= 1
  BY <1>1 DEF PartInv, RecOK
<1>3. Shrunk(full, size, D, G) /\ Took(overides, D, G)
  BY <1>1, LoopEnds
<1>4. \A f : Replaced(f) = RepFor(D, f)
  BY <1>1, <1>3, ReplacedByLast
<1>5. /\ full \in Seq(Func) /\ Len(full) = Len(D) /\ size = Rank(G, Len(D)) /\ Len(D) \in Nat
      /\ \A k \in 1 .. Len(D) : k \notin G => full[Rank(G, k)] = D[k]
  BY <1>1, <1>3 DEF Shrunk
<1>6. size \in Nat /\ size <= Len(full)
  BY <1>5, RankGrows
<1> HIDE DEF D, G, r
<1>7. left1 \in W /\ Len(left1) = size /\ \A j \in 1 .. size : left1[j] = full[j]
  BY <1>5, <1>6, PrefixParts
<1> HIDE DEF left1, W
<1>8. kept \in Seq(W) /\ Len(kept) = Len(r) /\ kept[1] = left1 /\ \A i \in 2 .. Len(r) : kept[i] = r[i]
  BY <1>2, <1>7, FirstReplaced
<1>9. F = [i \in DOMAIN kept |-> [j \in DOMAIN kept[i] |-> Replaced(kept[i][j])]]
  BY DEF FullFuncs, r, left1
<1> HIDE DEF kept, F
<1>10. DOMAIN kept = 1 .. Len(r) /\ Len(r) \in Nat /\ \A i \in 1 .. Len(r) : kept[i] \in W
  BY <1>2, <1>8
<1>11. \A i \in 1 .. Len(r) : F[i] = [j \in DOMAIN kept[i] |-> RepFor(D, kept[i][j])]
  BY <1>4, <1>9, <1>10
<1>12. ASSUME NEW i \in 1 .. Len(r)
       PROVE  /\ F[i] \in W /\ Len(F[i]) = Len(kept[i])
              /\ \A j \in 1 .. Len(kept[i]) : F[i][j] = RepFor(D, kept[i][j])
  <2> DEFINE s == kept[i]
  <2>1. s \in Seq(Func)
    BY <1>10 DEF W
  <2> HIDE DEF s
  <2>2. DOMAIN s = 1 .. Len(s) /\ Len(s) \in Nat /\ \A j \in 1 .. Len(s) : s[j] \in Func
    BY <2>1
  <2>3. F[i] = [j \in 1 .. Len(s) |-> RepFor(D, s[j])]
    BY <1>11, <2>2 DEF s
  <2>4. \A j \in 1 .. Len(s) : RepFor(D, s[j]) \in Func
    BY <1>1, <2>2, RepForParts DEF D
  <2>5. F[i] \in Seq(Func) /\ Len(F[i]) = Len(s) /\ \A j \in 1 .. Len(s) : F[i][j] = RepFor(D, s[j])
    BY <2>2, <2>3, <2>4
  <2> QED BY <2>5 DEF W, s
<1>13. F \in Seq(W) /\ Len(F) = Len(r)
  <2>1. DOMAIN F = 1 .. Len(r) /\ F = [i \in 1 .. Len(r) |-> F[i]]
    BY <1>9, <1>10
  <2> QED BY <1>10, <1>12, <2>1
<1>14. Len(F[1]) = size /\ \A j \in 1 .. size : F[1][j] = RepFor(D, full[j])
  <2>1. 1 \in 1 .. Len(r)
    BY <1>2, <1>10
  <2> QED BY <1>7, <1>8, <1>12, <2>1
<1>15. ASSUME NEW k \in 1 .. Len(D), k \notin G PROVE F[1][Rank(G, k)] = RepFor(D, D[k])
  <2>1. Rank(G, k) \in 1 .. size
    BY <1>5, <1>15, RankAt
  <2> QED BY <1>5, <1>14, <1>15, <2>1
<1>16. ASSUME NEW i \in 2 .. Len(r)
       PROVE  Len(F[i]) = Len(r[i]) /\ \A j \in 1 .. Len(r[i]) : F[i][j] = RepFor(D, r[i][j])
  <2>1. i \in 1 .. Len(r) /\ kept[i] = r[i]
    BY <1>8, <1>10
  <2> QED BY <1>12, <2>1
<1>17. TableOf(F, r, D)
  BY <1>5, <1>13, <1>14, <1>15, <1>16 DEF G, W, TableOf
<1> QED BY <1>2, <1>13, <1>17 DEF D, r, F

(* Every class whose tables are made has those of its own methods.         *)
TablesInv ==
  /\ tables \in [Class -> Seq(Seq(Func))]
  /\ \A c \in Class : tables[c] # NotDone => TableOK(c)
  /\ pc = "part" => \A c \in Class : tables[c] = NotDone
  /\ pc \in {"construct", "ready"} => \A c \in Class : tables[c] # NotDone

LEMMA TablesFrame ==
  ASSUME TablesInv, program' = program, rec' = rec, tables' = tables,
         pc' = "part" => pc = "part", pc' \in {"construct", "ready"} => pc \in {"construct", "ready"}
  PROVE  TablesInv'
<1>1. \A c \in Class : TableOK(c)' <=> TableOK(c)
  BY Frame DEF TableOK
<1>2. /\ tables \in [Class -> Seq(Seq(Func))]
      /\ \A c \in Class : tables[c] # NotDone => TableOK(c)
      /\ pc = "part" => \A c \in Class : tables[c] = NotDone
      /\ pc \in {"construct", "ready"} => \A c \in Class : tables[c] # NotDone
  BY DEF TablesInv
<1>3. \A c \in Class : tables'[c] # NotDone => TableOK(c)'
  BY <1>1, <1>2
<1>4. pc' = "part" => \A c \in Class : tables'[c] = NotDone
  BY <1>2
<1>5. pc' \in {"construct", "ready"} => \A c \in Class : tables'[c] # NotDone
  BY <1>2
<1> QED BY <1>2, <1>3, <1>4, <1>5 DEF TablesInv, NotDone

LEMMA NextTables ==
  ASSUME PartInv, LoopInv, TablesInv, [Next]_vars
  PROVE  TablesInv'
<1>1. program' = program /\ declared' = declared /\ ProgramOK
  BY NextProgram, Frame DEF PartInv
<1>2. ASSUME NEW c \in Class, GeneratePart(c) PROVE TablesInv'
  <2>1. tables' = tables /\ pc = "part" /\ pc' \in {"part", "generate"} /\ \A d \in Class : tables[d] = NotDone
    BY <1>2 DEF GeneratePart, TablesInv
  <2>2. tables' \in [Class -> Seq(Seq(Func))] /\ \A d \in Class : tables'[d] = NotDone
    BY <2>1 DEF TablesInv
  <2> QED BY <2>1, <2>2 DEF TablesInv, NotDone
<1>3. ASSUME MakeTables PROVE TablesInv'
  <2> DEFINE c == current  F == FullFuncs  D == declared[c]
  <2>1. /\ pc = "overrides" /\ index > Len(full) /\ tables' = [tables EXCEPT ![c] = F] /\ rec' = rec
        /\ pc' = IF AllBut(c, tables) THEN "construct" ELSE "generate"
    BY <1>3 DEF MakeTables
  <2>2. c \in Class /\ tables[c] = NotDone /\ tables \in [Class -> Seq(Seq(Func))]
    BY <2>1 DEF LoopInv, TablesInv
  <2>3. TableOf(F, rec[c], D) /\ Len(F) >= 1
    BY <2>1, FullFuncsParts
  <2>4. F # NotDone /\ F \in Seq(Seq(Func))
    BY <2>3 DEF NotDone, TableOf
  <2> HIDE DEF F, c
  <2>5. tables' \in [Class -> Seq(Seq(Func))] /\ \A d \in Class : tables'[d] = IF d = c THEN F ELSE tables[d]
    BY <2>1, <2>2, <2>4
  <2>6. ASSUME NEW d \in Class, tables'[d] # NotDone PROVE TableOK(d)'
    <3>1. CASE d = c
      <4>1. tables'[d] = F
        BY <2>5, <3>1
      <4> QED BY <1>1, <2>1, <2>3, <3>1, <4>1 DEF TableOK
    <3>2. CASE d # c
      <4>1. tables'[d] = tables[d] /\ TableOK(d)
        BY <2>5, <2>6, <3>2 DEF TablesInv
      <4> QED BY <1>1, <2>1, <4>1 DEF TableOK
    <3> QED BY <3>1, <3>2
  <2>7. pc' # "part" /\ (pc' \in {"construct", "ready"} => \A d \in Class : tables'[d] # NotDone)
    BY <2>1, <2>4, <2>5 DEF AllBut
  <2> QED BY <2>5, <2>6, <2>7 DEF TablesInv, NotDone
<1>4. CASE \E c \in Class : Generate(c)
  BY <1>1, <1>4, TablesFrame DEF Generate
<1>5. CASE UNCHANGED vars \/ Ended
  BY <1>1, <1>5, TablesFrame DEF vars, compileVars, Ended
<1>6. CASE \E c \in Class : NewObject(c)
  BY <1>1, <1>6, TablesFrame DEF NewObject, compileVars
<1>7. CASE Overriding
  BY <1>1, <1>7, TablesFrame DEF Overriding
<1>8. CASE TablesRefused
  BY <1>1, <1>8, TablesFrame DEF TablesRefused
<1>9. CASE CallSuper
  BY <1>1, <1>9, TablesFrame DEF CallSuper, compileVars
<1>10. CASE Construct
  BY <1>1, <1>10, TablesFrame DEF Construct
<1>11. CASE \E c \in Class, n \in Name, a \in 0 .. 1 : Call(c, n, a)
  BY <1>1, <1>11, TablesFrame DEF Call, compileVars
<1> QED BY <1>2, <1>3, <1>4, <1>5, <1>6, <1>7, <1>8, <1>9, <1>10, <1>11 DEF Next

LEMMA InitTables ==
  ASSUME Init
  PROVE  TablesInv /\ LoopInv
<1>1. tables = [c \in Class |-> <<>>] /\ pc = "part"
  BY DEF Init, NotDone
<1>2. tables \in [Class -> Seq(Seq(Func))] /\ \A c \in Class : tables[c] = NotDone
  <2>1. <<>> \in Seq(Seq(Func))
    OBVIOUS
  <2> QED BY <1>1, <2>1 DEF NotDone
<1> QED BY <1>1, <1>2 DEF TablesInv, LoopInv

(***************************************************************************)
(* Each table of a class is the list it was made from, without the methods *)
(* that the loop removed, and each of its methods replaced by the last     *)
(* override of its name that the loop looked at (Class::generate).         *)
(***************************************************************************)
THEOREM TablesMade == Spec => [](PartInv /\ LoopInv /\ TablesInv)
<1>1. Init => LoopInv /\ TablesInv
  BY InitTables
<1>2. PartInv /\ LoopInv /\ TablesInv /\ [Next]_vars => LoopInv' /\ TablesInv'
  BY NextLoop, NextTables
<1> QED BY <1>1, <1>2, PartsMade, PTL DEF Spec

-----------------------------------------------------------------------------
(* Slots.  A class looks at the methods it inherits as its superclass did, *)
(* but for the last of them.                                               *)
LEMMA PrefixRemoved ==
  ASSUME ProgramOK, NEW c \in Class, extending(c) # NoClass
  PROVE  \A k \in 1 .. Before(c) : k \in Removed(declared[c]) <=> k \in Removed(declared[extending(c)])
<1> DEFINE D == declared[c]  E == declared[extending(c)]  n == Before(c)
<1>1. /\ D \in Seq(Func) /\ E \in Seq(Func) /\ Len(E) = n /\ n \in Nat /\ Len(D) \in Nat /\ n <= Len(D)
      /\ \A k \in 1 .. n : D[k] = E[k]
  <2>1. extending(c) \in Class
    BY ProgramParts DEF Or
  <2>2. Before(c) \in Nat /\ Len(D) = Before(c) + Len(program.funcs[c]) /\ Len(program.funcs[c]) \in Nat
    BY DeclaredParts, ProgramParts
  <2>3. D \in Seq(Func) /\ E \in Seq(Func) /\ \A k \in 1 .. n : D[k] = E[k]
    BY <2>1, DeclaredEquation, DeclaredParts DEF Or
  <2> DEFINE m == Len(program.funcs[c])
  <2>4. Before(c) = Len(E)
    BY DEF Before
  <2> HIDE DEF m, D, E
  <2>5. n \in Nat /\ Len(D) \in Nat /\ n <= Len(D)
    BY <2>2 DEF m
  <2> QED BY <2>3, <2>4, <2>5
<1> HIDE DEF D, E, n
<1>2. /\ \A k \in 1 .. Len(D) : k \in Removed(D) <=> k \in Overrides(D) /\ k - 1 \notin Removed(D)
      /\ \A k \in 1 .. n : k \in Removed(E) <=> k \in Overrides(E) /\ k - 1 \notin Removed(E)
      /\ Removed(D) \subseteq 1 .. Len(D) /\ Removed(E) \subseteq 1 .. n
  BY <1>1, RemovedParts
<1>3. \A k \in 1 .. n : k \in Overrides(D) <=> k \in Overrides(E)
  BY <1>1 DEF Overrides
<1> DEFINE T == {k \in Nat : k \in 1 .. n /\ ~ (k \in Removed(D) <=> k \in Removed(E))}
<1>4. T = {}
  <2> SUFFICES ASSUME T # {} PROVE FALSE
    OBVIOUS
  <2>1. PICK k \in T : \A y \in T : ~ (y < k)
    <3>1. T \in SUBSET Nat
      OBVIOUS
    <3> HIDE DEF T
    <3> QED BY <3>1, NatMin
  <2>2. k \in 1 .. n /\ k \in 1 .. Len(D) /\ ~ (k \in Removed(D) <=> k \in Removed(E))
    BY <1>1, <2>1
  <2>3. k - 1 \in Removed(D) <=> k - 1 \in Removed(E)
    <3>1. CASE k = 1
      BY <1>2, <3>1
    <3>2. CASE k # 1
      <4>1. k - 1 \in 1 .. n /\ k - 1 < k /\ k - 1 \in Nat
        BY <1>1, <2>2, <3>2
      <4> QED BY <2>1, <4>1
    <3> QED BY <3>1, <3>2
  <2> QED BY <1>2, <1>3, <2>2, <2>3
<1>5. \A k \in 1 .. n : k \in Nat
  BY <1>1
<1> QED BY <1>4, <1>5 DEF D, E, n

\* What the superclass keeps, the class keeps at the same place.
LEMMA KeptInSubclass ==
  ASSUME ProgramOK, NEW c \in Class, extending(c) # NoClass,
         NEW k \in 1 .. Before(c), k \notin Gone(declared[extending(c)])
  PROVE  /\ k \in 1 .. Len(declared[c]) /\ k \notin Gone(declared[c])
         /\ declared[c][k] = declared[extending(c)][k]
         /\ Rank(Gone(declared[c]), k) = Rank(Gone(declared[extending(c)]), k)
<1> DEFINE D == declared[c]  E == declared[extending(c)]  n == Before(c)
<1>1. extending(c) \in Class
  BY ProgramParts DEF Or
<1>2. /\ n \in Nat /\ Len(D) = n + Len(program.funcs[c]) /\ Len(program.funcs[c]) \in Nat
      /\ \A j \in 1 .. n : D[j] = E[j]
  BY DeclaredParts, ProgramParts
<1>3. D \in Seq(Func) /\ E \in Seq(Func) /\ Len(E) = n
  BY <1>1, DeclaredEquation DEF Or, Before
<1>4. \A j \in 1 .. n : j \in Removed(D) <=> j \in Removed(E)
  BY PrefixRemoved
<1>5. k \notin Gone(E)
  OBVIOUS
<1> DEFINE m == Len(program.funcs[c])
<1> HIDE DEF D, E, n, m
<1>6. k \in 1 .. n /\ k \in 1 .. Len(D) /\ Len(D) = n + m /\ m \in Nat
  BY <1>2 DEF n, m
<1>7. \A j \in 1 .. n : j \in Overrides(D) <=> j \in Overrides(E)
  BY <1>2, <1>3, <1>6 DEF Overrides
<1>8. \A j \in 1 .. n : j \in Gone(E) <=> j \in Overrides(E) /\ (j \in Removed(E) \/ j = n)
  BY <1>3 DEF Gone
<1>9. \A j \in 1 .. Len(D) : j \in Gone(D) <=> j \in Overrides(D) /\ (j \in Removed(D) \/ j = Len(D))
  BY DEF Gone
<1>10. Removed(D) \subseteq Overrides(D)
  BY DEF Removed
<1>11. ASSUME NEW j \in 1 .. k PROVE j \in Gone(D) <=> j \in Gone(E)
  <2>1. j \in 1 .. n /\ j \in 1 .. Len(D)
    BY <1>2, <1>6
  <2>2. CASE j < n
    <3>1. j # n /\ j # Len(D)
      BY <1>2, <1>6, <2>1, <2>2
    <3> QED BY <1>4, <1>7, <1>8, <1>9, <2>1, <3>1 DEF n
  <2>3. CASE j = n
    <3>1. k = n
      BY <1>6, <2>3
    <3>2. j \notin Overrides(D)
      BY <1>5, <1>7, <1>8, <2>1, <2>3, <3>1
    <3> QED BY <1>7, <1>8, <1>9, <2>1, <3>2
  <2> QED BY <1>2, <2>1, <2>2, <2>3
<1>12. k \in 1 .. k
  BY <1>6
<1>13. k \notin Gone(D)
  BY <1>5, <1>11, <1>12
<1>14. Rank(Gone(D), k) = Rank(Gone(E), k)
  <2>1. k \in Nat
    BY <1>6
  <2> QED BY <1>11, <2>1, RankSame
<1> QED BY <1>2, <1>6, <1>13, <1>14 DEF D, E, n

(***************************************************************************)
(* A method has in every subclass the slot it has in its own class: what   *)
(* Class::generate removes before it is the same there, whatever methods   *)
(* the subclass adds and overrides.                                        *)
(***************************************************************************)
THEOREM SlotsKeptAlways == Spec => []SlotsKept
<1>1. PartInv /\ TablesInv => SlotsKept
  <2> SUFFICES ASSUME PartInv, TablesInv, pc = "construct", NEW c \in Class, extending(c) # NoClass,
                      NEW j \in DOMAIN tables[extending(c)][1]
               PROVE  j \in DOMAIN tables[c][1] /\ tables[c][1][j].name = tables[extending(c)][1][j].name
    BY DEF SlotsKept
  <2> DEFINE e == extending(c)  D == declared[c]  E == declared[e]
  <2>1. ProgramOK /\ e \in Class /\ E \in Seq(Func) /\ D \in Seq(Func) /\ Len(E) = Before(c)
    BY ProgramParts, DeclaredEquation DEF PartInv, Or, Before
  <2>2. TableOK(c) /\ TableOK(e)
    BY <2>1 DEF TablesInv
  <2>3. rec[e] # NotDone /\ RecOK(e) /\ rec[c] # NotDone /\ RecOK(c)
    BY <2>1 DEF PartInv
  <2>4. 1 \in 1 .. Len(tables[e]) /\ 1 \in 1 .. Len(tables[c])
    BY <2>2, <2>3 DEF TableOK, TableOf, RecOK
  <2>5. tables[e][1] \in Seq(Func) /\ tables[c][1] \in Seq(Func)
    BY <2>2, <2>4 DEF TableOK, TableOf
  <2>6. j \in 1 .. Rank(Gone(E), Len(E))
    BY <2>2, <2>5 DEF TableOK, TableOf
  <2> HIDE DEF D, E
  <2>7. PICK k \in 1 .. Len(E) : k \notin Gone(E) /\ Rank(Gone(E), k) = j
    <3>1. Len(E) \in Nat
      BY <2>1
    <3> QED BY <2>6, <3>1, RankOnto
  <2>8. k \in 1 .. Len(D) /\ k \notin Gone(D) /\ D[k] = E[k] /\ Rank(Gone(D), k) = j
    BY <2>1, <2>7, KeptInSubclass DEF D, E
  <2>9. tables[e][1][j] = RepFor(E, E[k]) /\ tables[c][1][j] = RepFor(D, E[k])
    BY <2>2, <2>7, <2>8 DEF TableOK, TableOf, D, E
  <2>10. E[k] \in Func
    BY <2>1, <2>7
  <2>11. j \in DOMAIN tables[c][1]
    <3>1. Rank(Gone(D), k) \in 1 .. Rank(Gone(D), Len(D))
      <4>1. Len(D) \in Nat
        BY <2>1
      <4> QED BY <2>8, <4>1, RankAt
    <3> QED BY <2>2, <2>5, <2>8, <3>1 DEF TableOK, TableOf, D
  <2> QED BY <2>1, <2>9, <2>10, <2>11, RepForParts
<1> QED BY <1>1, TablesMade, PTL

-----------------------------------------------------------------------------
(* What a constructor stores, and where.                                   *)
Made == PartInv /\ TablesInv /\ \A c \in Class : rec[c] # NotDone /\ tables[c] # NotDone

LEMMA MadeParts ==
  ASSUME Made
  PROVE  /\ ProgramOK
         /\ \A c \in Class :
              /\ LayoutOK(c) /\ RecOK(c) /\ TableOK(c) /\ SuperOK(c) /\ extending(c) \in Or(Class)
              /\ Len(rec[c]) \in Nat /\ Len(rec[c]) >= 1 /\ Len(tables[c]) = Len(rec[c])
              /\ DOMAIN tables[c] = 1 .. Len(rec[c])
<1>1. ProgramOK
  BY DEF Made, PartInv
<1>2. ASSUME NEW c \in Class
      PROVE  LayoutOK(c) /\ RecOK(c) /\ TableOK(c) /\ SuperOK(c) /\ extending(c) \in Or(Class)
  BY <1>1, <1>2, ProgramParts DEF Made, PartInv, TablesInv, LayoutOK
<1>3. ASSUME NEW c \in Class
      PROVE  /\ Len(rec[c]) \in Nat /\ Len(rec[c]) >= 1 /\ Len(tables[c]) = Len(rec[c])
             /\ DOMAIN tables[c] = 1 .. Len(rec[c])
  <2>1. rec[c] \in Seq(Seq(Func)) /\ Len(rec[c]) >= 1
    BY <1>2 DEF RecOK
  <2>2. tables[c] \in Seq(Seq(Func)) /\ Len(tables[c]) = Len(rec[c])
    BY <1>2 DEF TableOK, TableOf
  <2> QED BY <2>1, <2>2
<1> QED BY <1>1, <1>2, <1>3

LEMMA ElementOfParts ==
  ASSUME Made, NEW c \in Class
  PROVE  /\ \A j \in OwnFields(c) : ElementOf(c, j) \in TableElements(c) + 1 .. Elems(c)
         /\ \A j \in 1 .. Len(program.fields[c]) : ElementOf(c, j) \in 1 .. Elems(c)
         /\ \A i, j \in OwnFields(c) : i < j => ElementOf(c, i) < ElementOf(c, j)
         /\ OwnFields(c) \subseteq 1 .. Len(program.fields[c])
<1> DEFINE m == Len(program.fields[c])  t == TableElements(c)  R == (1 .. m) \ OwnFields(c)
<1>1. /\ m \in Nat /\ t \in Nat /\ t >= 1 /\ Elems(c) = t + m /\ DOMAIN program.fields[c] = 1 .. m
  BY Counts, MadeParts DEF Elems
<1>2. OwnFields(c) \subseteq 1 .. m
  BY <1>1 DEF OwnFields
<1> HIDE DEF m, t
<1>3. ASSUME NEW j \in 1 .. m PROVE ElementOf(c, j) = t + Rank(R, j)
  <2>1. {k \in OwnFields(c) : k <= j} = (1 .. j) \ R
    BY <1>1, <1>2
  <2> QED BY <2>1 DEF ElementOf, Rank, t
<1>4. ASSUME NEW j \in OwnFields(c)
      PROVE  ElementOf(c, j) \in t + 1 .. t + m /\ \A i \in OwnFields(c) : i < j => ElementOf(c, i) < ElementOf(c, j)
  <2>1. j \in 1 .. m /\ j \notin R
    BY <1>2
  <2> HIDE DEF R
  <2>2. Rank(R, j) \in 1 .. Rank(R, m) /\ Rank(R, m) <= m /\ Rank(R, m) \in Nat
    BY <1>1, <2>1, RankAt
  <2>3. ASSUME NEW i \in OwnFields(c), i < j PROVE ElementOf(c, i) < ElementOf(c, j)
    <3>1. i \in 1 .. m
      BY <1>2
    <3>2. Rank(R, i) < Rank(R, j) /\ Rank(R, i) \in Nat
      <4>1. i \in Nat
        BY <1>1, <3>1
      <4> QED BY <1>1, <2>1, <2>3, <3>1, <4>1, RankAt, RankParts
    <3> QED BY <1>1, <1>3, <2>1, <2>2, <3>1, <3>2
  <2> QED BY <1>1, <1>3, <2>1, <2>2, <2>3
<1>5. ASSUME NEW j \in 1 .. m PROVE ElementOf(c, j) \in 1 .. t + m
  <2>1. j \in Nat /\ j <= m
    BY <1>1
  <2>2. Rank(R, j) \in Nat /\ Rank(R, j) <= j
    BY <2>1, RankGrows
  <2> HIDE DEF R
  <2> QED BY <1>1, <1>3, <2>1, <2>2
<1> QED BY <1>1, <1>2, <1>4, <1>5 DEF m, t

LEMMA StoresParts ==
  ASSUME Made, NEW c \in Class
  PROVE  LET n == Len(rec[c])  m == Len(program.fields[c]) IN
         /\ DOMAIN Stores(c) = 1 .. n + m /\ n \in Nat /\ n >= 1 /\ m \in Nat
         /\ \A i \in 1 .. n : Stores(c)[i] = StoreTable(c, i)
         /\ \A j \in 1 .. m : Stores(c)[n + j] = StoreField(c, j)
         /\ \A k \in n + 1 .. n + m : Stores(c)[k] = StoreField(c, k - n) /\ k - n \in 1 .. m
<1> DEFINE n == Len(rec[c])  m == Len(program.fields[c])
           s == [i \in DOMAIN tables[c] |-> StoreTable(c, i)]
           t == [j \in DOMAIN program.fields[c] |-> StoreField(c, j)]
           A == {StoreTable(c, i) : i \in 1 .. n} \cup {StoreField(c, j) : j \in 1 .. m}
<1>1. DOMAIN tables[c] = 1 .. n /\ DOMAIN program.fields[c] = 1 .. m /\ n \in Nat /\ n >= 1 /\ m \in Nat
  BY MadeParts, Counts
<1> HIDE DEF n, m
<1>2. s \in Seq(A) /\ Len(s) = n /\ \A i \in 1 .. n : s[i] = StoreTable(c, i)
  <2>1. \A i \in 1 .. n : StoreTable(c, i) \in A
    OBVIOUS
  <2> HIDE DEF A
  <2>2. s = [i \in 1 .. n |-> StoreTable(c, i)]
    BY <1>1
  <2>3. [i \in 1 .. n |-> StoreTable(c, i)] \in Seq(A) /\ Len([i \in 1 .. n |-> StoreTable(c, i)]) = n
    BY <1>1, <2>1
  <2> HIDE DEF s
  <2> QED BY <2>2, <2>3
<1>3. t \in Seq(A) /\ Len(t) = m /\ \A j \in 1 .. m : t[j] = StoreField(c, j)
  <2>1. \A j \in 1 .. m : StoreField(c, j) \in A
    OBVIOUS
  <2> HIDE DEF A
  <2>2. t = [j \in 1 .. m |-> StoreField(c, j)]
    BY <1>1
  <2>3. [j \in 1 .. m |-> StoreField(c, j)] \in Seq(A) /\ Len([j \in 1 .. m |-> StoreField(c, j)]) = m
    BY <1>1, <2>1
  <2> HIDE DEF t
  <2> QED BY <2>2, <2>3
<1>4. Stores(c) = s \o t
  BY DEF Stores
<1> HIDE DEF A, s, t
<1>5. /\ Len(s \o t) = Len(s) + Len(t)
      /\ \A k \in 1 .. Len(s) : (s \o t)[k] = s[k]
      /\ \A k \in Len(s) + 1 .. Len(s) + Len(t) : (s \o t)[k] = t[k - Len(s)] /\ k - Len(s) \in 1 .. Len(t)
  <2>1. s \in Seq(A) /\ t \in Seq(A)
    BY <1>2, <1>3
  <2> QED BY <2>1, ConcatParts
<1>6. DOMAIN (s \o t) = 1 .. Len(s) + Len(t)
  BY <1>2, <1>3, <1>5
<1>7. ASSUME NEW j \in 1 .. m PROVE n + j \in n + 1 .. n + m /\ (n + j) - n = j
  BY <1>1
<1>8. \A j \in 1 .. m : Stores(c)[n + j] = StoreField(c, j)
  BY <1>2, <1>3, <1>4, <1>5, <1>7
<1> QED BY <1>1, <1>2, <1>3, <1>4, <1>5, <1>6, <1>8 DEF n, m

\* Where each store goes.
LEMMA WhereStored ==
  ASSUME Made, NEW c \in Class
  PROVE  /\ Covered(StoreTable(c, 1)) = 0 .. 1 /\ StoreTable(c, 1).what = <<"table", c, 1>>
         /\ \A i \in 2 .. Len(rec[c]) :
              /\ Covered(StoreTable(c, i)) = SuperSize(c) + 2 * (i - 2) .. SuperSize(c) + 2 * (i - 2) + 1
              /\ StoreTable(c, i).what = <<"table", c, i>> /\ TableAt(c, i) = SuperSize(c) + 2 * (i - 2)
         /\ \A j \in 1 .. Len(program.fields[c]) :
              j \notin OwnFields(c) => Covered(StoreField(c, j)) = {}
         /\ \A j \in OwnFields(c) :
              /\ Covered(StoreField(c, j)) =
                   Start(c, ElementOf(c, j)) .. Start(c, ElementOf(c, j)) + program.fields[c][j].units - 1
              /\ StoreField(c, j).what = <<"field", c, j>>
              /\ Start(c, ElementOf(c, j)) \in Nat /\ program.fields[c][j].units \in {1, 2}
              /\ Start(c, ElementOf(c, j)) >= SuperSize(c) + 2 * (TableElements(c) - 1)
              /\ Start(c, ElementOf(c, j)) >= SuperSize(c)
<1> DEFINE S == SuperSize(c)  t == TableElements(c)  E == elements[c]
<1>1. ProgramOK /\ LayoutOK(c) /\ S \in Nat /\ S >= 2 /\ Len(rec[c]) \in Nat /\ t \in Nat /\ t >= 1
  BY MadeParts, Counts DEF SuperOK
<1>2. /\ \A k \in 1 .. Elems(c) : Start(c, k) \in Nat /\ E[k] <= Start(c, k) /\ E[k] \in Nat
      /\ \A j, k \in 1 .. 1 + Elems(c) : j <= k => E[j] <= E[k]
      /\ E[t + 1] = S + 2 * (t - 1)
  <2>1. Elems(c) \in Nat /\ t \in 1 .. t
    BY <1>1, Counts
  <2>2. \A k \in 1 .. Elems(c) : k \in 1 .. 1 + Elems(c)
    BY <2>1
  <2>3. /\ \A k \in 1 .. 1 + Elems(c) : E[k] \in Nat
        /\ \A k \in 1 .. Elems(c) : Start(c, k) \in Nat /\ E[k] <= Start(c, k)
        /\ \A j, k \in 1 .. 1 + Elems(c) : j <= k => E[j] <= E[k]
    BY <1>1, LayoutParts
  <2>4. \A k \in 1 .. t : E[k + 1] = S + 2 * (k - 1)
    BY <1>1, LayoutParts
  <2>5. E[t + 1] = S + 2 * (t - 1)
    <3> HIDE DEF E, S, t
    <3> QED BY <2>1, <2>4
  <2> QED BY <2>2, <2>3, <2>5
<1>3. Covered(StoreTable(c, 1)) = 0 .. 1 /\ StoreTable(c, 1).what = <<"table", c, 1>>
  BY DEF Covered, StoreTable, Stored, TableAt
<1> HIDE DEF S, E, t
<1>4. ASSUME NEW i \in 2 .. Len(rec[c])
      PROVE  /\ Covered(StoreTable(c, i)) = S + 2 * (i - 2) .. S + 2 * (i - 2) + 1
             /\ StoreTable(c, i).what = <<"table", c, i>> /\ TableAt(c, i) = S + 2 * (i - 2)
  <2>1. i # 1 /\ i \in Nat
    BY <1>1
  <2>2. TableAt(c, i) = 2 * (i - 1) + (S - 2)
    BY <2>1 DEF TableAt, SuperOffset, S
  <2>3. TableAt(c, i) = S + 2 * (i - 2)
    BY <1>1, <2>1, <2>2
  <2> DEFINE x == S + 2 * (i - 2)
  <2>4. Covered(StoreTable(c, i)) = x .. x + 2 - 1 /\ StoreTable(c, i).what = <<"table", c, i>>
    BY <2>3 DEF Covered, StoreTable, Stored
  <2>5. x \in Int
    BY <1>1, <2>1
  <2> HIDE DEF x
  <2>6. x + 2 - 1 = x + 1
    BY <2>5
  <2> QED BY <2>3, <2>4, <2>6 DEF x
<1>5. ASSUME NEW j \in 1 .. Len(program.fields[c]), j \notin OwnFields(c) PROVE Covered(StoreField(c, j)) = {}
  <2> DEFINE x == Start(c, ElementOf(c, j))
  <2>1. x \in Nat
    BY <1>2, ElementOfParts
  <2>2. Covered(StoreField(c, j)) = x .. x + 0 - 1
    BY <1>5 DEF Covered, StoreField, Stored
  <2> HIDE DEF x
  <2>3. x .. x + 0 - 1 = {}
    BY <2>1
  <2> QED BY <2>2, <2>3
<1>6. ASSUME NEW j \in OwnFields(c)
      PROVE  LET x == Start(c, ElementOf(c, j)) IN
             /\ Covered(StoreField(c, j)) = x .. x + program.fields[c][j].units - 1
             /\ StoreField(c, j).what = <<"field", c, j>>
             /\ x \in Nat /\ program.fields[c][j].units \in {1, 2}
             /\ x >= S + 2 * (t - 1) /\ x >= S
  <2> DEFINE x == Start(c, ElementOf(c, j))  e == ElementOf(c, j)
  <2>1. e \in t + 1 .. Elems(c) /\ j \in 1 .. Len(program.fields[c]) /\ Elems(c) \in Nat
    BY <1>1, ElementOfParts, Counts DEF t
  <2>2. e \in 1 .. Elems(c) /\ t + 1 \in 1 .. 1 + Elems(c) /\ e \in 1 .. 1 + Elems(c) /\ t + 1 <= e
    BY <1>1, <2>1
  <2>3. x \in Nat /\ E[e] <= x /\ E[t + 1] <= E[e] /\ E[e] \in Nat
    BY <1>2, <2>2
  <2>4. x >= S + 2 * (t - 1) /\ x >= S
    <3> HIDE DEF x, e
    <3> QED BY <1>1, <1>2, <2>3
  <2>5. program.fields[c][j].units \in {1, 2}
    BY <1>1, <2>1, Counts
  <2>6. Covered(StoreField(c, j)) = x .. x + program.fields[c][j].units - 1 /\ StoreField(c, j).what = <<"field", c, j>>
    BY <1>6 DEF Covered, StoreField, Stored
  <2> QED BY <2>3, <2>4, <2>5, <2>6
<1> QED BY <1>3, <1>4, <1>5, <1>6 DEF S, t

LEMMA WrittenParts ==
  ASSUME NEW memory, NEW stores, NEW n \in Nat, DOMAIN stores = 1 .. n
  PROVE  /\ \A u : u \in DOMAIN Written(memory, stores) <=>
                     u \in DOMAIN memory \/ \E k \in 1 .. n : u \in Covered(stores[k])
         /\ \A u \in DOMAIN memory : (\A k \in 1 .. n : u \notin Covered(stores[k])) =>
              Written(memory, stores)[u] = memory[u]
         /\ \A k \in 1 .. n : \A u \in Covered(stores[k]) :
              (\A l \in 1 .. n : l > k => u \notin Covered(stores[l])) =>
                Written(memory, stores)[u] = stores[k].what
<1> DEFINE dom == DOMAIN memory \cup UNION {Covered(stores[k]) : k \in DOMAIN stores}
<1>1. \A u : u \in dom <=> u \in DOMAIN memory \/ \E k \in 1 .. n : u \in Covered(stores[k])
  OBVIOUS
<1>2. DOMAIN Written(memory, stores) = dom
  BY DEF Written
<1>3. \A u \in dom : Written(memory, stores)[u] =
                       IF Covering(stores, u) = {} THEN memory[u] ELSE stores[Max(Covering(stores, u))].what
  BY DEF Written
<1> HIDE DEF dom
<1>4. \A u : Covering(stores, u) = {k \in 1 .. n : u \in Covered(stores[k])}
  BY DEF Covering
<1>5. ASSUME NEW u \in DOMAIN memory, \A k \in 1 .. n : u \notin Covered(stores[k])
      PROVE  Written(memory, stores)[u] = memory[u]
  <2>1. u \in dom /\ Covering(stores, u) = {}
    BY <1>1, <1>4, <1>5
  <2> QED BY <1>3, <2>1
<1>6. ASSUME NEW k \in 1 .. n, NEW u \in Covered(stores[k]), \A l \in 1 .. n : l > k => u \notin Covered(stores[l])
      PROVE  Written(memory, stores)[u] = stores[k].what
  <2> DEFINE C == Covering(stores, u)
  <2>1. u \in dom /\ k \in C /\ C \in SUBSET (1 .. n)
    BY <1>1, <1>4
  <2>2. C # {}
    BY <2>1
  <2>3. Max(C) \in C /\ \A y \in C : y <= Max(C)
    <3> HIDE DEF C
    <3> QED BY <2>1, <2>2, MaxParts
  <2>4. Max(C) \in 1 .. n /\ u \in Covered(stores[Max(C)]) /\ k <= Max(C)
    <3>1. \A l \in C : l \in 1 .. n /\ u \in Covered(stores[l])
      BY <1>4
    <3> HIDE DEF C
    <3> QED BY <2>1, <2>3, <3>1
  <2>5. Max(C) = k
    <3> HIDE DEF C
    <3> QED BY <1>6, <2>4
  <2> QED BY <1>3, <2>1, <2>2, <2>5
<1> QED BY <1>1, <1>2, <1>5, <1>6

(* A class is at least as big as each class above it, and has at least as  *)
(* many tables.                                                            *)
Above(d, c) ==
  d \in Class /\ Size(d) <= Size(c) /\ SuperSize(d) <= SuperSize(c) /\ Len(rec[d]) <= Len(rec[c])

LEMMA Sizes ==
  ASSUME Made, NEW c \in Class
  PROVE  /\ SuperSize(c) \in Nat /\ SuperSize(c) >= 2 /\ Size(c) \in Nat /\ Size(c) >= SuperSize(c)
         /\ Len(rec[c]) \in Nat /\ Len(rec[c]) >= 1 /\ TableElements(c) \in Nat /\ TableElements(c) >= 1
         /\ extending(c) # NoClass => /\ extending(c) \in Class /\ SuperSize(c) = Size(extending(c))
                                      /\ Len(rec[extending(c)]) <= Len(rec[c])
<1>1. ProgramOK /\ LayoutOK(c) /\ RecOK(c) /\ SuperOK(c) /\ extending(c) \in Or(Class)
  BY MadeParts
<1>2. Len(rec[c]) \in Nat /\ Len(rec[c]) >= 1
  BY MadeParts
<1>3. Size(c) \in Nat /\ Size(c) >= SuperSize(c)
  BY <1>1, LayoutParts
<1>4. extending(c) # NoClass => /\ extending(c) \in Class /\ SuperSize(c) = Size(extending(c))
                                /\ Len(rec[extending(c)]) <= Len(rec[c])
  BY <1>1 DEF Or, SuperSize, RecOK
<1>5. TableElements(c) \in Nat /\ TableElements(c) >= 1
  BY <1>1, Counts
<1> QED BY <1>1, <1>2, <1>3, <1>4, <1>5 DEF SuperOK

LEMMA Chain ==
  ASSUME Made
  PROVE  \A c \in Class : \A d \in superTypes[c] :
           Above(d, c) /\ (d # c => extending(c) \in Class /\ d \in superTypes[extending(c)] /\ Size(d) <= SuperSize(c))
<1>1. ProgramOK
  BY MadeParts
<1> DEFINE P == {c \in Or(Class) : \A d \in superTypes[c] : Above(d, c)}
<1>2. NoClass \in P
  BY <1>1, SuperTypes DEF Or
<1>3. ASSUME NEW c \in Class, extending(c) \in P, NEW d \in superTypes[c]
      PROVE  Above(d, c) /\ (d # c => extending(c) \in Class /\ d \in superTypes[extending(c)] /\ Size(d) <= SuperSize(c))
  <2>1. d = c \/ d \in superTypes[extending(c)]
    BY <1>1, SuperTypes
  <2>2. CASE d = c
    <3>1. Size(c) \in Nat /\ SuperSize(c) \in Nat /\ Len(rec[c]) \in Nat
      BY Sizes
    <3> QED BY <2>2, <3>1 DEF Above
  <2>3. CASE d # c
    <3> DEFINE e == extending(c)
    <3>1. d \in superTypes[e] /\ e # NoClass
      BY <1>1, <2>1, <2>3, SuperTypes
    <3>2. e \in Class /\ SuperSize(c) = Size(e) /\ Len(rec[e]) <= Len(rec[c])
      BY <3>1, Sizes
    <3>3. Above(d, e)
      BY <1>3, <3>1
    <3> HIDE DEF e
    <3>4. d \in Class /\ Size(d) <= Size(e) /\ SuperSize(d) <= SuperSize(e) /\ Len(rec[d]) <= Len(rec[e])
      BY <3>3 DEF Above
    <3>5. /\ Size(d) \in Nat /\ Size(e) \in Nat /\ Size(c) \in Nat /\ SuperSize(d) \in Nat /\ SuperSize(e) \in Nat
          /\ SuperSize(c) \in Nat /\ Len(rec[d]) \in Nat /\ Len(rec[e]) \in Nat /\ Len(rec[c]) \in Nat
          /\ Size(d) >= SuperSize(d) /\ Size(c) >= SuperSize(c)
      BY <3>2, <3>4, Sizes
    <3>6. Size(d) <= SuperSize(c) /\ Size(d) <= Size(c) /\ SuperSize(d) <= SuperSize(c) /\ Len(rec[d]) <= Len(rec[c])
      BY <3>2, <3>4, <3>5
    <3> QED BY <3>1, <3>2, <3>4, <3>6 DEF Above, e
  <2> QED BY <2>2, <2>3
<1>4. \A c \in Class : extending(c) \in P => c \in P
  BY <1>3 DEF Or
<1>5. Or(Class) \subseteq P
  <2> HIDE DEF P
  <2> QED BY <1>1, <1>2, <1>4, OfAllClasses
<1>6. \A c \in Class : extending(c) \in P
  BY <1>1, <1>5, ProgramParts
<1> QED BY <1>3, <1>6

(* What the constructors of a class leave in an object.                    *)
Room(d) == Len(rec[d]) <= TableElements(d)
HeldIn(o, at, units, what) == \A u \in at .. at + units - 1 : u \in DOMAIN o /\ o[u] = what
PointersIn(o, d) == \A i \in 2 .. Len(rec[d]) : HeldIn(o, TableAt(d, i), 2, <<"table", d, i>>)
FieldIn(o, d, j) == HeldIn(o, Start(d, ElementOf(d, j)), program.fields[d][j].units, <<"field", d, j>>)
FieldsIn(o, d) == \A j \in OwnFields(d) : FieldIn(o, d, j)
Pointed(c) == SuperSize(c) + 2 * (Len(rec[c]) - 1)   \* where the pointers to its tables end

(* An object o behind the constructor of c: its first pointer is that of   *)
(* c; every class in it that has room for its pointers finds them, and its *)
(* fields if it is sound; and how far what is written reaches.             *)
Built(c, o) ==
  /\ HeldIn(o, 0, 2, <<"table", c, 1>>)
  /\ \A d \in superTypes[c] : Room(d) => PointersIn(o, d)
  /\ \A d \in superTypes[c] : Sound(d) => FieldsIn(o, d)
  /\ (\A d \in superTypes[c] : Sound(d)) => DOMAIN o \subseteq 0 .. Size(c) - 1
  /\ (\A d \in superTypes[c] : program.fields[d] = <<>>) => DOMAIN o \subseteq 0 .. Pointed(c) - 1
  /\ \A i \in 1 .. Len(rec[c]) : TableAt(c, i) + 1 \in DOMAIN o

(* What the constructor of the class itself does to memory o.              *)
LEMMA OwnStores ==
  ASSUME Made, NEW c \in Class, NEW o
  PROVE  LET w == Written(o, Stores(c)) IN
         /\ HeldIn(w, 0, 2, <<"table", c, 1>>)
         /\ Room(c) => PointersIn(w, c)
         /\ Sound(c) => FieldsIn(w, c)
         /\ \A u \in DOMAIN o : 2 <= u /\ u < SuperSize(c) => u \in DOMAIN w /\ w[u] = o[u]
         /\ \A u \in DOMAIN o : u \in DOMAIN w
         /\ \A i \in 1 .. Len(rec[c]) : TableAt(c, i) + 1 \in DOMAIN w
<1> DEFINE w == Written(o, Stores(c))  n == Len(rec[c])  m == Len(program.fields[c])
           S == SuperSize(c)  t == TableElements(c)
           T(i) == Covered(StoreTable(c, i))
           F(j) == Covered(StoreField(c, j))
           at(j) == Start(c, ElementOf(c, j))
<1>1. n \in Nat /\ n >= 1 /\ m \in Nat /\ S \in Nat /\ S >= 2 /\ t \in Nat /\ t >= 1
  BY Sizes, MadeParts, Counts
<1>2. /\ DOMAIN Stores(c) = 1 .. n + m
      /\ \A i \in 1 .. n : Stores(c)[i] = StoreTable(c, i)
      /\ \A j \in 1 .. m : Stores(c)[n + j] = StoreField(c, j)
      /\ \A k \in n + 1 .. n + m : Stores(c)[k] = StoreField(c, k - n) /\ k - n \in 1 .. m
  BY StoresParts
<1>3. /\ T(1) = 0 .. 1 /\ StoreTable(c, 1).what = <<"table", c, 1>>
      /\ \A i \in 2 .. n : /\ T(i) = S + 2 * (i - 2) .. S + 2 * (i - 2) + 1
                           /\ StoreTable(c, i).what = <<"table", c, i>> /\ TableAt(c, i) = S + 2 * (i - 2)
      /\ \A j \in 1 .. m : j \notin OwnFields(c) => F(j) = {}
      /\ \A j \in OwnFields(c) : /\ F(j) = at(j) .. at(j) + program.fields[c][j].units - 1
                                 /\ StoreField(c, j).what = <<"field", c, j>>
                                 /\ at(j) \in Nat /\ program.fields[c][j].units \in {1, 2}
                                 /\ at(j) >= S + 2 * (t - 1) /\ at(j) >= S
  BY WhereStored
<1>4. OwnFields(c) \subseteq 1 .. m
  BY ElementOfParts
<1>5. /\ \A u : u \in DOMAIN w <=> u \in DOMAIN o \/ \E k \in 1 .. n + m : u \in Covered(Stores(c)[k])
      /\ \A u \in DOMAIN o : (\A k \in 1 .. n + m : u \notin Covered(Stores(c)[k])) => w[u] = o[u]
      /\ \A k \in 1 .. n + m : \A u \in Covered(Stores(c)[k]) :
           (\A l \in 1 .. n + m : l > k => u \notin Covered(Stores(c)[l])) => w[u] = Stores(c)[k].what
  <2> DEFINE N == n + m  s == Stores(c)
  <2> HIDE DEF w, n, m, T, F, at, S, t
  <2>1. N \in Nat /\ DOMAIN s = 1 .. N
    BY <1>1, <1>2
  <2> HIDE DEF N, s
  <2>2. /\ \A u : u \in DOMAIN Written(o, s) <=> u \in DOMAIN o \/ \E k \in 1 .. N : u \in Covered(s[k])
        /\ \A u \in DOMAIN o : (\A k \in 1 .. N : u \notin Covered(s[k])) => Written(o, s)[u] = o[u]
        /\ \A k \in 1 .. N : \A u \in Covered(s[k]) :
             (\A l \in 1 .. N : l > k => u \notin Covered(s[l])) => Written(o, s)[u] = s[k].what
    BY <2>1, WrittenParts
  <2> QED BY <2>2 DEF w, N, s
<1> HIDE DEF w, n, m, S, t, T, F, at
<1>6. \A i \in 1 .. n : i \in 1 .. n + m /\ Covered(Stores(c)[i]) = T(i)
  BY <1>1, <1>2 DEF T
<1>7. \A j \in 1 .. m : n + j \in 1 .. n + m /\ Covered(Stores(c)[n + j]) = F(j)
  BY <1>1, <1>2 DEF F
<1>8. \A k \in n + 1 .. n + m : k - n \in 1 .. m /\ Covered(Stores(c)[k]) = F(k - n)
  BY <1>2 DEF F
\* Behind the first two units, nothing below the superclass's end is stored.
<1>9. ASSUME NEW k \in 1 .. n + m, NEW u \in Covered(Stores(c)[k]), k # 1 PROVE u \in Int /\ u >= S
  <2>1. CASE k <= n
    <3>1. k \in 2 .. n /\ k \in 1 .. n
      BY <1>1, <1>9, <2>1
    <3>2. u \in S + 2 * (k - 2) .. S + 2 * (k - 2) + 1 /\ k - 2 \in Nat
      BY <1>1, <1>3, <1>6, <3>1
    <3> QED BY <1>1, <3>2
  <2>2. CASE k > n
    <3>1. k \in n + 1 .. n + m
      BY <1>1, <2>2
    <3>2. k - n \in 1 .. m /\ u \in F(k - n)
      BY <1>8, <1>9, <3>1
    <3>3. PICK j \in OwnFields(c) : u \in F(j)
      BY <1>3, <3>2
    <3>4. u \in at(j) .. at(j) + program.fields[c][j].units - 1 /\ at(j) \in Nat /\ at(j) >= S
      BY <1>3, <3>3
    <3> QED BY <1>1, <3>4
  <2> QED BY <1>1, <2>1, <2>2
<1>10. HeldIn(w, 0, 2, <<"table", c, 1>>)
  <2> SUFFICES ASSUME NEW u \in 0 .. 0 + 2 - 1 PROVE u \in DOMAIN w /\ w[u] = <<"table", c, 1>>
    BY DEF HeldIn
  <2>1. 1 \in 1 .. n /\ 1 \in 1 .. n + m /\ u \in 0 .. 1
    BY <1>1
  <2>2. u \in Covered(Stores(c)[1]) /\ Stores(c)[1].what = <<"table", c, 1>>
    BY <1>2, <1>3, <1>6, <2>1
  <2>3. ASSUME NEW l \in 1 .. n + m, l > 1 PROVE u \notin Covered(Stores(c)[l])
    BY <1>1, <1>9, <2>1, <2>3
  <2> QED BY <1>5, <2>1, <2>2, <2>3
<1>11. ASSUME Room(c) PROVE PointersIn(w, c)
  <2> SUFFICES ASSUME NEW i \in 2 .. n, NEW u \in TableAt(c, i) .. TableAt(c, i) + 2 - 1
               PROVE  u \in DOMAIN w /\ w[u] = <<"table", c, i>>
    BY DEF PointersIn, HeldIn, n
  <2> DEFINE x == S + 2 * (i - 2)
  <2>1. i \in 1 .. n /\ i \in 1 .. n + m /\ x \in Nat /\ n <= t /\ i <= n /\ i \in Nat
    BY <1>1, <1>11 DEF Room, n, t
  <2>2. TableAt(c, i) = x /\ T(i) = x .. x + 1 /\ Stores(c)[i].what = <<"table", c, i>>
    BY <1>2, <1>3, <2>1
  <2>3. u \in x .. x + 1 /\ u \in T(i)
    BY <2>1, <2>2
  <2>4. ASSUME NEW l \in 1 .. n + m, l > i PROVE u \notin Covered(Stores(c)[l])
    <3>1. CASE l <= n
      <4>1. l \in 2 .. n /\ l \in 1 .. n
        BY <1>1, <2>1, <2>4, <3>1
      <4>2. Covered(Stores(c)[l]) = S + 2 * (l - 2) .. S + 2 * (l - 2) + 1
        BY <1>3, <1>6, <4>1
      <4> QED BY <1>1, <2>1, <2>3, <2>4, <4>1, <4>2
    <3>2. CASE l > n
      <4>1. l \in n + 1 .. n + m
        BY <1>1, <3>2
      <4>2. l - n \in 1 .. m /\ Covered(Stores(c)[l]) = F(l - n)
        BY <1>8, <4>1
      <4>3. ASSUME NEW j \in OwnFields(c) PROVE u \notin F(j)
        <5>1. F(j) = at(j) .. at(j) + program.fields[c][j].units - 1 /\ at(j) \in Nat /\ at(j) >= S + 2 * (t - 1)
          BY <1>3
        <5> QED BY <1>1, <2>1, <2>3, <5>1
      <4> QED BY <1>3, <4>2, <4>3
    <3> QED BY <1>1, <3>1, <3>2
  <2>5. u \in Covered(Stores(c)[i])
    BY <1>6, <2>1, <2>3
  <2> QED BY <1>5, <2>1, <2>2, <2>4, <2>5
<1>12. ASSUME Sound(c) PROVE FieldsIn(w, c)
  <2> SUFFICES ASSUME NEW j \in OwnFields(c), NEW u \in at(j) .. at(j) + program.fields[c][j].units - 1
               PROVE  u \in DOMAIN w /\ w[u] = <<"field", c, j>>
    BY DEF FieldsIn, FieldIn, HeldIn, at
  <2>1. j \in 1 .. m /\ n + j \in 1 .. n + m /\ u \in F(j) /\ Stores(c)[n + j].what = <<"field", c, j>>
    BY <1>2, <1>3, <1>4, <1>7
  <2>2. u \in Covered(Stores(c)[n + j])
    BY <1>7, <2>1
  <2>3. ASSUME NEW l \in 1 .. n + m, l > n + j PROVE u \notin Covered(Stores(c)[l])
    <3>1. l \in n + 1 .. n + m /\ l - n > j /\ l - n \in 1 .. m
      BY <1>1, <2>1, <2>3
    <3>2. Covered(Stores(c)[l]) = F(l - n)
      BY <1>8, <3>1
    <3>3. ASSUME NEW k \in OwnFields(c), k > j PROVE u \notin F(k)
      <4>1. program.fields[c][j].units = Units(c, ElementOf(c, j))
        BY <1>12 DEF Sound, WidthsAgree
      <4>2. /\ ElementOf(c, j) \in t + 1 .. Elems(c) /\ ElementOf(c, k) \in t + 1 .. Elems(c)
            /\ ElementOf(c, j) < ElementOf(c, k)
        <5>1. j < k
          BY <1>1, <1>4, <3>3
        <5> QED BY <5>1, ElementOfParts DEF t
      <4> DEFINE a == ElementOf(c, j)  b == ElementOf(c, k)  E == elements[c]
      <4>3. /\ Start(c, a) \in Nat /\ E[a + 1] = Start(c, a) + Units(c, a)
            /\ E[b] <= Start(c, b) /\ Start(c, b) \in Nat
            /\ E[a + 1] <= E[b] /\ E[a + 1] \in Nat /\ E[b] \in Nat
        <5>1. Elems(c) \in Nat /\ ProgramOK /\ LayoutOK(c)
          BY MadeParts, Counts
        <5>2. /\ a \in 1 .. Elems(c) /\ b \in 1 .. Elems(c) /\ a + 1 \in 1 .. 1 + Elems(c) /\ b \in 1 .. 1 + Elems(c)
              /\ a + 1 <= b
          BY <1>1, <4>2, <5>1
        <5> HIDE DEF a, b, E
        <5>3. /\ Start(c, a) \in Nat /\ elements[c][a + 1] = Start(c, a) + Units(c, a)
              /\ elements[c][b] <= Start(c, b) /\ Start(c, b) \in Nat
          BY <5>1, <5>2, LayoutParts
        <5>4. elements[c][a + 1] <= elements[c][b] /\ elements[c][a + 1] \in Nat /\ elements[c][b] \in Nat
          BY <5>1, <5>2, LayoutParts
        <5> QED BY <5>3, <5>4 DEF E
      <4>4. at(j) = Start(c, a) /\ at(k) = Start(c, b) /\ program.fields[c][j].units = Units(c, a)
        BY <4>1 DEF at
      <4> HIDE DEF a, b, E
      <4>5. F(k) = at(k) .. at(k) + program.fields[c][k].units - 1 /\ program.fields[c][j].units \in {1, 2}
        BY <1>3
      <4>6. u < at(k) /\ u \in Int /\ at(k) \in Nat
        BY <4>3, <4>4, <4>5
      <4> QED BY <4>5, <4>6
    <3> QED BY <1>3, <3>1, <3>2, <3>3
  <2> QED BY <1>5, <2>1, <2>2, <2>3
<1>13. ASSUME NEW u \in DOMAIN o, 2 <= u, u < S PROVE u \in DOMAIN w /\ w[u] = o[u]
  <2>1. ASSUME NEW k \in 1 .. n + m PROVE u \notin Covered(Stores(c)[k])
    <3>1. CASE k = 1
      <4>1. Covered(Stores(c)[k]) = 0 .. 1
        BY <1>1, <1>3, <1>6, <3>1
      <4> QED BY <1>13, <4>1
    <3>2. CASE k # 1
      BY <1>1, <1>9, <1>13, <3>2
    <3> QED BY <3>1, <3>2
  <2> QED BY <1>5, <2>1
<1>14. ASSUME NEW i \in 1 .. n PROVE TableAt(c, i) + 1 \in DOMAIN w
  <2>1. i \in 1 .. n + m /\ Covered(Stores(c)[i]) = T(i)
    BY <1>6
  <2>2. TableAt(c, i) + 1 \in T(i)
    <3>1. CASE i = 1
      <4>1. TableAt(c, i) = 0
        BY <3>1 DEF TableAt
      <4> QED BY <1>3, <3>1, <4>1
    <3>2. CASE i # 1
      <4>1. i \in 2 .. n
        BY <1>1, <3>2
      <4> QED BY <1>1, <1>3, <4>1
    <3> QED BY <3>1, <3>2
  <2> QED BY <1>5, <2>1, <2>2
<1>15. \A u \in DOMAIN o : u \in DOMAIN w
  BY <1>5
<1> QED BY <1>10, <1>11, <1>12, <1>13, <1>14, <1>15 DEF w, n, S

\* Where they end.
LEMMA OwnDomain ==
  ASSUME Made, NEW c \in Class, NEW o, NEW u \in DOMAIN Written(o, Stores(c)), u \notin DOMAIN o
  PROVE  /\ Sound(c) => u \in 0 .. Size(c) - 1
         /\ program.fields[c] = <<>> => u \in 0 .. Pointed(c) - 1
<1> DEFINE n == Len(rec[c])  m == Len(program.fields[c])  S == SuperSize(c)  t == TableElements(c)
           E == elements[c]
           F(j) == Covered(StoreField(c, j))
           at(j) == Start(c, ElementOf(c, j))
<1>1. n \in Nat /\ n >= 1 /\ m \in Nat /\ S \in Nat /\ S >= 2 /\ t \in Nat /\ t >= 1 /\ Size(c) \in Nat
  BY Sizes, MadeParts, Counts
<1>2. PICK k \in 1 .. n + m : u \in Covered(Stores(c)[k])
  <2> DEFINE N == n + m  s == Stores(c)
  <2>0. DOMAIN s = 1 .. N
    BY StoresParts
  <2> HIDE DEF n, m, s
  <2>1. N \in Nat /\ DOMAIN s = 1 .. N
    BY <1>1, <2>0
  <2> HIDE DEF N, s
  <2>2. u \in DOMAIN Written(o, s)
    BY DEF s
  <2>3. \E k \in 1 .. N : u \in Covered(s[k])
    BY <2>1, <2>2, WrittenParts
  <2> QED BY <2>3 DEF N, s
<1>3. \/ k \in 1 .. n /\ u \in Covered(StoreTable(c, k))
      \/ \E j \in OwnFields(c) : u \in F(j)
  <2>1. /\ \A i \in 1 .. n : Stores(c)[i] = StoreTable(c, i)
        /\ \A i \in n + 1 .. n + m : Stores(c)[i] = StoreField(c, i - n) /\ i - n \in 1 .. m
    BY StoresParts
  <2>2. \A j \in 1 .. m : j \notin OwnFields(c) => F(j) = {}
    BY WhereStored
  <2> HIDE DEF n, m
  <2>3. k \in 1 .. n \/ k \in n + 1 .. n + m
    BY <1>1
  <2> QED BY <1>2, <2>1, <2>2, <2>3
<1>4. ASSUME k \in 1 .. n, u \in Covered(StoreTable(c, k))
      PROVE  u \in 0 .. S + 2 * (k - 1) - 1
  <2>1. /\ Covered(StoreTable(c, 1)) = 0 .. 1
        /\ \A i \in 2 .. n : Covered(StoreTable(c, i)) = S + 2 * (i - 2) .. S + 2 * (i - 2) + 1
    BY WhereStored
  <2> HIDE DEF n, m, S
  <2>2. CASE k = 1
    BY <1>1, <1>4, <2>1, <2>2
  <2>3. CASE k # 1
    <3>1. k \in 2 .. n /\ k - 2 \in Nat
      BY <1>1, <1>4, <2>3
    <3> QED BY <1>1, <1>4, <2>1, <3>1
  <2> QED BY <2>2, <2>3
<1>5. ASSUME Sound(c) PROVE u \in 0 .. Size(c) - 1
  <2>1. ProgramOK /\ LayoutOK(c) /\ Elems(c) \in Nat /\ t <= Elems(c)
    BY MadeParts, Counts
  <2>2. /\ \A i \in 1 .. 1 + Elems(c) : E[i] \in Nat /\ E[i] <= Size(c)
        /\ \A i \in 1 .. t : E[i + 1] = S + 2 * (i - 1)
        /\ \A i \in 1 .. Elems(c) : E[i + 1] = Start(c, i) + Units(c, i)
    BY <2>1, LayoutParts
  <2>3. n <= t
    BY <1>5 DEF Sound
  <2>4. ASSUME NEW j \in OwnFields(c), u \in F(j) PROVE u \in 0 .. Size(c) - 1
    <3> DEFINE a == ElementOf(c, j)
    <3>1. a \in 1 .. Elems(c)
      BY <1>1, <2>1, ElementOfParts, Counts
    <3>2. program.fields[c][j].units = Units(c, a)
      BY <1>5 DEF Sound, WidthsAgree
    <3>3. F(j) = at(j) .. at(j) + program.fields[c][j].units - 1 /\ at(j) \in Nat /\ program.fields[c][j].units \in {1, 2}
      BY WhereStored
    <3> HIDE DEF E, a, F
    <3>4. a + 1 \in 1 .. 1 + Elems(c)
      BY <2>1, <3>1
    <3>5. E[a + 1] = at(j) + Units(c, a) /\ E[a + 1] <= Size(c) /\ E[a + 1] \in Nat
      BY <2>2, <3>1, <3>4 DEF a
    <3> HIDE DEF at
    <3>6. F(j) = at(j) .. E[a + 1] - 1
      BY <3>2, <3>3, <3>5
    <3> DEFINE x == at(j)  y == E[a + 1]  z == Size(c)
    <3>7. u \in x .. y - 1 /\ x \in Nat /\ y \in Nat /\ z \in Nat /\ y <= z
      BY <1>1, <2>4, <3>3, <3>5, <3>6
    <3> HIDE DEF x, y, z
    <3>8. u \in 0 .. z - 1
      BY <3>7
    <3> QED BY <3>8 DEF z
  <2>5. ASSUME k \in 1 .. n, u \in Covered(StoreTable(c, k)) PROVE u \in 0 .. Size(c) - 1
    <3> HIDE DEF n, m, S, t, E
    <3>1. u \in 0 .. S + 2 * (k - 1) - 1
      BY <1>4, <2>5
    <3>2. k \in 1 .. t /\ k \in Nat /\ k >= 1
      BY <1>1, <2>3, <2>5
    <3>3. k + 1 \in 1 .. 1 + Elems(c)
      BY <1>1, <2>1, <3>2
    <3>4. E[k + 1] = S + 2 * (k - 1) /\ E[k + 1] <= Size(c)
      BY <2>2, <3>2, <3>3
    <3> QED BY <1>1, <3>1, <3>2, <3>4
  <2> QED BY <1>3, <2>4, <2>5
<1>6. ASSUME program.fields[c] = <<>> PROVE u \in 0 .. Pointed(c) - 1
  <2>1. OwnFields(c) = {}
    BY <1>6 DEF OwnFields
  <2>2. k \in 1 .. n /\ u \in 0 .. S + 2 * (k - 1) - 1
    BY <1>3, <1>4, <2>1
  <2>3. Pointed(c) = S + 2 * (n - 1)
    BY DEF Pointed
  <2> HIDE DEF n, S
  <2> QED BY <1>1, <2>2, <2>3
<1> QED BY <1>5, <1>6

(* A constructor of a class runs when that of its superclass has returned. *)
Begun(c, o) == IF extending(c) = NoClass THEN o = <<>> ELSE Built(extending(c), o)

LEMMA Constructs ==
  ASSUME Made, NEW c \in Class, NEW o, Begun(c, o)
  PROVE  Built(c, Written(o, Stores(c)))
<1> DEFINE w == Written(o, Stores(c))  S == SuperSize(c)  e == extending(c)
<1>1. /\ HeldIn(w, 0, 2, <<"table", c, 1>>)
      /\ Room(c) => PointersIn(w, c)
      /\ Sound(c) => FieldsIn(w, c)
      /\ \A u \in DOMAIN o : 2 <= u /\ u < S => u \in DOMAIN w /\ w[u] = o[u]
      /\ \A u \in DOMAIN o : u \in DOMAIN w
      /\ \A i \in 1 .. Len(rec[c]) : TableAt(c, i) + 1 \in DOMAIN w
  BY OwnStores
<1>2. /\ Sound(c) => \A u \in DOMAIN w : u \in DOMAIN o \/ u \in 0 .. Size(c) - 1
      /\ program.fields[c] = <<>> => \A u \in DOMAIN w : u \in DOMAIN o \/ u \in 0 .. Pointed(c) - 1
  BY OwnDomain
<1>3. /\ ProgramOK /\ c \in superTypes[c] /\ S \in Nat /\ S >= 2 /\ Size(c) \in Nat /\ Size(c) >= S
      /\ Len(rec[c]) \in Nat /\ Len(rec[c]) >= 1
  BY MadeParts, SuperTypes, Sizes
<1> HIDE DEF w
\* Without a superclass there is nothing but what the constructor stores.
<1>4. CASE e = NoClass
  <2>1. o = <<>> /\ DOMAIN o = {}
    BY <1>4 DEF Begun
  <2>2. superTypes[c] = {c}
    BY <1>3, <1>4, SuperTypes
  <2> QED BY <1>1, <1>2, <2>1, <2>2 DEF Built, w
<1>5. CASE e # NoClass
  <2>1. e \in Class /\ S = Size(e) /\ Built(e, o) /\ superTypes[c] = {c} \cup superTypes[e] /\ Len(rec[e]) <= Len(rec[c])
    BY <1>3, <1>5, SuperTypes, Sizes DEF Begun
  <2> HIDE DEF e, S
  <2>2. ASSUME NEW at \in Nat, NEW units \in Nat, NEW what, at >= 2, at + units <= S, HeldIn(o, at, units, what)
        PROVE  HeldIn(w, at, units, what)
    <3> SUFFICES ASSUME NEW u \in at .. at + units - 1 PROVE u \in DOMAIN w /\ w[u] = what
      BY DEF HeldIn
    <3>1. u \in DOMAIN o /\ o[u] = what
      BY <2>2 DEF HeldIn
    <3>2. 2 <= u /\ u < S
      BY <1>3, <2>2
    <3> QED BY <1>1, <3>1, <3>2
  <2>3. ASSUME NEW d \in superTypes[e]
        PROVE  /\ d \in Class /\ Size(d) <= S /\ Size(d) \in Nat /\ SuperSize(d) \in Nat /\ SuperSize(d) >= 2
               /\ Len(rec[d]) \in Nat /\ TableElements(d) \in Nat /\ TableElements(d) >= 1
    <3>1. d \in Class /\ Size(d) <= Size(e)
      BY <2>1, Chain DEF Above
    <3> QED BY <2>1, <3>1, Sizes
  <2>4. ASSUME NEW d \in superTypes[e], Room(d) PROVE PointersIn(w, d)
    <3> SUFFICES ASSUME NEW i \in 2 .. Len(rec[d]) PROVE HeldIn(w, TableAt(d, i), 2, <<"table", d, i>>)
      BY DEF PointersIn
    <3>1. HeldIn(o, TableAt(d, i), 2, <<"table", d, i>>)
      BY <2>1, <2>4 DEF Built, PointersIn
    <3>2. TableAt(d, i) = SuperSize(d) + 2 * (i - 2)
      BY <2>3, WhereStored
    <3> DEFINE x == SuperSize(d)  t == TableElements(d)  a == TableAt(d, i)
    <3>3. Len(rec[d]) <= t
      BY <2>4 DEF Room
    <3>4. x + 2 * (t - 1) <= Size(d)
      <4>1. LayoutOK(d) /\ ProgramOK /\ d \in Class
        BY <2>3, MadeParts
      <4>2. \A k \in 1 .. t : elements[d][k + 1] = x + 2 * (k - 1)
        BY <4>1, LayoutParts
      <4>3. \A k \in 1 .. 1 + Elems(d) : elements[d][k] <= Size(d)
        BY <4>1, LayoutParts
      <4>4. Elems(d) \in Nat /\ t <= Elems(d)
        BY <4>1, Counts
      <4>5. t \in 1 .. t /\ t + 1 \in 1 .. 1 + Elems(d)
        <5> HIDE DEF t
        <5> QED BY <2>3, <4>4 DEF t
      <4> QED BY <4>2, <4>3, <4>5
    <3>5. a \in Nat /\ a >= 2 /\ a + 2 <= S
      <4>1. i \in Nat /\ i >= 2 /\ i <= t
        BY <2>3, <3>3
      <4>2. x \in Nat /\ x >= 2 /\ t \in Nat /\ Size(d) <= S /\ Size(d) \in Nat /\ a = x + 2 * (i - 2) /\ S \in Nat
        BY <1>3, <2>3, <3>2
      <4> HIDE DEF x, t, a
      <4> QED BY <3>4, <4>1, <4>2
    <3> HIDE DEF a
    <3> QED BY <2>2, <3>1, <3>5 DEF a
  <2>5. ASSUME NEW d \in superTypes[e], Sound(d) PROVE FieldsIn(w, d)
    <3> SUFFICES ASSUME NEW j \in OwnFields(d) PROVE FieldIn(w, d, j)
      BY DEF FieldsIn
    <3> DEFINE x == Start(d, ElementOf(d, j))  n == program.fields[d][j].units
    <3>1. HeldIn(o, x, n, <<"field", d, j>>)
      BY <2>1, <2>5 DEF Built, FieldsIn, FieldIn
    <3>2. x \in Nat /\ n \in {1, 2} /\ x >= SuperSize(d)
      BY <2>3, WhereStored
    <3>3. x + n <= Size(d)
      <4>1. LayoutOK(d) /\ ProgramOK /\ d \in Class /\ Elems(d) \in Nat
        BY <2>3, MadeParts, Counts
      <4>2. n = Units(d, ElementOf(d, j))
        BY <2>5 DEF Sound, WidthsAgree
      <4> DEFINE k == ElementOf(d, j)
      <4>3. k \in 1 .. Elems(d)
        BY <2>3, <4>1, ElementOfParts, Counts
      <4> HIDE DEF k
      <4>4. k + 1 \in 1 .. 1 + Elems(d)
        BY <4>1, <4>3
      <4>5. elements[d][k + 1] = Start(d, k) + Units(d, k) /\ elements[d][k + 1] <= Size(d)
        BY <4>1, <4>3, <4>4, LayoutParts
      <4> QED BY <4>2, <4>5 DEF k
    <3> HIDE DEF x, n
    <3>4. x >= 2 /\ x + n <= S /\ n \in Nat
      BY <1>3, <2>3, <3>2, <3>3
    <3>5. HeldIn(w, x, n, <<"field", d, j>>)
      BY <2>2, <3>1, <3>2, <3>4
    <3> QED BY <3>5 DEF FieldIn, x, n
  <2>6. ASSUME \A d \in superTypes[c] : Sound(d) PROVE DOMAIN w \subseteq 0 .. Size(c) - 1
    <3>1. DOMAIN o \subseteq 0 .. Size(e) - 1
      BY <2>1, <2>6 DEF Built
    <3>2. \A u \in 0 .. Size(e) - 1 : u \in 0 .. Size(c) - 1
      BY <1>3, <2>1
    <3> QED BY <1>2, <1>3, <2>6, <3>1, <3>2
  <2>7. ASSUME \A d \in superTypes[c] : program.fields[d] = <<>> PROVE DOMAIN w \subseteq 0 .. Pointed(c) - 1
    <3>1. DOMAIN o \subseteq 0 .. Pointed(e) - 1
      BY <2>1, <2>7 DEF Built
    <3> DEFINE x == SuperSize(e)  k == Len(rec[e])  n == Len(rec[c])
    <3>2. x \in Nat /\ x <= S /\ k \in Nat /\ k >= 1 /\ k <= n
      BY <2>1, Sizes
    <3>3. Pointed(e) = x + 2 * (k - 1) /\ Pointed(c) = S + 2 * (n - 1)
      BY DEF Pointed, S
    <3>4. n \in Nat
      BY <1>3
    <3> HIDE DEF x, k, n
    <3>5. \A u \in 0 .. Pointed(e) - 1 : u \in 0 .. Pointed(c) - 1
      BY <1>3, <3>2, <3>3, <3>4
    <3> QED BY <1>2, <1>3, <2>7, <3>1, <3>5
  <2>8. \A d \in superTypes[c] : d = c \/ d \in superTypes[e]
    BY <2>1
  <2>9. \A d \in superTypes[c] : Room(d) => PointersIn(w, d)
    BY <1>1, <2>4, <2>8
  <2>10. \A d \in superTypes[c] : Sound(d) => FieldsIn(w, d)
    BY <1>1, <2>5, <2>8
  <2>11. Built(c, w)
    BY <1>1, <2>6, <2>7, <2>9, <2>10 DEF Built
  <2> QED BY <2>11 DEF w
<1> QED BY <1>4, <1>5 DEF w

LEMMA BuiltFrame ==
  ASSUME program' = program, elements' = elements, rec' = rec, NEW c, NEW o
  PROVE  Built(c, o)' <=> Built(c, o)
<1>1. superTypes' = superTypes /\ \A d : extending(d)' = extending(d) /\ implementing(d)' = implementing(d)
  BY Frame
<1>2. \A d : SuperSize(d)' = SuperSize(d) /\ TableElements(d)' = TableElements(d) /\ \A k : Units(d, k)' = Units(d, k)
  BY LayoutFrame
<1>3. \A d : Size(d)' = Size(d) /\ OwnFields(d)' = OwnFields(d) /\ \A k : Start(d, k)' = Start(d, k)
  BY <1>2 DEF Size, OwnFields, Start
<1>4. \A d : \A j : ElementOf(d, j)' = ElementOf(d, j)
  BY <1>2, <1>3 DEF ElementOf
<1>5. \A d : \A i : TableAt(d, i)' = TableAt(d, i)
  BY <1>2 DEF TableAt, SuperOffset
<1>6. \A d : (Sound(d)' <=> Sound(d)) /\ (Room(d)' <=> Room(d)) /\ Pointed(d)' = Pointed(d)
  BY <1>2, <1>3, <1>4 DEF Sound, Room, WidthsAgree, Pointed
<1>7. \A d : (PointersIn(o, d)' <=> PointersIn(o, d)) /\ (FieldsIn(o, d)' <=> FieldsIn(o, d))
  BY <1>3, <1>4, <1>5 DEF PointersIn, FieldsIn, FieldIn, HeldIn
<1>8. HeldIn(o, 0, 2, <<"table", c, 1>>)' <=> HeldIn(o, 0, 2, <<"table", c, 1>>)
  BY DEF HeldIn
<1> QED BY <1>1, <1>3, <1>5, <1>6, <1>7, <1>8 DEF Built

-----------------------------------------------------------------------------
(* The object.  The constructors that have been called and have not stored *)
(* yet are those of left; what those before them stored is there.          *)
Calls(l, c) ==
  /\ l \in Seq(Class) /\ Len(l) >= 1 /\ l[Len(l)] = c
  /\ \A k \in 2 .. Len(l) : extending(l[k]) = l[k - 1]
Stands(l, o) == o = <<>> \/ (extending(l[1]) # NoClass /\ Built(extending(l[1]), o))

(* There is no object before `new`, and a whole one behind its last        *)
(* constructor.                                                            *)
ObjectInv ==
  /\ pc \notin {"construct", "ready"} => new = NoClass
  /\ new = NoClass => object = <<>>
  /\ pc = "construct" /\ new # NoClass => new \in Class /\ Calls(left, new) /\ Stands(left, object)
  /\ pc = "ready" => new \in Class /\ Built(new, object)

LEMMA ObjectFrame ==
  ASSUME program' = program, elements' = elements, rec' = rec, NEW l, NEW c, NEW o
  PROVE  (Calls(l, c)' <=> Calls(l, c)) /\ (Stands(l, o)' <=> Stands(l, o))
<1>1. \A d : extending(d)' = extending(d)
  BY Frame
<1>2. PICK d : d = extending(l[1])
  OBVIOUS
<1>3. extending(l[1])' = d
  BY <1>1, <1>2
<1>4. Built(d, o)' <=> Built(d, o)
  BY BuiltFrame
<1>5. Built(extending(l[1]), o)' <=> Built(d, o)
  BY <1>3, <1>4
<1> QED BY <1>1, <1>2, <1>3, <1>5 DEF Calls, Stands

LEMMA ObjectKept ==
  ASSUME ObjectInv, program' = program, elements' = elements, rec' = rec, pc' = pc,
         new' = new, left' = left, object' = object
  PROVE  ObjectInv'
<1>1. PICK l, c, o : l = left /\ c = new /\ o = object
  OBVIOUS
<1>2. /\ Calls(l, c)' <=> Calls(l, c)
      /\ Stands(l, o)' <=> Stands(l, o)
      /\ Built(c, o)' <=> Built(c, o)
  BY ObjectFrame, BuiltFrame
<1>3. l = left' /\ c = new' /\ o = object'
  BY <1>1
<1>4. /\ Calls(left, new)' <=> Calls(left, new)
      /\ Stands(left, object)' <=> Stands(left, object)
      /\ Built(new, object)' <=> Built(new, object)
  BY <1>1, <1>2, <1>3
<1> QED BY <1>4 DEF ObjectInv

LEMMA Storing ==
  ASSUME Made, NEW l, NEW c, NEW o, Calls(l, c), Stands(l, o), o # <<>> \/ extending(l[1]) = NoClass
  PROVE  LET w == Written(o, Stores(l[1])) IN
         /\ Built(l[1], w)
         /\ Len(l) = 1 => l[1] = c
         /\ Len(l) # 1 => Calls(Tail(l), c) /\ Stands(Tail(l), w)
<1> DEFINE w == Written(o, Stores(l[1]))
<1>1. l \in Seq(Class) /\ Len(l) >= 1 /\ Len(l) \in Nat /\ l[1] \in Class /\ l[Len(l)] = c
  BY DEF Calls
<1>2. Begun(l[1], o)
  BY DEF Stands, Begun
<1>3. Built(l[1], w)
  <2>1. PICK d \in Class : d = l[1]
    BY <1>1
  <2>2. Built(d, Written(o, Stores(d)))
    BY <1>2, <2>1, Constructs
  <2> QED BY <2>1, <2>2
<1>4. Len(l) = 1 => l[1] = c
  BY <1>1
<1>5. ASSUME Len(l) # 1 PROVE Calls(Tail(l), c) /\ Stands(Tail(l), w)
  <2> DEFINE r == Tail(l)  n == Len(l)
  <2>0. \A x \in Nat : x >= 1 /\ x # 1 => x >= 2
    OBVIOUS
  <2>1. r \in Seq(Class) /\ Len(r) = n - 1 /\ \A k \in 1 .. n - 1 : r[k] = l[k + 1]
    BY <1>1, <1>5
  <2> HIDE DEF r, n, w
  <2>2. n \in Nat /\ n >= 2
    BY <1>1, <1>5, <2>0 DEF n
  <2>3. r[Len(r)] = c
    BY <1>1, <2>1, <2>2 DEF n
  <2>4. ASSUME NEW k \in 2 .. Len(r) PROVE extending(r[k]) = r[k - 1]
    <3>1. k \in 1 .. n - 1 /\ k - 1 \in 1 .. n - 1 /\ k + 1 \in 2 .. n /\ (k + 1) - 1 = k /\ (k - 1) + 1 = k
      BY <2>1, <2>2
    <3>2. extending(l[k + 1]) = l[(k + 1) - 1]
      BY <3>1 DEF Calls, n
    <3> QED BY <2>1, <3>1, <3>2
  <2>5. extending(r[1]) = l[1]
    <3>1. 2 \in 2 .. n /\ 1 \in 1 .. n - 1 /\ 1 + 1 = 2 /\ 2 - 1 = 1
      BY <2>2
    <3>2. extending(l[2]) = l[2 - 1] /\ r[1] = l[1 + 1]
      BY <2>1, <3>1 DEF Calls, n
    <3> QED BY <3>1, <3>2
  <2>6. extending(r[1]) # NoClass
    BY <1>1, <2>5, NamesAssumption
  <2> QED BY <1>3, <2>1, <2>2, <2>3, <2>4, <2>5, <2>6 DEF Calls, Stands, r
<1> QED BY <1>3, <1>4, <1>5

LEMMA NextObject ==
  ASSUME PartInv, TablesInv, ObjectInv, [Next]_vars
  PROVE  ObjectInv'
<1>1. program' = program
  BY NextProgram
<1>2. ASSUME new' = new, object' = object, pc \notin {"construct", "ready"}, pc' # "ready" PROVE ObjectInv'
  <2>1. new' = NoClass /\ object' = <<>>
    BY <1>2 DEF ObjectInv
  <2> QED BY <1>2, <2>1 DEF ObjectInv
<1>3. CASE UNCHANGED vars \/ Ended
  BY <1>1, <1>3, ObjectKept DEF vars, compileVars, Ended
<1>4. CASE \E c \in Class : GeneratePart(c) \/ Generate(c)
  <2>1. new' = new /\ object' = object /\ pc \notin {"construct", "ready"} /\ pc' # "ready"
    BY <1>4 DEF GeneratePart, Generate, useVars
  <2> QED BY <1>2, <2>1
<1>5. CASE Overriding \/ MakeTables \/ TablesRefused
  <2>1. new' = new /\ object' = object /\ pc \notin {"construct", "ready"} /\ pc' # "ready"
    BY <1>5 DEF Overriding, MakeTables, TablesRefused, useVars
  <2> QED BY <1>2, <2>1
<1>6. ASSUME NEW c \in Class, NewObject(c) PROVE ObjectInv'
  <2>1. new' = c /\ left' = <<c>> /\ object' = <<>> /\ pc' = "construct"
    BY <1>6 DEF NewObject, compileVars, ObjectInv
  <2>2. PICK l : l = <<c>>
    OBVIOUS
  <2>3. l \in Seq(Class) /\ Len(l) = 1 /\ l[1] = c
    BY <2>2
  <2>4. Calls(l, c)'
    BY <2>3 DEF Calls
  <2>5. l = left' /\ c = new'
    BY <2>1, <2>2
  <2>6. Calls(left, new)'
    BY <2>4, <2>5
  <2> QED BY <2>1, <2>6, NamesAssumption DEF ObjectInv, Stands
<1>7. CASE CallSuper
  <2>1. /\ pc = "construct" /\ pc' = pc /\ new # NoClass /\ new' = new /\ object = <<>> /\ object' = object
        /\ extending(Head(left)) # NoClass /\ left' = <<extending(Head(left))>> \o left
        /\ elements' = elements /\ rec' = rec
    BY <1>7 DEF CallSuper, InSuper, compileVars
  <2>2. new \in Class /\ Calls(left, new)
    BY <2>1 DEF ObjectInv
  <2> DEFINE n == Len(left)  e == extending(Head(left))
  <2>3. left \in Seq(Class) /\ n \in Nat /\ n >= 1 /\ Head(left) = left[1] /\ left[1] \in Class
    BY <2>2 DEF Calls
  <2>4. e \in Class
    BY <2>1, <2>3, ProgramParts DEF PartInv, Or
  <2> HIDE DEF e
  <2>5. PICK l : l = left'
    OBVIOUS
  <2>6. /\ l \in Seq(Class) /\ Len(l) = n + 1 /\ l[1] = e
        /\ \A k \in 2 .. n + 1 : l[k] = left[k - 1]
    <3>1. l = <<e>> \o left
      BY <2>1, <2>5 DEF e
    <3> QED BY <2>3, <2>4, <3>1
  <2>7. Calls(l, new)
    <3>1. l[Len(l)] = new
      BY <2>2, <2>3, <2>6 DEF Calls
    <3>2. ASSUME NEW k \in 2 .. Len(l) PROVE extending(l[k]) = l[k - 1]
      <4>1. CASE k = 2
        BY <2>3, <2>6, <4>1 DEF e
      <4>2. CASE k # 2
        <5> DEFINE h == k - 1
        <5>1. h \in 2 .. n /\ k \in 2 .. n + 1 /\ h \in 2 .. n + 1
          BY <2>3, <2>6, <4>2
        <5>2. extending(left[h]) = left[h - 1] /\ l[k] = left[h] /\ l[h] = left[h - 1]
          BY <2>2, <2>6, <5>1 DEF Calls
        <5> QED BY <5>2
      <4> QED BY <4>1, <4>2
    <3> QED BY <2>3, <2>6, <3>1, <3>2 DEF Calls
  <2>8. PICK c : c = new
    OBVIOUS
  <2>9. Calls(l, c)'
    BY <1>1, <2>1, <2>7, <2>8, ObjectFrame
  <2>10. Calls(left, new)'
    BY <2>1, <2>5, <2>8, <2>9
  <2> QED BY <2>1, <2>2, <2>10 DEF ObjectInv, Stands
<1>8. CASE Construct
  <2>1. /\ pc = "construct" /\ new # NoClass /\ new' = new /\ ~ InSuper
        /\ object' = Written(object, Stores(Head(left))) /\ left' = Tail(left)
        /\ pc' = (IF Len(left) = 1 THEN "ready" ELSE "construct")
        /\ elements' = elements /\ rec' = rec
    BY <1>8 DEF Construct
  <2>2. new \in Class /\ Calls(left, new) /\ Stands(left, object)
    BY <2>1 DEF ObjectInv
  <2>3. Head(left) = left[1] /\ (object # <<>> \/ extending(left[1]) = NoClass)
    BY <2>1, <2>2 DEF Calls, InSuper
  <2>4. Made
    BY <2>1 DEF Made, PartInv, TablesInv
  <2>5. PICK l, c, o, r, w : l = left /\ c = new /\ o = object /\ r = left' /\ w = object'
    OBVIOUS
  <2>6. w = Written(o, Stores(l[1])) /\ r = Tail(l)
    BY <2>1, <2>3, <2>5
  <2>7. Built(l[1], w) /\ (Len(l) = 1 => l[1] = c) /\ (Len(l) # 1 => Calls(r, c) /\ Stands(r, w))
    BY <2>2, <2>3, <2>4, <2>5, <2>6, Storing
  <2>8. CASE Len(l) = 1
    <3>1. Built(c, w)
      BY <2>7, <2>8
    <3>2. Built(c, w)'
      BY <1>1, <2>1, <3>1, BuiltFrame
    <3>3. Built(new, object)' /\ pc' = "ready" /\ new' \in Class
      BY <2>1, <2>2, <2>5, <2>8, <3>2
    <3> QED BY <3>3, NamesAssumption DEF ObjectInv
  <2>9. CASE Len(l) # 1
    <3>1. Calls(r, c)' /\ Stands(r, w)'
      BY <1>1, <2>1, <2>7, <2>9, ObjectFrame
    <3>2. Calls(left, new)' /\ Stands(left, object)' /\ pc' = "construct" /\ new' \in Class
      BY <2>1, <2>2, <2>5, <2>9, <3>1
    <3> QED BY <3>2, NamesAssumption DEF ObjectInv
  <2> QED BY <2>8, <2>9
<1>9. CASE \E c \in Class, n \in Name, a \in 0 .. 1 : Call(c, n, a)
  BY <1>1, <1>9, ObjectKept DEF Call, compileVars
<1> QED BY <1>3, <1>4, <1>5, <1>6, <1>7, <1>8, <1>9 DEF Next

LEMMA WidthWithoutFields ==
  ASSUME Made, NEW c \in Class, program.fields[c] = <<>>
  PROVE  Size(c) = SuperSize(c) + 2 * (TableElements(c) - 1)
<1> DEFINE t == TableElements(c)  S == SuperSize(c)  x == elements[c][Len(elements[c])]
<1>1. ProgramOK /\ LayoutOK(c) /\ t \in Nat /\ t >= 1 /\ S \in Nat /\ S % 2 = 0
  BY MadeParts, Sizes DEF SuperOK
<1>2. Elems(c) = t
  <2>1. Len(program.fields[c]) = 0
    OBVIOUS
  <2> QED BY <1>1, <2>1 DEF Elems
<1>3. Len(elements[c]) = 1 + t
  BY <1>1, <1>2 DEF LayoutOK
<1>4. \A k \in 1 .. t : elements[c][k + 1] = S + 2 * (k - 1)
  BY <1>1, LayoutParts
<1> HIDE DEF t, S
<1>5. x = S + 2 * (t - 1)
  BY <1>1, <1>3, <1>4
<1> HIDE DEF x
<1>6. x % 2 = 0 /\ x \in Nat
  BY <1>1, <1>5
<1>7. Size(c) = x + (x % 2)
  BY DEF Size, Aligned, x
<1> QED BY <1>5, <1>6, <1>7 DEF S, t

(***************************************************************************)
(* The constructors write inside the object, and leave each pointer with   *)
(* its table and each field with its value, if every class of it is sound; *)
(* without fields, they write behind it exactly if its class has a table   *)
(* more than pointers (what the constructors store: Class::generate).      *)
(***************************************************************************)
THEOREM WrittenByRuleAlways == Spec => []WrittenByRule
<1>1. Init => ObjectInv
  BY DEF Init, ObjectInv
<1>2. PartInv /\ LoopInv /\ TablesInv /\ ObjectInv /\ [Next]_vars => ObjectInv'
  BY NextObject
<1>3. PartInv /\ TablesInv /\ ObjectInv => WrittenByRule
  <2> SUFFICES ASSUME PartInv, TablesInv, ObjectInv, pc = "ready"
               PROVE  /\ (\A c \in superTypes[new] : Sound(c)) =>
                           /\ Inside
                           /\ \A c \in superTypes[new] : \A j \in OwnFields(c) : FieldHeld(c, j)
                           /\ \A i \in DOMAIN tables[new] : Holds(TableAt(new, i), 2, <<"table", new, i>>)
                      /\ (\A c \in superTypes[new] : program.fields[c] = <<>>) =>
                           (Inside <=> Len(rec[new]) <= TableElements(new))
    BY DEF WrittenByRule
  <2>1. new \in Class /\ Built(new, object) /\ Made
    BY DEF ObjectInv, Made, PartInv, TablesInv
  <2> DEFINE n == Len(rec[new])  S == SuperSize(new)  t == TableElements(new)
  <2>2. /\ n \in Nat /\ n >= 1 /\ S \in Nat /\ S >= 2 /\ t \in Nat /\ t >= 1 /\ Size(new) \in Nat
        /\ DOMAIN tables[new] = 1 .. n /\ new \in superTypes[new]
    BY <2>1, Sizes, MadeParts, SuperTypes
  <2>3. ASSUME \A c \in superTypes[new] : Sound(c)
        PROVE  /\ Inside
               /\ \A c \in superTypes[new] : \A j \in OwnFields(c) : FieldHeld(c, j)
               /\ \A i \in DOMAIN tables[new] : Holds(TableAt(new, i), 2, <<"table", new, i>>)
    <3>1. Inside
      BY <2>1, <2>3 DEF Inside, Built
    <3>2. \A c \in superTypes[new] : \A j \in OwnFields(c) : FieldHeld(c, j)
      BY <2>1, <2>3 DEF Built, FieldsIn, FieldIn, HeldIn, FieldHeld, Holds
    <3>3. ASSUME NEW i \in 1 .. n PROVE Holds(TableAt(new, i), 2, <<"table", new, i>>)
      <4>1. CASE i = 1
        <5>1. TableAt(new, 1) = 0
          BY DEF TableAt
        <5> QED BY <2>1, <4>1, <5>1 DEF Built, HeldIn, Holds
      <4>2. CASE i # 1
        <5>1. i \in 2 .. n /\ Room(new)
          BY <2>2, <2>3, <4>2 DEF Sound, Room
        <5> QED BY <2>1, <2>2, <5>1 DEF Built, PointersIn, HeldIn, Holds
      <4> QED BY <4>1, <4>2
    <3> QED BY <2>2, <3>1, <3>2, <3>3
  <2>4. ASSUME \A c \in superTypes[new] : program.fields[c] = <<>> PROVE Inside <=> n <= t
    <3>1. Size(new) = S + 2 * (t - 1) /\ Pointed(new) = S + 2 * (n - 1)
      BY <2>1, <2>2, <2>4, WidthWithoutFields DEF Pointed
    <3>2. DOMAIN object \subseteq 0 .. Pointed(new) - 1
      BY <2>1, <2>4 DEF Built
    <3>3. TableAt(new, n) + 1 \in DOMAIN object
      BY <2>1, <2>2 DEF Built
    <3>4. \A i \in 2 .. n : TableAt(new, i) = S + 2 * (i - 2)
      BY <2>1, WhereStored
    <3> HIDE DEF n, S, t
    <3>5. n <= t => Inside
      BY <2>2, <3>1, <3>2 DEF Inside
    <3>6. Inside => n <= t
      <4> SUFFICES ASSUME Inside, n # 1 PROVE n <= t
        BY <2>2
      <4>1. n \in 2 .. n
        BY <2>2
      <4>2. TableAt(new, n) = S + 2 * (n - 2)
        BY <3>4, <4>1
      <4>3. S + 2 * (n - 2) + 1 <= S + 2 * (t - 1) - 1
        BY <2>2, <3>1, <3>3, <4>2 DEF Inside
      <4> QED BY <2>2, <4>3
    <3> QED BY <3>5, <3>6
  <2> QED BY <2>3, <2>4
<1> QED BY <1>1, <1>2, <1>3, TablesMade, PTL DEF Spec

-----------------------------------------------------------------------------
(* What a call finds in the tables of a class.                             *)
LEMMA NotAboveItself ==
  ASSUME ProgramOK
  PROVE  \A c \in Class : c \notin superTypes[extending(c)]
<1>1. PICK depth : Founds(depth)
  BY ClassesFounded
<1> DEFINE P == {c \in Or(Class) : \A d \in superTypes[c] : depth[d] <= depth[c]}
<1>2. NoClass \in P
  BY SuperTypes DEF Or
<1>3. ASSUME NEW c \in Class, extending(c) \in P PROVE c \in P
  <2>1. depth[c] \in Nat /\ extending(c) \in Or(Class) /\ depth[extending(c)] \in Nat /\ depth[extending(c)] < depth[c]
    BY <1>1, ProgramParts DEF Founds, Or
  <2>2. ASSUME NEW d \in superTypes[c] PROVE depth[d] <= depth[c]
    <3>1. d = c \/ d \in superTypes[extending(c)]
      BY SuperTypes
    <3>2. CASE d = c
      BY <2>1, <3>2
    <3>3. CASE d \in superTypes[extending(c)]
      <4>1. depth[d] <= depth[extending(c)] /\ depth[d] \in Nat
        BY <1>1, <1>3, <2>1, <3>3, SuperTypes DEF Founds, Or
      <4> QED BY <2>1, <4>1
    <3> QED BY <3>1, <3>2, <3>3
  <2> QED BY <2>2 DEF Or
<1>4. Or(Class) \subseteq P
  <2> HIDE DEF P
  <2> QED BY <1>2, <1>3, OfAllClasses
<1>5. ASSUME NEW c \in Class, c \in superTypes[extending(c)] PROVE FALSE
  <2>1. extending(c) \in P /\ depth[c] \in Nat /\ depth[extending(c)] \in Nat /\ depth[extending(c)] < depth[c]
    BY <1>1, <1>4, ProgramParts DEF Founds, Or
  <2> QED BY <1>5, <2>1
<1> QED BY <1>5

\* The methods a class declares itself stand last.
LEMMA OwnLast ==
  ASSUME ProgramOK, NEW c \in Class
  PROVE  /\ declared[c] \in Seq(Func) /\ Len(declared[c]) \in Nat /\ DOMAIN declared[c] = 1 .. Len(declared[c])
         /\ Before(c) \in Nat /\ program.funcs[c] \in Seq(Func)
         /\ \A k \in 1 .. Len(declared[c]) : declared[c][k].of = c <=> k > Before(c)
         /\ \A k \in 1 .. Len(declared[c]) : k > Before(c) =>
              k - Before(c) \in 1 .. Len(program.funcs[c]) /\ declared[c][k] = program.funcs[c][k - Before(c)]
         /\ \A k \in 1 .. Len(program.funcs[c]) :
              /\ Before(c) + k \in 1 .. Len(declared[c]) /\ Before(c) + k > Before(c)
              /\ declared[c][Before(c) + k] = program.funcs[c][k]
         /\ DOMAIN program.funcs[c] = 1 .. Len(program.funcs[c])
<1> DEFINE D == declared[c]  own == program.funcs[c]  b == Before(c)  e == extending(c)  n == Len(D)  m == Len(own)
<1>1. /\ b \in Nat /\ n = b + m /\ DOMAIN D = 1 .. n /\ n \in Nat
      /\ \A k \in 1 .. b : D[k] = declared[e][k]
      /\ \A k \in 1 .. m : D[b + k] = own[k]
      /\ \A k \in b + 1 .. n : k - b \in 1 .. m /\ D[k] = own[k - b]
      /\ DOMAIN own = 1 .. m
  BY DeclaredParts
<1>2. D \in Seq(Func) /\ own \in Seq(Func) /\ e \in Or(Class) /\ declared[e] \in Seq(Func)
  BY DeclaredEquation, ProgramParts DEF Or
<1>3. m \in Nat
  BY <1>2
<1>4. \A k \in 1 .. m : own[k].of = c
  <2>1. Told(own, c)
    BY ProgramParts
  <2> QED BY <1>1, <2>1 DEF Told
<1>5. \A k \in 1 .. b : D[k].of \in superTypes[e]
  <2>1. CASE e = NoClass
    <3>1. b = 0
      BY <2>1, DeclaredEquation DEF Before
    <3> HIDE DEF b
    <3> QED BY <3>1
  <2>2. CASE e # NoClass
    <3>1. e \in Class /\ DOMAIN declared[e] = 1 .. b
      BY <1>2, <2>2 DEF Or, Before
    <3>2. \A k \in DOMAIN declared[e] : declared[e][k].of \in superTypes[e]
      BY <3>1, DeclaredOnce
    <3> QED BY <1>1, <3>1, <3>2
  <2> QED BY <2>1, <2>2
<1>6. c \notin superTypes[e]
  BY NotAboveItself
<1> HIDE DEF D, own, b, e, n, m
<1>7. ASSUME NEW k \in 1 .. n PROVE (D[k].of = c <=> k > b) /\ (k > b => k - b \in 1 .. m /\ D[k] = own[k - b])
  <2>1. CASE k <= b
    <3>1. k \in 1 .. b
      BY <1>1, <2>1
    <3>2. D[k].of # c
      BY <1>5, <1>6, <3>1
    <3> QED BY <1>1, <2>1, <3>2
  <2>2. CASE k > b
    <3>1. k \in b + 1 .. n
      BY <1>1, <2>2
    <3> QED BY <1>1, <1>4, <2>2, <3>1
  <2> QED BY <1>1, <2>1, <2>2
<1>8. \A k \in 1 .. m : b + k \in 1 .. n /\ b + k > b /\ D[b + k] = own[k]
  BY <1>1, <1>3
<1> QED BY <1>1, <1>2, <1>7, <1>8 DEF D, own, b, n, m

\* The overrides of a name that the loop takes, the last of which replaces.
By(D, n) == {k \in Gone(D) : D[k].name = n}

LEMMA ByParts ==
  ASSUME NEW D \in Seq(Func), NEW n
  PROVE  /\ By(D, n) \in SUBSET (1 .. Len(D)) /\ Len(D) \in Nat
         /\ \A f : f.name = n => RepFor(D, f) = IF By(D, n) = {} THEN f ELSE D[Max(By(D, n))]
         /\ By(D, n) # {} => /\ Max(By(D, n)) \in 1 .. Len(D) /\ Max(By(D, n)) \in Gone(D)
                             /\ D[Max(By(D, n))].name = n /\ D[Max(By(D, n))].kind = "override"
                             /\ \A k \in By(D, n) : k <= Max(By(D, n))
<1>1. By(D, n) \in SUBSET (1 .. Len(D)) /\ Len(D) \in Nat
  BY RemovedParts DEF By, Gone
<1>2. \A f : f.name = n => RepFor(D, f) = IF By(D, n) = {} THEN f ELSE D[Max(By(D, n))]
  BY DEF RepFor, Overrode, By
<1>3. ASSUME By(D, n) # {} PROVE Max(By(D, n)) \in By(D, n) /\ \A k \in By(D, n) : k <= Max(By(D, n))
  BY <1>1, <1>3, MaxParts
<1> QED BY <1>1, <1>2, <1>3 DEF By, Gone, Overrides

LEMMA Entries ==
  ASSUME Made, NEW c \in Class
  PROVE  /\ tables[c] \in Seq(Seq(Func)) /\ DOMAIN tables[c] = 1 .. Len(rec[c])
         /\ \A j \in DOMAIN tables[c][1] : \E k \in 1 .. Len(declared[c]) :
              /\ k \notin Gone(declared[c]) /\ Rank(Gone(declared[c]), k) = j
              /\ tables[c][1][j] = RepFor(declared[c], declared[c][k])
         /\ \A k \in 1 .. Len(declared[c]) : k \notin Gone(declared[c]) =>
              /\ Rank(Gone(declared[c]), k) \in DOMAIN tables[c][1]
              /\ tables[c][1][Rank(Gone(declared[c]), k)] = RepFor(declared[c], declared[c][k])
         /\ \A i \in 2 .. Len(rec[c]) : \A j \in DOMAIN tables[c][i] :
              \E f \in Func : f.of \in Interface /\ tables[c][i][j] = RepFor(declared[c], f)
<1> DEFINE D == declared[c]  R == Gone(D)  t == tables[c]  n == Len(rec[c])
<1>1. /\ D \in Seq(Func) /\ Len(D) \in Nat /\ t \in Seq(Seq(Func)) /\ DOMAIN t = 1 .. n /\ n \in Nat /\ n >= 1
      /\ TableOK(c) /\ RecOK(c)
  BY MadeParts, OwnLast DEF TableOK, TableOf
<1>2. /\ Len(t[1]) = Rank(R, Len(D))
      /\ \A k \in 1 .. Len(D) : k \notin R => t[1][Rank(R, k)] = RepFor(D, D[k])
      /\ \A i \in 2 .. n : Len(t[i]) = Len(rec[c][i]) /\ \A j \in 1 .. Len(rec[c][i]) : t[i][j] = RepFor(D, rec[c][i][j])
  BY <1>1 DEF TableOK, TableOf
<1> HIDE DEF D, R, t, n
<1>3. \A i \in 1 .. n : t[i] \in Seq(Func) /\ DOMAIN t[i] = 1 .. Len(t[i])
  <2>1. \A i \in 1 .. n : t[i] \in Seq(Func)
    BY <1>1
  <2> QED BY <2>1
<1>4. DOMAIN t[1] = 1 .. Rank(R, Len(D))
  BY <1>1, <1>2, <1>3
<1>5. ASSUME NEW j \in DOMAIN t[1] PROVE \E k \in 1 .. Len(D) : k \notin R /\ Rank(R, k) = j /\ t[1][j] = RepFor(D, D[k])
  <2>1. PICK k \in 1 .. Len(D) : k \notin R /\ Rank(R, k) = j
    BY <1>1, <1>4, RankOnto
  <2> QED BY <1>2, <2>1
<1>6. ASSUME NEW k \in 1 .. Len(D), k \notin R PROVE Rank(R, k) \in DOMAIN t[1] /\ t[1][Rank(R, k)] = RepFor(D, D[k])
  BY <1>1, <1>2, <1>4, <1>6, RankAt
<1>7. ASSUME NEW i \in 2 .. n, NEW j \in DOMAIN t[i] PROVE \E f \in Func : f.of \in Interface /\ t[i][j] = RepFor(D, f)
  <2>1. i \in 1 .. n
    BY <1>1
  <2>2. rec[c][i] \in Seq(InterfaceFunc)
    BY <1>1 DEF RecOK, n
  <2>3. j \in 1 .. Len(rec[c][i]) /\ t[i][j] = RepFor(D, rec[c][i][j])
    BY <1>2, <1>3, <2>1
  <2>4. rec[c][i][j] \in InterfaceFunc
    <3> DEFINE s == rec[c][i]
    <3> HIDE DEF s
    <3>1. s \in Seq(InterfaceFunc) /\ j \in 1 .. Len(s)
      BY <2>2, <2>3 DEF s
    <3>2. s[j] \in InterfaceFunc
      BY <3>1
    <3> QED BY <3>2 DEF s
  <2> QED BY <2>3, <2>4 DEF InterfaceFunc
<1> QED BY <1>1, <1>5, <1>6, <1>7 DEF D, R, t, n

(* The slots that a call may take, and the last of them, which it takes.   *)
LEMMA SlotsParts ==
  ASSUME Made, NEW c \in Class, NEW n, NEW a
  PROVE  /\ \A i \in 1 .. Len(rec[c]) : \A j \in DOMAIN tables[c][i] :
              tables[c][i][j].of = c /\ tables[c][i][j].name = n /\ MangledArity(tables[c][i][j]) = a =>
                <<i, j>> \in Slots(c, n, a)
         /\ \A s \in Slots(c, n, a) :
              /\ s = <<s[1], s[2]>> /\ s[1] \in 1 .. Len(rec[c]) /\ s[2] \in DOMAIN tables[c][s[1]]
              /\ tables[c][s[1]][s[2]] \in Func
              /\ tables[c][s[1]][s[2]].of = c /\ tables[c][s[1]][s[2]].name = n
              /\ MangledArity(tables[c][s[1]][s[2]]) = a
<1>1. tables[c] \in Seq(Seq(Func)) /\ DOMAIN tables[c] = 1 .. Len(rec[c])
  BY Entries
<1>2. \A i \in 1 .. Len(rec[c]) : tables[c][i] \in Seq(Func)
  BY <1>1
<1>3. \A i \in 1 .. Len(rec[c]) : \A j \in DOMAIN tables[c][i] : tables[c][i][j] \in Func
  BY <1>2
<1> DEFINE U == UNION {{i} \X DOMAIN tables[c][i] : i \in DOMAIN tables[c]}
<1>4. \A i \in 1 .. Len(rec[c]) : \A j \in DOMAIN tables[c][i] : <<i, j>> \in U /\ <<i, j>>[1] = i /\ <<i, j>>[2] = j
  BY <1>1
<1>5. \A s \in U : s = <<s[1], s[2]>> /\ s[1] \in 1 .. Len(rec[c]) /\ s[2] \in DOMAIN tables[c][s[1]]
  BY <1>1
<1>6. Slots(c, n, a) = {s \in U : /\ tables[c][s[1]][s[2]].of = c /\ tables[c][s[1]][s[2]].name = n
                                  /\ MangledArity(tables[c][s[1]][s[2]]) = a}
  BY DEF Slots
<1> HIDE DEF U
<1> QED BY <1>3, <1>4, <1>5, <1>6

LEMMA LastSlotParts ==
  ASSUME Made, NEW c \in Class, NEW n, NEW a, Slots(c, n, a) # {}
  PROVE  LET s == LastSlot(Slots(c, n, a)) IN
         /\ s \in Slots(c, n, a)
         /\ \A t \in Slots(c, n, a) : t[1] < s[1] \/ (t[1] = s[1] /\ t[2] <= s[2])
<1> DEFINE S == Slots(c, n, a)
           I == {s[1] : s \in S}
           i == Max(I)
           J == {s[2] : s \in {x \in S : x[1] = i}}
           j == Max(J)
<1>1. \A s \in S : s = <<s[1], s[2]>> /\ s[1] \in 1 .. Len(rec[c]) /\ s[2] \in DOMAIN tables[c][s[1]]
  BY SlotsParts
<1>2. Len(rec[c]) \in Nat /\ \A k \in 1 .. Len(rec[c]) : Len(tables[c][k]) \in Nat /\ DOMAIN tables[c][k] = 1 .. Len(tables[c][k])
  <2>1. tables[c] \in Seq(Seq(Func)) /\ DOMAIN tables[c] = 1 .. Len(rec[c]) /\ Len(rec[c]) \in Nat
    BY Entries, MadeParts
  <2>2. \A k \in 1 .. Len(rec[c]) : tables[c][k] \in Seq(Func)
    BY <2>1
  <2> QED BY <2>1, <2>2
<1> HIDE DEF S
<1>3. I \in SUBSET (1 .. Len(rec[c])) /\ I # {}
  BY <1>1 DEF S
<1>4. i \in I /\ \A k \in I : k <= i
  <2> HIDE DEF I
  <2> QED BY <1>2, <1>3, MaxParts
<1> HIDE DEF i
<1>5. i \in 1 .. Len(rec[c]) /\ J \in SUBSET (1 .. Len(tables[c][i])) /\ J # {}
  BY <1>1, <1>2, <1>3, <1>4
<1>6. j \in J /\ \A k \in J : k <= j
  <2> HIDE DEF J, I
  <2> QED BY <1>2, <1>5, MaxParts
<1> HIDE DEF j
<1>7. PICK s \in S : s[1] = i /\ s[2] = j
  BY <1>6
<1>8. ASSUME NEW t \in S PROVE t[1] < s[1] \/ (t[1] = s[1] /\ t[2] <= s[2])
  <2>1. t[1] <= i /\ t[1] \in Nat /\ i \in Nat
    BY <1>1, <1>2, <1>4, <1>5
  <2>2. t[1] = i => t[2] <= j
    BY <1>6
  <2> QED BY <1>7, <2>1, <2>2
<1>9. \E x \in S : \A t \in S : t[1] < x[1] \/ (t[1] = x[1] /\ t[2] <= x[2])
  BY <1>7, <1>8
<1> QED BY <1>9 DEF LastSlot, S

\* What stands in a slot: the last override of its name, if there is one;
\* else, of the class's own methods, each stands where it is declared.
LEMMA SlotFunction ==
  ASSUME Made, NEW c \in Class, NEW i \in 1 .. Len(rec[c]), NEW j \in DOMAIN tables[c][i]
  PROVE  LET f == tables[c][i][j]  D == declared[c]  G == By(D, f.name) IN
         /\ G # {} => f = D[Max(G)]
         /\ G = {} /\ f.of = c => i = 1 /\ \E k \in 1 .. Len(D) : k \notin Gone(D) /\ Rank(Gone(D), k) = j /\ f = D[k]
<1> DEFINE f == tables[c][i][j]  D == declared[c]
<1>1. D \in Seq(Func) /\ Len(D) \in Nat /\ Len(rec[c]) \in Nat
  BY MadeParts, OwnLast
<1>2. CASE i = 1
  <2>1. PICK k \in 1 .. Len(D) : k \notin Gone(D) /\ Rank(Gone(D), k) = j /\ f = RepFor(D, D[k])
    BY <1>2, Entries
  <2> HIDE DEF f, D
  <2>2. D[k] \in Func
    BY <1>1, <2>1
  <2>3. f.name = D[k].name
    BY <1>1, <2>1, <2>2, RepForParts
  <2>4. f = IF By(D, f.name) = {} THEN D[k] ELSE D[Max(By(D, f.name))]
    BY <1>1, <2>1, <2>3, ByParts
  <2> QED BY <1>2, <2>1, <2>4 DEF f, D
<1>3. CASE i # 1
  <2>1. i \in 2 .. Len(rec[c])
    BY <1>1, <1>3
  <2>2. PICK g \in Func : g.of \in Interface /\ f = RepFor(D, g)
    BY <2>1, Entries
  <2> HIDE DEF f, D
  <2>3. f.name = g.name
    BY <1>1, <2>2, RepForParts
  <2>4. f = IF By(D, f.name) = {} THEN g ELSE D[Max(By(D, f.name))]
    BY <1>1, <2>2, <2>3, ByParts
  <2>5. c \notin Interface
    BY NamesAssumption
  <2> QED BY <2>2, <2>4, <2>5 DEF f, D
<1> QED BY <1>2, <1>3

\* Each of the class's own methods of a name that no override replaces has
\* its slot, and the later the method is declared, the later the slot.
LEMMA OwnSlot ==
  ASSUME Made, NEW c \in Class, NEW n, NEW a, NEW k \in 1 .. Len(declared[c]), By(declared[c], n) = {},
         declared[c][k].of = c, declared[c][k].name = n, MangledArity(declared[c][k]) = a
  PROVE  LET R == Gone(declared[c]) IN
         /\ k \notin R /\ <<1, Rank(R, k)>> \in Slots(c, n, a)
         /\ tables[c][1][Rank(R, k)] = declared[c][k]
<1> DEFINE D == declared[c]  R == Gone(D)
<1>1. D \in Seq(Func) /\ Len(rec[c]) \in Nat /\ Len(rec[c]) >= 1
  BY MadeParts, OwnLast
<1>2. k \notin R
  BY DEF By
<1>3. Rank(R, k) \in DOMAIN tables[c][1] /\ tables[c][1][Rank(R, k)] = RepFor(D, D[k])
  BY <1>2, Entries
<1>4. RepFor(D, D[k]) = D[k]
  <2> HIDE DEF R
  <2>1. By(D, n) = {} /\ D[k].name = n
    OBVIOUS
  <2> HIDE DEF D
  <2> QED BY <1>1, <2>1, ByParts
<1>5. 1 \in 1 .. Len(rec[c])
  BY <1>1
<1>6. <<1, Rank(R, k)>> \in Slots(c, n, a)
  BY <1>3, <1>4, <1>5, SlotsParts
<1> QED BY <1>2, <1>3, <1>4, <1>6

\* If the superclass names no interface, both keys name the same table.
LEMMA WordsAgree ==
  ASSUME Made, NEW c \in Class, extending(c) = NoClass \/ implementing(extending(c)) = <<>>,
         NEW i \in 1 .. Len(rec[c]), NEW k \in 1 .. Len(rec[c])
  PROVE  MapWord(c, k) = IdWord(c, i) <=> k = i
<1> DEFINE S == SuperSize(c)
<1>1. S \in Nat /\ S >= 2 /\ Len(rec[c]) \in Nat
  BY Sizes
<1>2. InheritedPointers(c) = 0
  <2>1. extending(c) # NoClass => Len(implementing(extending(c))) = 0
    OBVIOUS
  <2> QED BY <2>1 DEF InheritedPointers
<1>3. IdWord(c, i) = IF i = 1 THEN 0 \div 2 ELSE (2 * (i - 1) + (S - 2)) \div 2
  BY DEF IdWord, TableAt, SuperOffset
<1>4. MapWord(c, k) = (k - 1) + (IF k - 1 > 0 THEN (S - 2) \div 2 ELSE 0)
  BY <1>2 DEF MapWord, SuperOffset
<1> HIDE DEF S
<1>5. i \in Nat /\ k \in Nat /\ i >= 1 /\ k >= 1
  BY <1>1
<1>6. (2 * (i - 1) + (S - 2)) \div 2 = (i - 1) + ((S - 2) \div 2) /\ (S - 2) \div 2 \in Nat /\ 0 \div 2 = 0
  BY <1>1, <1>5
<1> QED BY <1>3, <1>4, <1>5, <1>6

LEMMA MappedParts ==
  ASSUME Made, NEW c \in Class, extending(c) = NoClass \/ implementing(extending(c)) = <<>>,
         NEW n, NEW a, NEW s \in Slots(c, n, a)
  PROVE  MappedAt(c, s) # {} /\ Mapped(c, s) = tables[c][s[1]][s[2]]
<1>1. s[1] \in 1 .. Len(rec[c]) /\ s[2] \in DOMAIN tables[c][s[1]] /\ DOMAIN tables[c] = 1 .. Len(rec[c])
  BY SlotsParts, Entries
<1>2. MappedAt(c, s) = {s[1]}
  BY <1>1, WordsAgree DEF MappedAt
<1>3. Max({s[1]}) = s[1]
  <2> DEFINE x == s[1]
  <2>1. Len(rec[c]) \in Nat /\ x \in 1 .. Len(rec[c])
    BY <1>1, MadeParts
  <2> HIDE DEF x
  <2>2. {x} \in SUBSET (1 .. Len(rec[c])) /\ {x} # {}
    BY <2>1
  <2>3. Max({x}) \in {x}
    BY <2>1, <2>2, MaxParts
  <2> QED BY <2>3 DEF x
<1> QED BY <1>2, <1>3 DEF Mapped

LEMMA EntryParts ==
  \A at, j : Entry(at, j)[1] \in {"junk", "pure", "runs"}
<1> SUFFICES ASSUME NEW at, NEW j PROVE Entry(at, j)[1] \in {"junk", "pure", "runs"}
  OBVIOUS
<1>1. Entry(at, j) = <<"junk">> \/ Entry(at, j) = <<"pure">> \/ \E x : Entry(at, j) = <<"runs", x>>
  BY DEF Entry
<1> QED BY <1>1

IsCompiled(outcome) == outcome[1] \in {"runs", "pure", "junk"}

\* A call is compiled if the method it takes has a body; without slots, if
\* the class has one to be called directly.
LEMMA OutcomeParts ==
  ASSUME Made, NEW c \in Class, extending(c) = NoClass \/ implementing(extending(c)) = <<>>,
         NEW n, NEW a \in 0 .. 1
  PROVE  LET S == Slots(c, n, a)  s == LastSlot(S) IN
         /\ S = {} => (IsCompiled(CallOutcome(c, n, a)) <=> Direct(c, n, a) # {})
         /\ S # {} => (IsCompiled(CallOutcome(c, n, a)) <=> tables[c][s[1]][s[2]].kind # "abstract")
<1> DEFINE S == Slots(c, n, a)  s == LastSlot(S)  f == tables[c][s[1]][s[2]]  out == CallOutcome(c, n, a)
<1>1. CASE S = {}
  <2>1. out = IF Direct(c, n, a) = {} THEN <<"unknown">> ELSE <<"runs", CHOOSE x \in Direct(c, n, a) : TRUE>>
    BY <1>1 DEF CallOutcome
  <2> HIDE DEF out
  <2>2. IsCompiled(out) <=> Direct(c, n, a) # {}
    BY <2>1 DEF IsCompiled
  <2> QED BY <1>1, <2>2 DEF out
<1>2. CASE S # {}
  <2>1. s \in S
    BY <1>2, LastSlotParts
  <2>2. MappedAt(c, s) # {} /\ Mapped(c, s) = f /\ f \in Func /\ MangledArity(f) = a
    <3> HIDE DEF s
    <3> QED BY <2>1, MappedParts, SlotsParts
  <2>3. out = IF ~ Fits(f, f.name, a) THEN <<"refused">> ELSE Entry(TableAt(c, s[1]), s[2])
    BY <1>2, <2>2 DEF CallOutcome
  <2> HIDE DEF out, f, s
  <2>4. Fits(f, f.name, a) <=> f.kind # "abstract"
    BY <2>2 DEF Fits, MangledArity
  <2>5. IsCompiled(out) <=> f.kind # "abstract"
    BY <2>3, <2>4, EntryParts DEF IsCompiled
  <2> QED BY <1>2, <2>5 DEF out, f, s
<1> QED BY <1>1, <1>2

LEMMA CompiledWhen ==
  ASSUME Made, NEW c \in Class, extending(c) = NoClass \/ implementing(extending(c)) = <<>>,
         NEW n, NEW a \in 0 .. 1
  PROVE  IsCompiled(CallOutcome(c, n, a)) <=> Direct(c, n, a) # {} /\ ~ Hidden(c, n, a)
<1> DEFINE D == declared[c]  own == program.funcs[c]  b == Before(c)  m == Len(own)
           G == By(D, n)  S == Slots(c, n, a)  s == LastSlot(S)  f == tables[c][s[1]][s[2]]
           out == IsCompiled(CallOutcome(c, n, a))
<1>1. /\ D \in Seq(Func) /\ Len(D) \in Nat /\ b \in Nat /\ own \in Seq(Func) /\ DOMAIN own = 1 .. m
      /\ \A k \in 1 .. Len(D) : D[k].of = c <=> k > b
      /\ \A k \in 1 .. Len(D) : k > b => k - b \in 1 .. m /\ D[k] = own[k - b]
      /\ \A k \in 1 .. m : b + k \in 1 .. Len(D) /\ b + k > b /\ D[b + k] = own[k]
      /\ \A k \in 1 .. m : own[k] \in Func
  <2>1. ProgramOK
    BY MadeParts
  <2>2. own \in Seq(Func)
    BY <2>1, OwnLast
  <2> QED BY <2>1, <2>2, OwnLast
<1>2. /\ S = {} => (out <=> Direct(c, n, a) # {})
      /\ S # {} => (out <=> f.kind # "abstract")
  BY OutcomeParts
<1>3. S # {} => s \in S /\ \A t \in S : t[1] < s[1] \/ (t[1] = s[1] /\ t[2] <= s[2])
  BY LastSlotParts
<1>4. \A t \in S : /\ t = <<t[1], t[2]>> /\ t[1] \in 1 .. Len(rec[c]) /\ t[2] \in DOMAIN tables[c][t[1]]
                   /\ tables[c][t[1]][t[2]] \in Func /\ tables[c][t[1]][t[2]].of = c
                   /\ tables[c][t[1]][t[2]].name = n /\ MangledArity(tables[c][t[1]][t[2]]) = a
  BY SlotsParts
<1>5. \A g : g \in Direct(c, n, a) <=> \E k \in 1 .. m : g = own[k] /\ Fits(own[k], n, a)
  <2>1. \A g : g \in Range(own) <=> \E k \in 1 .. m : g = own[k]
    BY <1>1 DEF Range
  <2> QED BY <2>1 DEF Direct
<1>6. \A x : x \in Taken(c) <=> \E k \in Gone(D) : x = D[k]
  <2>1. Gone(D) = {k \in Seen(D) : D[k].kind = "override"}
    BY <1>1, RemovedParts
  <2> QED BY <2>1 DEF Taken, Declared
<1>7. Hidden(c, n, a) <=>
        \E k \in 1 .. m : /\ own[k].name = n /\ own[k].kind = "abstract" /\ own[k].arity = a + 1
                          /\ \A j \in 1 .. m : j > k => ~ Fits(own[j], n, a)
                          /\ G = {}
  <2>1. (\E x \in Taken(c) : x.name = n) <=> G # {}
    BY <1>6 DEF By
  <2> QED BY <1>1, <2>1 DEF Hidden
<1> HIDE DEF D, own, b, m, S, s, out, G
\* An override of the name replaces all that bears it.
<1>8. CASE G # {}
  <2>1. ~ Hidden(c, n, a)
    BY <1>7, <1>8
  <2>2. S # {} => f.kind # "abstract" /\ Direct(c, n, a) # {}
    <3> SUFFICES ASSUME S # {} PROVE f.kind # "abstract" /\ Direct(c, n, a) # {}
      OBVIOUS
    <3> DEFINE k == Max(G)
    <3>1. s \in S /\ f \in Func /\ f.of = c /\ f.name = n /\ MangledArity(f) = a
      BY <1>3, <1>4
    <3>2. f = D[k]
      <4>1. s[1] \in 1 .. Len(rec[c]) /\ s[2] \in DOMAIN tables[c][s[1]]
        BY <1>4, <3>1
      <4> QED BY <1>8, <3>1, <4>1, SlotFunction DEF G, D
    <3>3. k \in 1 .. Len(D) /\ D[k].kind = "override"
      BY <1>1, <1>8, ByParts DEF G
    <3> HIDE DEF f, k
    <3>4. k > b
      BY <1>1, <3>1, <3>2, <3>3
    <3>5. k - b \in 1 .. m /\ D[k] = own[k - b]
      BY <1>1, <3>3, <3>4
    <3>6. Fits(own[k - b], n, a)
      BY <3>1, <3>2, <3>3, <3>5 DEF Fits, MangledArity
    <3>7. own[k - b] \in Direct(c, n, a)
      BY <1>5, <3>5, <3>6
    <3> QED BY <3>2, <3>3, <3>7
  <2> QED BY <1>2, <2>1, <2>2 DEF out
\* Without one, each of the class's own methods has its slot.
<1>9. CASE G = {}
  <2> DEFINE R == Gone(D)
  <2>1. ASSUME NEW q \in 1 .. m, own[q].name = n, MangledArity(own[q]) = a
        PROVE  <<1, Rank(R, b + q)>> \in S /\ b + q \notin R
    <3>1. b + q \in 1 .. Len(D) /\ D[b + q] = own[q] /\ D[b + q].of = c
      BY <1>1
    <3> QED BY <1>9, <2>1, <3>1, OwnSlot DEF G, D, S
  <2>2. ASSUME NEW q \in 1 .. m, Fits(own[q], n, a) PROVE own[q].name = n /\ MangledArity(own[q]) = a
    BY <2>2 DEF Fits, MangledArity
  <2>3. CASE S = {}
    <3>1. Direct(c, n, a) = {}
      BY <1>5, <2>1, <2>2, <2>3
    <3> QED BY <1>2, <2>3, <3>1 DEF out
  <2>4. CASE S # {}
    <3>1. s \in S /\ f \in Func /\ f.of = c /\ f.name = n /\ MangledArity(f) = a
      BY <1>3, <1>4, <2>4
    <3>2. s[1] = 1 /\ \E k \in 1 .. Len(D) : k \notin R /\ Rank(R, k) = s[2] /\ f = D[k]
      <4>1. s[1] \in 1 .. Len(rec[c]) /\ s[2] \in DOMAIN tables[c][s[1]]
        BY <1>4, <3>1
      <4> QED BY <1>9, <3>1, <4>1, SlotFunction DEF G, D
    <3>3. PICK k \in 1 .. Len(D) : k \notin R /\ Rank(R, k) = s[2] /\ f = D[k]
      BY <3>2
    <3> HIDE DEF f
    <3> DEFINE l == k - b
    <3>4. k > b /\ l \in 1 .. m /\ f = own[l]
      <4>1. k > b
        BY <1>1, <3>1, <3>3
      <4> QED BY <1>1, <3>3, <4>1
    <3> HIDE DEF l
    <3>5. b + l = k /\ b \in Nat /\ k \in Nat /\ l \in Nat /\ m \in Nat
      <4>1. m \in Nat
        BY <1>1 DEF m
      <4> QED BY <1>1, <3>4, <4>1 DEF l
    \* No other of the methods that may be called stands behind it.
    <3>6. ASSUME NEW q \in 1 .. m, own[q].name = n, MangledArity(own[q]) = a PROVE q <= l
      <4>1. <<1, Rank(R, b + q)>> \in S /\ b + q \notin R /\ b + q \in 1 .. Len(D) /\ b + q \in Nat
        BY <1>1, <2>1, <3>6
      <4>2. Rank(R, b + q) <= Rank(R, k)
        <5> DEFINE t == <<1, Rank(R, b + q)>>
        <5>1. t \in S /\ t[1] = 1 /\ t[2] = Rank(R, b + q)
          BY <4>1
        <5> HIDE DEF t
        <5>2. t[1] < s[1] \/ (t[1] = s[1] /\ t[2] <= s[2])
          BY <1>3, <2>4, <5>1
        <5> QED BY <3>2, <3>3, <5>1, <5>2
      <4>3. ~ (k < b + q)
        <5> SUFFICES ASSUME k < b + q PROVE FALSE
          OBVIOUS
        <5>1. Rank(R, k) < Rank(R, b + q) /\ Rank(R, k) \in Nat /\ Rank(R, b + q) \in Nat
          BY <3>5, <4>1, RankGrows
        <5> QED BY <4>2, <5>1
      <4> QED BY <3>5, <4>1, <4>3
    <3>7. CASE f.kind # "abstract"
      <4>1. Fits(own[l], n, a)
        BY <3>1, <3>4, <3>7 DEF Fits, MangledArity
      <4>2. own[l] \in Direct(c, n, a)
        BY <1>5, <3>4, <4>1
      <4>3. ASSUME NEW h \in 1 .. m, own[h].name = n, own[h].kind = "abstract", own[h].arity = a + 1,
                   \A j \in 1 .. m : j > h => ~ Fits(own[j], n, a)
            PROVE  FALSE
        <5>1. MangledArity(own[h]) = a
          BY <4>3 DEF MangledArity
        <5>2. h <= l
          BY <3>6, <4>3, <5>1
        <5>3. h # l
          BY <3>4, <3>7, <4>3
        <5>4. l > h
          BY <3>5, <5>2, <5>3
        <5> QED BY <3>4, <4>1, <4>3, <5>4
      <4>4. ~ Hidden(c, n, a)
        BY <1>7, <4>3
      <4> QED BY <1>2, <2>4, <3>7, <4>2, <4>4 DEF out, f
    <3>8. CASE f.kind = "abstract"
      <4> SUFFICES ASSUME Direct(c, n, a) # {} PROVE Hidden(c, n, a)
        BY <1>2, <2>4, <3>8 DEF out, f
      <4>1. PICK q \in 1 .. m : Fits(own[q], n, a)
        BY <1>5
      <4>2. own[q].name = n /\ MangledArity(own[q]) = a /\ own[q].arity = a /\ own[q].kind # "abstract"
        BY <2>2, <4>1 DEF Fits
      <4>3. q # l
        BY <3>4, <3>8, <4>2
      <4>4. f.arity = a + 1
        <5>1. f.arity # a
          <6> SUFFICES ASSUME f.arity = a PROVE FALSE
            OBVIOUS
          <6>1. Told(own, c)
            BY MadeParts, ProgramParts DEF own
          <6>2. q \in DOMAIN own /\ l \in DOMAIN own /\ own[q].name = own[l].name /\ own[q].arity = own[l].arity
            BY <1>1, <3>1, <3>4, <4>2
          <6> QED BY <4>3, <6>1, <6>2 DEF Told
        <5>2. f.arity \in 0 .. 1
          BY <3>1 DEF Func
        <5> QED BY <3>1, <3>8, <5>1, <5>2 DEF MangledArity
      <4>5. ASSUME NEW j \in 1 .. m, j > l PROVE ~ Fits(own[j], n, a)
        <5>1. ~ (j <= l)
          BY <3>5, <4>5
        <5> QED BY <2>2, <3>6, <5>1
      <4> QED BY <1>7, <1>9, <3>1, <3>4, <3>8, <4>4, <4>5
    <3> QED BY <3>7, <3>8
  <2> QED BY <2>3, <2>4
<1> QED BY <1>8, <1>9

-----------------------------------------------------------------------------
(* The call that was made.                                                 *)
LEMMA CallFrame ==
  ASSUME program' = program, elements' = elements, tables' = tables, object' = object,
         NEW c, NEW n, NEW a
  PROVE  CallOutcome(c, n, a)' = CallOutcome(c, n, a)
<1>1. extending(c)' = extending(c) /\ \A d : implementing(d)' = implementing(d)
  BY Frame
<1>2. \A d : SuperSize(d)' = SuperSize(d)
  BY LayoutFrame
<1>3. \A i : TableAt(c, i)' = TableAt(c, i) /\ SuperOffset(c)' = SuperOffset(c)
  BY <1>2 DEF TableAt, SuperOffset
<1>4. InheritedPointers(c)' = InheritedPointers(c)
  BY <1>1 DEF InheritedPointers, extending, implementing
<1>5. \A i : IdWord(c, i)' = IdWord(c, i) /\ MapWord(c, i)' = MapWord(c, i)
  BY <1>3, <1>4 DEF IdWord, MapWord
<1>6. Slots(c, n, a)' = Slots(c, n, a)
  BY DEF Slots
<1>7. Direct(c, n, a)' = Direct(c, n, a)
  BY DEF Direct
<1>8. \A s : MappedAt(c, s)' = MappedAt(c, s)
  BY <1>5 DEF MappedAt
<1>9. \A s : Mapped(c, s)' = Mapped(c, s)
  BY <1>8 DEF Mapped
<1>10. \A at, j : Entry(at, j)' = Entry(at, j)
  BY DEF Entry
<1> DEFINE s == LastSlot(Slots(c, n, a))
<1>11. s' = s
  BY <1>6 DEF LastSlot
<1>12. PICK t : t = s
  OBVIOUS
<1>13. /\ MappedAt(c, t)' = MappedAt(c, t) /\ Mapped(c, t)' = Mapped(c, t)
       /\ Entry(TableAt(c, t[1]), t[2])' = Entry(TableAt(c, t[1]), t[2])
  <2>1. PICK at : at = TableAt(c, t[1])
    OBVIOUS
  <2>2. TableAt(c, t[1])' = at
    BY <1>3, <2>1
  <2>3. Entry(at, t[2])' = Entry(at, t[2])
    BY <1>10
  <2> QED BY <1>8, <1>9, <2>1, <2>2, <2>3
<1>14. t = s'
  BY <1>11, <1>12
<1>15. /\ MappedAt(c, s)' = MappedAt(c, s) /\ Mapped(c, s)' = Mapped(c, s)
       /\ Entry(TableAt(c, s[1]), s[2])' = Entry(TableAt(c, s[1]), s[2])
  BY <1>12, <1>13, <1>14
<1> HIDE DEF s
<1>16. CallOutcome(c, n, a) =
         IF Slots(c, n, a) = {}
           THEN IF Direct(c, n, a) = {} THEN <<"unknown">>
                ELSE <<"runs", CHOOSE f \in Direct(c, n, a) : TRUE>>
         ELSE IF MappedAt(c, s) = {} THEN <<"crash">>
         ELSE IF ~ Fits(Mapped(c, s), Mapped(c, s).name, a) THEN <<"refused">>
         ELSE Entry(TableAt(c, s[1]), s[2])
  BY DEF CallOutcome, s
<1>17. CallOutcome(c, n, a)' =
         IF Slots(c, n, a)' = {}
           THEN IF Direct(c, n, a)' = {} THEN <<"unknown">>
                ELSE <<"runs", CHOOSE f \in Direct(c, n, a)' : TRUE>>
         ELSE IF MappedAt(c, s)' = {} THEN <<"crash">>
         ELSE IF ~ Fits(Mapped(c, s)', Mapped(c, s)'.name, a) THEN <<"refused">>
         ELSE Entry(TableAt(c, s[1]), s[2])'
  BY DEF CallOutcome, s
<1> QED BY <1>6, <1>7, <1>15, <1>16, <1>17

(* A call is made once, on an object that is ready.                        *)
UsedInv ==
  used # <<>> =>
    /\ pc = "ready" /\ used.class \in superTypes[new] /\ used.arity \in 0 .. 1
    /\ used.outcome = CallOutcome(used.class, used.name, used.arity)

LEMMA NextUsed ==
  ASSUME UsedInv, [Next]_vars
  PROVE  UsedInv'
<1>1. CASE UNCHANGED vars \/ Ended
  <2>1. /\ program' = program /\ elements' = elements /\ tables' = tables /\ object' = object
        /\ used' = used /\ pc' = pc /\ new' = new
    BY <1>1 DEF Ended, vars, compileVars
  <2>2. superTypes' = superTypes
    BY <2>1, Frame
  <2>3. PICK c, n, a : c = used.class /\ n = used.name /\ a = used.arity
    OBVIOUS
  <2>4. CallOutcome(c, n, a)' = CallOutcome(c, n, a)
    BY <2>1, CallFrame
  <2>5. c = used'.class /\ n = used'.name /\ a = used'.arity
    BY <2>1, <2>3
  <2>6. CallOutcome(used.class, used.name, used.arity)' = CallOutcome(used.class, used.name, used.arity)
    BY <2>3, <2>4, <2>5
  <2> QED BY <2>1, <2>2, <2>6 DEF UsedInv
<1>2. ASSUME used' = used, pc # "ready" PROVE UsedInv'
  BY <1>2 DEF UsedInv
<1>3. CASE (\E c \in Class : GeneratePart(c) \/ Generate(c) \/ NewObject(c)) \/ CallSuper \/ Construct
  <2>1. used' = used /\ pc # "ready"
    BY <1>3 DEF GeneratePart, Generate, NewObject, CallSuper, Construct, useVars
  <2> QED BY <1>2, <2>1
<1>4. CASE Overriding \/ MakeTables \/ TablesRefused
  <2>1. used' = used /\ pc # "ready"
    BY <1>4 DEF Overriding, MakeTables, TablesRefused, useVars
  <2> QED BY <1>2, <2>1
<1>5. ASSUME NEW c \in Class, NEW n \in Name, NEW a \in 0 .. 1, Call(c, n, a) PROVE UsedInv'
  <2>1. /\ pc = "ready" /\ c \in superTypes[new]
        /\ used' = [class |-> c, name |-> n, arity |-> a, outcome |-> CallOutcome(c, n, a)]
        /\ program' = program /\ elements' = elements /\ tables' = tables /\ object' = object
        /\ pc' = pc /\ new' = new
    BY <1>5 DEF Call, compileVars
  <2>2. superTypes' = superTypes
    BY <2>1, Frame
  <2>3. CallOutcome(c, n, a)' = CallOutcome(c, n, a)
    BY <2>1, CallFrame
  <2>4. used'.class = c /\ used'.name = n /\ used'.arity = a /\ used'.outcome = CallOutcome(c, n, a)
    BY <2>1
  <2>5. CallOutcome(used.class, used.name, used.arity)' = CallOutcome(c, n, a)'
    BY <2>4
  <2> QED BY <2>1, <2>2, <2>3, <2>4, <2>5 DEF UsedInv
<1> QED BY <1>1, <1>3, <1>4, <1>5 DEF Next

(* What is true of an object and of the call that is made on it.           *)
LEMMA CallsMade == Spec => [](PartInv /\ TablesInv /\ ObjectInv /\ UsedInv)
<1>1. Init => ObjectInv /\ UsedInv
  BY DEF Init, ObjectInv, UsedInv
<1>2. PartInv /\ LoopInv /\ TablesInv /\ ObjectInv /\ UsedInv /\ [Next]_vars => ObjectInv' /\ UsedInv'
  BY NextObject, NextUsed
<1> QED BY <1>1, <1>2, TablesMade, PTL DEF Spec

(***************************************************************************)
(* A call is compiled exactly for a method that the class of the           *)
(* expression declares and implements, and for which no abstract one is    *)
(* entered, whatever the superclasses declare; except below a class that   *)
(* names an interface (Class::generate keys funcIdMs and funcMap apart).   *)
(***************************************************************************)
THEOREM CompiledByRuleAlways == Spec => []CompiledByRule
<1>1. PartInv /\ TablesInv /\ ObjectInv /\ UsedInv => CompiledByRule
  <2> SUFFICES ASSUME PartInv, TablesInv, ObjectInv, UsedInv, used # <<>>,
                      extending(used.class) = NoClass \/ implementing(extending(used.class)) = <<>>
               PROVE  Compiled <=> /\ Direct(used.class, used.name, used.arity) # {}
                                   /\ ~ Hidden(used.class, used.name, used.arity)
    BY DEF CompiledByRule
  <2>1. /\ pc = "ready" /\ used.class \in superTypes[new] /\ used.arity \in 0 .. 1
        /\ used.outcome = CallOutcome(used.class, used.name, used.arity)
    BY DEF UsedInv
  <2>2. Made /\ new \in Class
    BY <2>1 DEF Made, PartInv, TablesInv, ObjectInv
  <2>3. used.class \in Class
    BY <2>1, <2>2, SuperTypes, MadeParts DEF Or
  <2> DEFINE c == used.class  n == used.name  a == used.arity
  <2> HIDE DEF c, n, a
  <2>4. IsCompiled(CallOutcome(c, n, a)) <=> Direct(c, n, a) # {} /\ ~ Hidden(c, n, a)
    BY <2>1, <2>2, <2>3, CompiledWhen DEF c, a
  <2> QED BY <2>1, <2>4 DEF c, n, a, Compiled, IsCompiled
<1> QED BY <1>1, CallsMade, PTL

-----------------------------------------------------------------------------
(* What a call runs.  The methods of a superclass stand first among those  *)
(* of a class, and what stays of them stays in its slot.                   *)
LEMMA InheritedFirst ==
  ASSUME ProgramOK
  PROVE  \A c \in Class : \A d \in superTypes[c] :
           /\ d \in Class /\ Len(declared[d]) <= Len(declared[c])
           /\ \A k \in 1 .. Len(declared[d]) :
                /\ declared[c][k] = declared[d][k]
                /\ k \notin Gone(declared[d]) =>
                     k \notin Gone(declared[c]) /\ Rank(Gone(declared[c]), k) = Rank(Gone(declared[d]), k)
<1> DEFINE Stays(d, c) == /\ d \in Class /\ Len(declared[d]) <= Len(declared[c])
                          /\ \A k \in 1 .. Len(declared[d]) :
                               /\ declared[c][k] = declared[d][k]
                               /\ k \notin Gone(declared[d]) =>
                                    k \notin Gone(declared[c]) /\ Rank(Gone(declared[c]), k) = Rank(Gone(declared[d]), k)
           P == {c \in Or(Class) : \A d \in superTypes[c] : Stays(d, c)}
<1>1. NoClass \in P
  BY SuperTypes DEF Or
<1>2. ASSUME NEW c \in Class, extending(c) \in P PROVE c \in P
  <2> SUFFICES ASSUME NEW d \in superTypes[c] PROVE Stays(d, c)
    BY DEF Or
  <2>1. d = c \/ d \in superTypes[extending(c)]
    BY SuperTypes
  <2>2. CASE d = c
    <3>1. Len(declared[c]) \in Nat
      BY OwnLast
    <3> QED BY <2>2, <3>1
  <2>3. CASE d \in superTypes[extending(c)]
    <3> DEFINE e == extending(c)  b == Before(c)
    <3>1. Stays(d, e) /\ e # NoClass
      BY <1>2, <2>3, SuperTypes
    <3>2. e \in Class /\ Len(declared[e]) = b
      BY <3>1, ProgramParts DEF Or, Before
    <3>3. Len(declared[d]) \in Nat /\ b \in Nat /\ Len(declared[c]) \in Nat /\ b <= Len(declared[c])
      <4>1. d \in Class
        BY <3>1
      <4>2. Len(declared[d]) \in Nat /\ Before(c) \in Nat /\ Len(declared[c]) \in Nat
        BY <4>1, OwnLast
      <4>3. Len(declared[c]) = Before(c) + Len(program.funcs[c]) /\ Len(program.funcs[c]) \in Nat
        BY DeclaredParts, ProgramParts
      <4> QED BY <4>2, <4>3
    <3>4. ASSUME NEW k \in 1 .. Len(declared[d])
          PROVE  /\ declared[c][k] = declared[d][k]
                 /\ k \notin Gone(declared[d]) =>
                      k \notin Gone(declared[c]) /\ Rank(Gone(declared[c]), k) = Rank(Gone(declared[d]), k)
      <4>1. k \in 1 .. b
        BY <3>1, <3>2, <3>3
      <4>2. declared[e][k] = declared[d][k] /\ declared[c][k] = declared[e][k]
        BY <3>1, <4>1, DeclaredParts
      <4>3. ASSUME k \notin Gone(declared[d])
            PROVE  k \notin Gone(declared[c]) /\ Rank(Gone(declared[c]), k) = Rank(Gone(declared[d]), k)
        <5>1. k \notin Gone(declared[e]) /\ Rank(Gone(declared[e]), k) = Rank(Gone(declared[d]), k)
          BY <3>1, <4>3
        <5>2. k \notin Gone(declared[c]) /\ Rank(Gone(declared[c]), k) = Rank(Gone(declared[e]), k)
          BY <3>1, <4>1, <5>1, KeptInSubclass
        <5> QED BY <5>1, <5>2
      <4> QED BY <4>2, <4>3
    <3> QED BY <3>1, <3>2, <3>3, <3>4
  <2> QED BY <2>1, <2>2, <2>3
<1>3. Or(Class) \subseteq P
  <2> HIDE DEF P
  <2> QED BY <1>1, <1>2, OfAllClasses
<1> QED BY <1>3 DEF Or

\* The methods of one name, and the last of them.
Namesakes(D, n) == {k \in DOMAIN D : D[k].name = n}

LEMMA NamesakesParts ==
  ASSUME NEW D \in Seq(Func), NEW n
  PROVE  /\ Namesakes(D, n) \in SUBSET (1 .. Len(D)) /\ Len(D) \in Nat
         /\ Namesakes(D, n) # {} => /\ Max(Namesakes(D, n)) \in Namesakes(D, n)
                                    /\ \A k \in Namesakes(D, n) : k <= Max(Namesakes(D, n))
<1>1. Namesakes(D, n) \in SUBSET (1 .. Len(D)) /\ Len(D) \in Nat
  BY DEF Namesakes
<1>2. Namesakes(D, n) # {} => /\ Max(Namesakes(D, n)) \in Namesakes(D, n)
                              /\ \A k \in Namesakes(D, n) : k <= Max(Namesakes(D, n))
  BY <1>1, MaxParts
<1> QED BY <1>1, <1>2

(* If the methods of a name override properly in a class, then in it and   *)
(* in each of its superclasses the first of them is in a slot, the others  *)
(* are taken, and the slot holds the last.                                 *)
LEMMA RegularParts ==
  ASSUME ProgramOK, NEW b \in Class, NEW c \in superTypes[b], NEW n, Regular(b, n)
  PROVE  LET D == declared[c]  N == Namesakes(D, n) IN
         /\ c \in Class
         /\ \A j, k \in N : D[j].arity = D[k].arity
         /\ \A k \in N : k \notin Gone(D) <=> \A j \in N : ~ (j < k)
         /\ \A k \in N : k \in Gone(D) => D[k].kind = "override"
         /\ \A k \in N : k \notin Gone(D) => RepFor(D, D[k]) = D[Max(N)]
<1> DEFINE D == declared[c]  B == declared[b]  N == Namesakes(D, n)  M == Namesakes(B, n)
<1>1. c \in Class /\ Len(D) <= Len(B) /\ \A k \in 1 .. Len(D) : B[k] = D[k]
  BY InheritedFirst
<1>2. /\ D \in Seq(Func) /\ Len(D) \in Nat /\ DOMAIN D = 1 .. Len(D)
      /\ B \in Seq(Func) /\ Len(B) \in Nat /\ DOMAIN B = 1 .. Len(B)
  BY <1>1, OwnLast
<1>3. /\ \A j, k \in M : B[j].arity = B[k].arity
      /\ \A k \in M : B[k].kind = "override" <=> \E j \in M : j < k
      /\ \A k \in N : k \in Seen(D)
  BY DEF Regular, Declared, Namesakes
<1>4. Gone(D) = {k \in Seen(D) : D[k].kind = "override"}
  BY <1>2, RemovedParts
<1>5. N \in SUBSET (1 .. Len(D)) /\ M \in SUBSET (1 .. Len(B))
  BY <1>2, NamesakesParts
<1>6. /\ \A k \in 1 .. Len(D) : k \in N <=> D[k].name = n
      /\ \A k \in 1 .. Len(B) : k \in M <=> B[k].name = n
  BY <1>2 DEF Namesakes
<1>7. By(D, n) = {k \in N : k \in Gone(D)}
  BY <1>2, <1>5, <1>6, ByParts DEF By
<1> HIDE DEF D, B, N, M
<1>8. \A k \in 1 .. Len(D) : k \in Nat /\ k \in 1 .. Len(B)
  BY <1>1, <1>2
<1>9. N \subseteq M /\ \A k \in N : D[k] = B[k]
  BY <1>1, <1>5, <1>6, <1>8
<1>10. ASSUME NEW k \in N PROVE D[k].kind = "override" <=> \E j \in N : j < k
  <2>1. k \in M /\ (B[k].kind = "override" <=> \E j \in M : j < k)
    BY <1>3, <1>9
  <2>2. ASSUME NEW j \in M, j < k PROVE j \in N
    <3>1. j \in 1 .. Len(B) /\ k \in 1 .. Len(D)
      BY <1>5
    <3>2. j \in 1 .. Len(D)
      BY <1>2, <2>2, <3>1
    <3> QED BY <1>1, <1>6, <3>1, <3>2
  <2> QED BY <1>9, <2>1, <2>2
<1>11. ASSUME NEW k \in N PROVE k \notin Gone(D) <=> \A j \in N : ~ (j < k)
  BY <1>3, <1>4, <1>10
<1>12. ASSUME NEW k \in N, k \notin Gone(D) PROVE RepFor(D, D[k]) = D[Max(N)]
  <2>1. D[k].name = n
    BY <1>5, <1>6
  <2>2. RepFor(D, D[k]) = IF By(D, n) = {} THEN D[k] ELSE D[Max(By(D, n))]
    <3>1. PICK f : f = D[k]
      OBVIOUS
    <3>2. f.name = n
      BY <2>1, <3>1
    <3>3. RepFor(D, f) = IF By(D, n) = {} THEN f ELSE D[Max(By(D, n))]
      BY <1>2, <3>2, ByParts
    <3> QED BY <3>1, <3>3
  <2>3. Max(N) \in N /\ \A j \in N : j <= Max(N)
    BY <1>2, NamesakesParts DEF N
  <2>4. \A j \in N : ~ (j < k)
    BY <1>11, <1>12
  <2>5. \A j \in N : j # k => j \in By(D, n)
    <3> SUFFICES ASSUME NEW j \in N, j # k PROVE j \in By(D, n)
      OBVIOUS
    <3>1. k < j
      BY <1>5, <1>8, <2>4
    <3>2. j \in Gone(D)
      BY <1>11, <3>1
    <3> QED BY <1>7, <3>2
  <2>6. CASE By(D, n) = {}
    <3>1. Max(N) = k
      BY <2>3, <2>5, <2>6
    <3> QED BY <2>2, <2>6, <3>1
  <2>7. CASE By(D, n) # {}
    <3> DEFINE x == Max(By(D, n))  y == Max(N)
    <3>1. x \in By(D, n) /\ \A j \in By(D, n) : j <= x
      BY <1>2, <2>7, ByParts, MaxParts
    <3>2. x \in N /\ x \in Nat /\ k < x /\ k \in Nat /\ y \in N /\ y \in Nat /\ x <= y
      <4>1. x \in N /\ x # k
        BY <1>7, <1>12, <3>1
      <4>2. ~ (x < k) /\ x <= y /\ y \in N
        BY <2>3, <2>4, <4>1
      <4>3. x \in Nat /\ k \in Nat /\ y \in Nat
        BY <1>5, <1>8, <4>1, <4>2
      <4> HIDE DEF x, y
      <4> QED BY <4>1, <4>2, <4>3
    <3> HIDE DEF x, y
    <3>3. y # k
      BY <3>2
    <3>4. y <= x
      BY <2>5, <3>1, <3>2, <3>3
    <3>5. x = y
      BY <3>2, <3>4
    <3> QED BY <2>2, <2>7, <3>5 DEF x, y
  <2> QED BY <2>6, <2>7
<1>13. \A j, k \in N : D[j].arity = D[k].arity
  BY <1>3, <1>9
<1>14. \A k \in N : k \in Gone(D) => D[k].kind = "override"
  BY <1>4
<1> QED BY <1>1, <1>11, <1>12, <1>13, <1>14 DEF D, N

\* A method that is declared has a slot, if those of its name are regular.
LEMMA RegularSlot ==
  ASSUME Made, NEW b \in Class, NEW c \in superTypes[b], NEW n, NEW a, Regular(b, n), Direct(c, n, a) # {}
  PROVE  Slots(c, n, a) # {}
<1> DEFINE D == declared[c]  own == program.funcs[c]  N == Namesakes(D, n)  x == Max(N)
<1>1. ProgramOK /\ c \in Class
  BY MadeParts, InheritedFirst
<1>2. /\ \A j, k \in N : D[j].arity = D[k].arity
      /\ \A k \in N : k \notin Gone(D) <=> \A j \in N : ~ (j < k)
      /\ \A k \in N : k \in Gone(D) => D[k].kind = "override"
      /\ \A k \in N : k \notin Gone(D) => RepFor(D, D[k]) = D[x]
  BY <1>1, RegularParts
<1>3. /\ D \in Seq(Func) /\ DOMAIN D = 1 .. Len(D) /\ Len(D) \in Nat /\ Before(c) \in Nat
      /\ \A k \in 1 .. Len(D) : D[k].of = c <=> k > Before(c)
      /\ \A k \in 1 .. Len(own) : /\ Before(c) + k \in 1 .. Len(D) /\ Before(c) + k > Before(c)
                                  /\ D[Before(c) + k] = own[k]
      /\ DOMAIN own = 1 .. Len(own)
  BY <1>1, OwnLast
<1>4. PICK h \in 1 .. Len(own) : Fits(own[h], n, a)
  <2>1. PICK g \in Direct(c, n, a) : TRUE
    OBVIOUS
  <2>2. g \in Range(own) /\ Fits(g, n, a)
    BY <2>1 DEF Direct
  <2> QED BY <1>3, <2>2 DEF Range
<1> DEFINE q == Before(c) + h
<1>5. /\ q \in 1 .. Len(D) /\ q > Before(c) /\ D[q].name = n /\ D[q].arity = a /\ D[q].kind # "abstract"
      /\ q \in N
  <2>1. q \in 1 .. Len(D) /\ q > Before(c) /\ D[q] = own[h]
    BY <1>3
  <2> QED BY <1>3, <1>4, <2>1 DEF Fits, Namesakes
<1>6. N \in SUBSET (1 .. Len(D)) /\ x \in N /\ \A k \in N : k <= x
  <2>1. N # {}
    BY <1>5
  <2> QED BY <1>3, <2>1, NamesakesParts
<1> HIDE DEF D, N, x, q
<1>7. PICK k \in N : \A j \in N : ~ (j < k)
  <2>1. N \in SUBSET Nat /\ N # {}
    BY <1>5, <1>6
  <2> QED BY <2>1, NatMin
<1>8. k \notin Gone(D) /\ RepFor(D, D[k]) = D[x] /\ k \in 1 .. Len(D)
  BY <1>2, <1>6, <1>7
<1>9. Rank(Gone(D), k) \in DOMAIN tables[c][1] /\ tables[c][1][Rank(Gone(D), k)] = D[x]
  BY <1>1, <1>8, Entries DEF D
<1>10. x \in 1 .. Len(D) /\ x > Before(c)
  BY <1>3, <1>5, <1>6
<1>11. D[x].of = c /\ D[x].name = n /\ D[x].arity = a
  <2>1. D[x].of = c /\ D[x].arity = a
    BY <1>2, <1>3, <1>5, <1>6, <1>10
  <2>2. D[x].name = n
    BY <1>6 DEF N, Namesakes
  <2> QED BY <2>1, <2>2
<1>12. D[x].kind # "abstract"
  <2>1. CASE x \in Gone(D)
    BY <1>2, <1>6, <2>1
  <2>2. CASE x \notin Gone(D)
    <3>1. \A j \in N : ~ (j < x)
      BY <1>2, <1>6, <2>2
    <3>2. q = x
      BY <1>3, <1>5, <1>6, <1>10, <3>1
    <3> QED BY <1>5, <3>2
  <2> QED BY <2>1, <2>2
<1>13. MangledArity(D[x]) = a
  BY <1>11, <1>12 DEF MangledArity
<1>14. 1 \in 1 .. Len(rec[c])
  BY <1>1, MadeParts
<1>15. PICK j \in DOMAIN tables[c][1] : tables[c][1][j] = D[x]
  BY <1>9
<1>16. <<1, j>> \in Slots(c, n, a)
  <2>1. /\ tables[c][1][j].of = c /\ tables[c][1][j].name = n
        /\ MangledArity(tables[c][1][j]) = a
    BY <1>11, <1>13, <1>15
  <2> QED BY <1>1, <1>14, <2>1, SlotsParts
<1> QED BY <1>16

LEMMA EntryAt ==
  ASSUME NEW at, NEW j, NEW d, NEW i, HeldIn(object, at, 2, <<"table", d, i>>), at \in Int
  PROVE  Entry(at, j) = IF j \notin DOMAIN tables[d][i] THEN <<"junk">>
                        ELSE IF d \in program.abstract THEN <<"pure">> ELSE <<"runs", tables[d][i][j]>>
<1>1. at \in at .. at + 2 - 1 /\ at + 1 \in at .. at + 2 - 1
  OBVIOUS
<1>2. at \in DOMAIN object /\ at + 1 \in DOMAIN object /\ object[at] = <<"table", d, i>> /\ object[at + 1] = object[at]
  BY <1>1 DEF HeldIn
<1>3. IsTable(object[at]) /\ object[at][2] = d /\ object[at][3] = i
  BY <1>2 DEF IsTable
<1> QED BY <1>2, <1>3 DEF Entry

\* Without interfaces, a call runs the last of the name.
LEMMA DispatchedByName ==
  ASSUME Made, NEW b \in Class, Built(b, object), NEW c \in superTypes[b], NEW n, NEW a,
         NoTables(b), Regular(b, n), CallOutcome(c, n, a)[1] \in {"runs", "pure"}
  PROVE  CallOutcome(c, n, a) = IF b \in program.abstract THEN <<"pure">> ELSE <<"runs", Latest(b, n)>>
<1> DEFINE S == Slots(c, n, a)  s == LastSlot(S)  D == declared[c]  B == declared[b]  out == CallOutcome(c, n, a)
<1>1. ProgramOK /\ c \in Class /\ b \in superTypes[b]
  BY MadeParts, InheritedFirst, SuperTypes
<1>2. S # {}
  <2> SUFFICES ASSUME S = {} PROVE FALSE
    OBVIOUS
  <2>1. Direct(c, n, a) = {}
    BY RegularSlot
  <2>2. out = <<"unknown">>
    BY <2>1 DEF CallOutcome
  <2> QED BY <2>2
<1>3. /\ s = <<s[1], s[2]>> /\ s[1] \in 1 .. Len(rec[c]) /\ s[2] \in DOMAIN tables[c][s[1]]
      /\ tables[c][s[1]][s[2]].name = n
  <2>1. s \in S
    BY <1>1, <1>2, LastSlotParts
  <2> HIDE DEF s
  <2> QED BY <1>1, <2>1, SlotsParts
<1>4. s[1] = 1
  <2>1. Len(rec[c]) <= Len(rec[b]) /\ Len(rec[c]) \in Nat /\ Len(rec[b]) = 1
    BY <1>1, Chain, MadeParts DEF Above, NoTables
  <2> DEFINE i == s[1]  m == Len(rec[c])
  <2>2. i \in 1 .. m /\ m <= 1 /\ m \in Nat
    BY <1>3, <2>1
  <2> HIDE DEF i, m
  <2>3. i = 1
    BY <2>2
  <2> QED BY <2>3 DEF i
<1>5. out = Entry(0, s[2])
  <2>1. out = Entry(TableAt(c, s[1]), s[2])
    <3>1. out = IF MappedAt(c, s) = {} THEN <<"crash">>
                ELSE IF ~ Fits(Mapped(c, s), Mapped(c, s).name, a) THEN <<"refused">>
                ELSE Entry(TableAt(c, s[1]), s[2])
      BY <1>2 DEF CallOutcome
    <3>2. out # <<"crash">> /\ out # <<"refused">>
      OBVIOUS
    <3> HIDE DEF out, s
    <3> QED BY <3>1, <3>2
  <2>2. TableAt(c, s[1]) = 0
    BY <1>4 DEF TableAt
  <2> QED BY <2>1, <2>2
<1> DEFINE j == s[2]
<1>6. j \in DOMAIN tables[c][1] /\ tables[c][1][j].name = n
  BY <1>3, <1>4
<1> HIDE DEF s, j
<1>7. PICK k \in 1 .. Len(D) : k \notin Gone(D) /\ Rank(Gone(D), k) = j /\ tables[c][1][j] = RepFor(D, D[k])
  BY <1>1, <1>6, Entries
<1>8. D[k].name = n
  <2>1. D \in Seq(Func) /\ D[k] \in Func
    BY <1>1, <1>7, OwnLast
  <2>2. RepFor(D, D[k]).name = D[k].name
    <3> HIDE DEF D
    <3> QED BY <2>1, RepForParts
  <2> QED BY <1>6, <1>7, <2>2
<1>9. /\ k \in 1 .. Len(B) /\ B[k] = D[k] /\ k \notin Gone(B) /\ Rank(Gone(B), k) = j
  <2>1. Len(D) <= Len(B) /\ B[k] = D[k] /\ k \notin Gone(B) /\ Rank(Gone(B), k) = j
    BY <1>1, <1>7, InheritedFirst
  <2>2. Len(D) \in Nat /\ Len(B) \in Nat
    BY <1>1, OwnLast
  <2> HIDE DEF D, B
  <2> QED BY <1>7, <2>1, <2>2
<1>10. j \in DOMAIN tables[b][1] /\ tables[b][1][j] = RepFor(B, B[k])
  BY <1>9, Entries
<1>11. RepFor(B, B[k]) = B[Max(Namesakes(B, n))]
  <2>1. k \in Namesakes(B, n)
    BY <1>1, <1>8, <1>9, OwnLast DEF Namesakes
  <2> QED BY <1>1, <1>9, <2>1, RegularParts
<1>12. Latest(b, n) = B[Max(Namesakes(B, n))]
  BY DEF Latest, Namesakes, Declared
<1>13. Entry(0, j) = IF b \in program.abstract THEN <<"pure">> ELSE <<"runs", tables[b][1][j]>>
  <2>1. HeldIn(object, 0, 2, <<"table", b, 1>>)
    BY DEF Built
  <2>2. 0 \in Int
    OBVIOUS
  <2> QED BY <1>10, <2>1, <2>2, EntryAt
<1> QED BY <1>5, <1>10, <1>11, <1>12, <1>13 DEF j

\* By a table of an interface, a call runs the method of the class itself.
LEMMA DispatchedByInterface ==
  ASSUME Made, NEW b \in Class, Built(b, object), NEW c \in superTypes[b], NEW n, NEW a,
         Sound(c), IsCompiled(CallOutcome(c, n, a)), Slots(c, n, a) # {}, LastSlot(Slots(c, n, a))[1] > 1, Alone(c, n)
  PROVE  CallOutcome(c, n, a) = IF c \in program.abstract THEN <<"pure">> ELSE <<"runs", Latest(c, n)>>
<1> DEFINE S == Slots(c, n, a)  s == LastSlot(S)  D == declared[c]  out == CallOutcome(c, n, a)
           own == program.funcs[c]
<1>1. ProgramOK /\ c \in Class
  BY MadeParts, InheritedFirst
<1>2. /\ s = <<s[1], s[2]>> /\ s[1] \in 1 .. Len(rec[c]) /\ s[2] \in DOMAIN tables[c][s[1]]
      /\ tables[c][s[1]][s[2]].name = n /\ tables[c][s[1]][s[2]].of = c
  <2>1. s \in S
    BY <1>1, LastSlotParts
  <2> HIDE DEF s
  <2> QED BY <1>1, <2>1, SlotsParts
<1> DEFINE i == s[1]  j == s[2]  f == tables[c][i][j]
<1>3. i \in 2 .. Len(rec[c]) /\ j \in DOMAIN tables[c][i] /\ f.name = n /\ f.of = c
  <2>1. i \in 1 .. Len(rec[c]) /\ i > 1 /\ Len(rec[c]) \in Nat
    BY <1>1, <1>2, MadeParts
  <2> HIDE DEF s
  <2> QED BY <1>2, <2>1
<1>4. out = Entry(TableAt(c, i), j)
  <2>1. out = IF MappedAt(c, s) = {} THEN <<"crash">>
              ELSE IF ~ Fits(Mapped(c, s), Mapped(c, s).name, a) THEN <<"refused">>
              ELSE Entry(TableAt(c, s[1]), s[2])
    BY DEF CallOutcome
  <2>2. out # <<"crash">> /\ out # <<"refused">>
    <3> HIDE DEF out
    <3> QED BY DEF IsCompiled, out
  <2> HIDE DEF out, s
  <2> QED BY <2>1, <2>2
<1> HIDE DEF s, i, j, f, out
<1>5. out = IF c \in program.abstract THEN <<"pure">> ELSE <<"runs", f>>
  <2>1. PointersIn(object, c)
    BY DEF Built, Sound, Room
  <2>2. HeldIn(object, TableAt(c, i), 2, <<"table", c, i>>)
    BY <1>3, <2>1 DEF PointersIn
  <2>3. TableAt(c, i) \in Int
    <3>1. TableAt(c, i) = SuperSize(c) + 2 * (i - 2) /\ SuperSize(c) \in Nat /\ Len(rec[c]) \in Nat
      BY <1>1, <1>3, WhereStored, Sizes
    <3>2. i \in Nat
      BY <1>3, <3>1
    <3> QED BY <3>1, <3>2
  <2> QED BY <1>3, <1>4, <2>2, <2>3, EntryAt DEF f
<1>6. PICK g \in Func : g.of \in Interface /\ f = RepFor(D, g)
  BY <1>1, <1>3, Entries DEF f
<1>7. D \in Seq(Func) /\ Len(D) \in Nat /\ DOMAIN D = 1 .. Len(D)
  BY <1>1, OwnLast
<1>8. /\ \A k \in 1 .. Len(D) : D[k].of = c <=> k > Before(c)
      /\ \A k \in 1 .. Len(D) : k > Before(c) => k - Before(c) \in 1 .. Len(own) /\ D[k] = own[k - Before(c)]
      /\ DOMAIN own = 1 .. Len(own) /\ Before(c) \in Nat
  BY <1>1, OwnLast
<1> HIDE DEF D, own
<1>9. f.name = g.name /\ g.name = n
  BY <1>3, <1>6, <1>7, RepForParts
<1> DEFINE G == By(D, n)  m == Max(G)
<1>10. f = IF G = {} THEN g ELSE D[m]
  BY <1>6, <1>7, <1>9, ByParts
<1>11. G # {}
  <2>1. c \notin Interface
    BY <1>1, NamesAssumption
  <2> QED BY <1>3, <1>6, <1>10, <2>1
<1>12. m \in 1 .. Len(D) /\ D[m] = f /\ D[m].name = n
  <2>1. m \in 1 .. Len(D) /\ D[m].name = n
    BY <1>7, <1>11, ByParts
  <2> QED BY <1>10, <1>11, <2>1
<1> HIDE DEF G, m
\* It is the class's own, its only one of the name, and so the last.
<1> DEFINE N == Namesakes(D, n)  x == Max(N)
<1>13. m \in N
  BY <1>7, <1>12 DEF Namesakes
<1>14. x \in N /\ \A k \in N : k <= x
  <2>1. N # {}
    BY <1>13
  <2> QED BY <1>7, <2>1, NamesakesParts
<1>15. x \in 1 .. Len(D) /\ D[x].name = n
  BY <1>7, <1>14 DEF Namesakes
<1> HIDE DEF N, x
<1>16. x = m
  <2>1. m > Before(c) /\ m <= x /\ m \in Nat /\ x \in Nat
    BY <1>3, <1>7, <1>8, <1>12, <1>13, <1>14, <1>15
  <2>2. x > Before(c)
    BY <1>8, <2>1
  <2> DEFINE u == m - Before(c)  v == x - Before(c)
  <2>3. u \in DOMAIN own /\ v \in DOMAIN own /\ own[u].name = n /\ own[v].name = n
    BY <1>8, <1>12, <1>15, <2>1, <2>2
  <2>4. u = v
    <3> HIDE DEF u, v
    <3> QED BY <2>3 DEF Alone, own
  <2> QED BY <1>8, <2>1, <2>4
<1>17. Latest(c, n) = D[x]
  BY DEF Latest, Namesakes, Declared, D, N, x
<1> QED BY <1>5, <1>12, <1>16, <1>17 DEF out

(***************************************************************************)
(* What a compiled call runs: in a hierarchy without interfaces the method *)
(* the source means, if the overrides of its name are regular; by a table  *)
(* of an interface the method of the class of the expression, whatever the *)
(* object overrides (the tables and their pointers in Class::generate).    *)
(***************************************************************************)
THEOREM DispatchedAlways == Spec => []Dispatched
<1>1. PartInv /\ TablesInv /\ ObjectInv /\ UsedInv => Dispatched
  <2> SUFFICES ASSUME PartInv, TablesInv, ObjectInv, UsedInv, used # <<>>
               PROVE  /\ NoTables(new) /\ Regular(new, used.name) /\ used.outcome[1] \in {"runs", "pure"} =>
                           used.outcome = Runs(new)
                      /\ Sound(used.class) /\ Compiled /\ ByInterface /\ Alone(used.class, used.name) =>
                           used.outcome = Runs(used.class)
    BY DEF Dispatched
  <2>1. /\ pc = "ready" /\ used.class \in superTypes[new] /\ used.arity \in 0 .. 1
        /\ used.outcome = CallOutcome(used.class, used.name, used.arity)
    BY DEF UsedInv
  <2>2. Made /\ new \in Class /\ Built(new, object)
    BY <2>1 DEF Made, PartInv, TablesInv, ObjectInv
  <2> DEFINE c == used.class  n == used.name  a == used.arity
  <2>3. ASSUME NoTables(new), Regular(new, n), used.outcome[1] \in {"runs", "pure"}
        PROVE  used.outcome = Runs(new)
    <3>1. c \in superTypes[new] /\ CallOutcome(c, n, a)[1] \in {"runs", "pure"} /\ used.outcome = CallOutcome(c, n, a)
      BY <2>1, <2>3
    <3>2. Regular(new, n)
      BY <2>3
    <3>3. Runs(new) = IF new \in program.abstract THEN <<"pure">> ELSE <<"runs", Latest(new, n)>>
      BY DEF Runs
    <3> HIDE DEF c, n, a
    <3>4. CallOutcome(c, n, a) = IF new \in program.abstract THEN <<"pure">> ELSE <<"runs", Latest(new, n)>>
      BY <2>2, <2>3, <3>1, <3>2, DispatchedByName
    <3> QED BY <3>1, <3>3, <3>4
  <2>4. ASSUME Sound(c), Compiled, ByInterface, Alone(c, n)
        PROVE  used.outcome = Runs(c)
    <3>1. /\ c \in superTypes[new] /\ IsCompiled(CallOutcome(c, n, a)) /\ used.outcome = CallOutcome(c, n, a)
          /\ Slots(c, n, a) # {} /\ LastSlot(Slots(c, n, a))[1] > 1
      BY <2>1, <2>4 DEF Compiled, IsCompiled, ByInterface
    <3>2. Runs(c) = IF c \in program.abstract THEN <<"pure">> ELSE <<"runs", Latest(c, n)>>
      BY DEF Runs
    <3>3. Sound(c) /\ Alone(c, n)
      BY <2>4
    <3> HIDE DEF c, n, a
    <3>4. CallOutcome(c, n, a) = IF c \in program.abstract THEN <<"pure">> ELSE <<"runs", Latest(c, n)>>
      BY <2>2, <3>1, <3>3, DispatchedByInterface
    <3> QED BY <3>1, <3>2, <3>4
  <2> QED BY <2>3, <2>4
<1> QED BY <1>1, CallsMade, PTL
=============================================================================
