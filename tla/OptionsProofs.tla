--------------------------- MODULE OptionsProofs ----------------------------
(***************************************************************************)
(* What Options keeps for every command line and every build script:       *)
(* SeparatedByRule, EndByRule and OutputByRule, from the invariant OptInv. *)
(***************************************************************************)
EXTENDS OptionsRules, FiniteSetTheorems, NaturalsInduction, TLAPS

LEMMA NatMin ==
  ASSUME NEW T \in SUBSET Nat, T # {}
  PROVE  \E x \in T : \A y \in T : ~ (y < x)
<1>1. IsWellFoundedOn(OpToRel(<, Nat), Nat)
  BY NatLessThanWellFounded
<1>2. \E x \in T : \A y \in T : ~ (<<y, x>> \in OpToRel(<, Nat))
  BY <1>1, WFMin
<1>3. QED
  BY <1>2 DEF OpToRel

(***************************************************************************)
(* Every second of those that follow one another.                          *)
(***************************************************************************)
LEMMA RunStarts ==
  ASSUME NEW S \in SUBSET (Nat \ {0}), NEW k \in Nat \ {0}
  PROVE  \E s \in 1 .. k : s .. k - 1 \subseteq S /\ s - 1 \notin S
<1> DEFINE T == {d \in Nat : d < k /\ k - 1 - d \notin S}
<1>1. k - 1 \in T
  OBVIOUS
<1>2. PICK d \in T : \A y \in T : ~ (y < d)
  <2>1. T \in SUBSET Nat /\ T # {}
    BY <1>1
  <2> HIDE DEF T
  <2> QED BY <2>1, NatMin
<1> DEFINE s == k - d
<1>3. s \in 1 .. k /\ s - 1 \notin S
  BY <1>2
<1>4. ASSUME NEW x \in s .. k - 1 PROVE x \in S
  <2>1. k - 1 - x \in Nat /\ k - 1 - x < d /\ k - 1 - x < k /\ k - 1 - (k - 1 - x) = x
    BY <1>2
  <2>2. k - 1 - x \notin T
    BY <1>2, <2>1
  <2> QED BY <2>1, <2>2
<1> QED BY <1>3, <1>4

LEMMA Parity == \A n \in Nat : (n + 1) % 2 = 1 <=> n % 2 # 1
OBVIOUS

LEMMA SecondFirst ==
  ASSUME NEW S
  PROVE  ~ Second(S, 1)
<1>1. \A s \in 1 .. 1 : (1 - s) % 2 = 0
  OBVIOUS
<1> QED BY <1>1 DEF Second

LEMMA SecondStep ==
  ASSUME NEW S \in SUBSET (Nat \ {0}), NEW k \in Nat \ {0}
  PROVE  Second(S, k + 1) <=> k \in S /\ ~ Second(S, k)
<1>1. ASSUME Second(S, k + 1) PROVE k \in S /\ ~ Second(S, k)
  <2>1. PICK s \in 1 .. k + 1 : s .. k \subseteq S /\ s - 1 \notin S /\ ((k + 1) - s) % 2 = 1
    <3>1. (k + 1) - 1 = k
      OBVIOUS
    <3> QED BY <1>1, <3>1 DEF Second
  <2>2. s \in 1 .. k
    <3>1. s = k + 1 => (k + 1) - s = 0
      OBVIOUS
    <3> QED BY <2>1, <3>1
  <2>3. SUFFICES ASSUME NEW r \in 1 .. k, r .. k - 1 \subseteq S, r - 1 \notin S, (k - r) % 2 = 1 PROVE FALSE
    BY <2>1, <2>2 DEF Second
  <2>4. ~ (s < r)
    <3> SUFFICES ASSUME s < r PROVE FALSE
      OBVIOUS
    <3>1. r - 1 \in s .. k
      BY <2>2, <2>3
    <3> QED BY <2>1, <2>3, <3>1
  <2>5. ~ (r < s)
    <3> SUFFICES ASSUME r < s PROVE FALSE
      OBVIOUS
    <3>1. s - 1 \in r .. k - 1
      BY <2>2, <2>3
    <3> QED BY <2>1, <2>3, <3>1
  <2>6. s = r
    BY <2>2, <2>3, <2>4, <2>5
  <2>7. k - r \in Nat /\ (k + 1) - s = (k - r) + 1
    BY <2>2, <2>6
  <2> QED BY <2>1, <2>3, <2>7, Parity
<1>2. ASSUME k \in S, ~ Second(S, k) PROVE Second(S, k + 1)
  <2>1. PICK s \in 1 .. k : s .. k - 1 \subseteq S /\ s - 1 \notin S
    BY RunStarts
  <2>2. (k - s) % 2 # 1
    BY <1>2, <2>1 DEF Second
  <2>3. k - s \in Nat /\ (k + 1) - s = (k - s) + 1
    BY <2>1
  <2>4. ((k + 1) - s) % 2 = 1
    BY <2>2, <2>3, Parity
  <2>5. s .. (k + 1) - 1 \subseteq S
    BY <1>2, <2>1
  <2>6. s \in 1 .. k + 1
    BY <2>1
  <2> QED BY <2>1, <2>4, <2>5, <2>6 DEF Second
<1> QED BY <1>1, <1>2

(***************************************************************************)
(* A sequence that goes up and has all of a set is the set in order.       *)
(***************************************************************************)
Ascends(q, n, S) ==
  /\ q \in [1 .. n -> S]
  /\ \A x, y \in 1 .. n : x < y => q[x] < q[y]
  /\ \A k \in S : \E x \in 1 .. n : q[x] = k

LEMMA InOrderIs ==
  ASSUME NEW S \in SUBSET Nat, NEW n \in Nat, NEW q, Ascends(q, n, S)
  PROVE  InOrder(S) = q /\ Cardinality(S) = n /\ IsFiniteSet(S)
<1>1. q \in [1 .. n -> S]
  BY DEF Ascends
<1>2. ASSUME NEW x \in 1 .. n, NEW y \in 1 .. n PROVE q[x] <= q[y] <=> x <= y
  <2>1. q[x] \in Nat /\ q[y] \in Nat
    BY <1>1
  <2>2. CASE x < y
    BY <2>1, <2>2 DEF Ascends
  <2>3. CASE y < x
    BY <2>1, <2>3 DEF Ascends
  <2>4. CASE x = y
    BY <2>1, <2>4
  <2> QED BY <2>2, <2>3, <2>4
<1>3. ASSUME NEW j \in 0 .. n
      PROVE  IsFiniteSet({q[x] : x \in 1 .. j}) /\ Cardinality({q[x] : x \in 1 .. j}) = j
  <2> DEFINE T == {q[x] : x \in 1 .. j}
             f == [x \in 1 .. j |-> q[x]]
  <2>1. f \in Bijection(1 .. j, T)
    <3>1. f \in [1 .. j -> T]
      OBVIOUS
    <3>2. ASSUME NEW x \in 1 .. j, NEW y \in 1 .. j, f[x] = f[y] PROVE x = y
      <4>1. x \in 1 .. n /\ y \in 1 .. n
        OBVIOUS
      <4>2. f[x] = q[x] /\ f[y] = q[y]
        OBVIOUS
      <4>3. q[x] = q[y] /\ q[x] \in Nat
        BY <1>1, <3>2, <4>1, <4>2
      <4> HIDE DEF f
      <4> QED BY <1>2, <4>1, <4>3
    <3>3. \A t \in T : \E x \in 1 .. j : f[x] = t
      OBVIOUS
    <3> QED BY <3>1, <3>2, <3>3 DEF Bijection, Injection, Surjection, IsInjective
  <2>2. ExistsBijection(1 .. j, T)
    BY <2>1 DEF ExistsBijection
  <2>3. IsFiniteSet(1 .. j) /\ Cardinality(1 .. j) = j
    BY FS_Interval
  <2> HIDE DEF T, f
  <2>4. IsFiniteSet(T) /\ Cardinality(T) = j
    BY <2>2, <2>3, FS_Bijection
  <2> QED BY <2>4 DEF T
<1>4. S = {q[x] : x \in 1 .. n}
  BY <1>1 DEF Ascends
<1>5. Cardinality(S) = n /\ IsFiniteSet(S)
  BY <1>3, <1>4
<1>6. ASSUME NEW x \in 1 .. n PROVE Cardinality({t \in S : t <= q[x]}) = x
  <2>1. {t \in S : t <= q[x]} = {q[y] : y \in 1 .. x}
    BY <1>2, <1>4
  <2>2. x \in 0 .. n
    OBVIOUS
  <2> QED BY <1>3, <2>1, <2>2
<1>7. ASSUME NEW j \in 1 .. n PROVE (CHOOSE k \in S : Cardinality({t \in S : t <= k}) = j) = q[j]
  <2>1. \A k \in S : Cardinality({t \in S : t <= k}) = j => k = q[j]
    BY <1>4, <1>6
  <2>2. q[j] \in S /\ Cardinality({t \in S : t <= q[j]}) = j
    BY <1>1, <1>6
  <2> QED BY <2>1, <2>2
<1> QED BY <1>1, <1>5, <1>7 DEF InOrder

Enumerated(S) == Ascends(InOrder(S), Cardinality(S), S)

LEMMA OrderEmpty == InOrder({}) = <<>> /\ Cardinality({}) = 0 /\ Enumerated({})
<1>1. Ascends(<<>>, 0, {})
  BY DEF Ascends
<1> QED BY <1>1, InOrderIs DEF Enumerated

LEMMA OrderAdd ==
  ASSUME NEW S \in SUBSET Nat, IsFiniteSet(S), Enumerated(S), NEW m \in Nat, \A t \in S : t < m
  PROVE  /\ Enumerated(S \cup {m}) /\ Cardinality(S \cup {m}) = Cardinality(S) + 1
         /\ IsFiniteSet(S \cup {m})
         /\ InOrder(S \cup {m}) = Append(InOrder(S), m)
<1> DEFINE n == Cardinality(S)
           q == InOrder(S)
           r == Append(q, m)
<1>1. n \in Nat
  BY FS_CardinalityType
<1>2. Ascends(q, n, S)
  BY DEF Enumerated
<1> HIDE DEF n, q
<1>3. q \in [1 .. n -> S] /\ q \in Seq(S) /\ Len(q) = n
  BY <1>1, <1>2 DEF Ascends
<1>4. r \in [1 .. n + 1 -> S \cup {m}] /\ r[n + 1] = m /\ \A x \in 1 .. n : r[x] = q[x]
  <2>1. q \in Seq(S \cup {m}) /\ m \in S \cup {m}
    BY <1>3
  <2>2. r \in Seq(S \cup {m}) /\ Len(r) = n + 1 /\ r[n + 1] = m
    BY <1>1, <1>3, <2>1
  <2>3. ASSUME NEW x \in 1 .. n PROVE r[x] = q[x]
    BY <1>1, <1>3, <2>1
  <2> HIDE DEF r
  <2>4. r \in [1 .. n + 1 -> S \cup {m}]
    BY <1>1, <2>2
  <2> QED BY <2>2, <2>3, <2>4
<1> HIDE DEF r
<1>5. Ascends(r, n + 1, S \cup {m})
  <2>1. ASSUME NEW x \in 1 .. n + 1, NEW y \in 1 .. n + 1, x < y PROVE r[x] < r[y]
    <3>1. CASE y = n + 1
      <4>1. x \in 1 .. n
        BY <1>1, <2>1, <3>1
      <4> QED BY <1>3, <1>4, <3>1, <4>1
    <3>2. CASE y # n + 1
      <4>1. x \in 1 .. n /\ y \in 1 .. n
        BY <1>1, <2>1, <3>2
      <4> QED BY <1>2, <1>4, <2>1, <4>1 DEF Ascends
    <3> QED BY <3>1, <3>2
  <2>2. ASSUME NEW k \in S \cup {m} PROVE \E x \in 1 .. n + 1 : r[x] = k
    <3>1. CASE k = m
      BY <1>1, <1>4, <3>1
    <3>2. CASE k \in S
      <4>1. PICK x \in 1 .. n : q[x] = k
        BY <1>2, <3>2 DEF Ascends
      <4> QED BY <1>1, <1>4, <4>1
    <3> QED BY <3>1, <3>2
  <2> QED BY <1>4, <2>1, <2>2 DEF Ascends
<1>6. InOrder(S \cup {m}) = r /\ Cardinality(S \cup {m}) = n + 1 /\ IsFiniteSet(S \cup {m})
  <2>1. S \cup {m} \in SUBSET Nat /\ n + 1 \in Nat
    BY <1>1
  <2> QED BY <1>5, <2>1, InOrderIs
<1> QED BY <1>5, <1>6 DEF Enumerated, n, q, r

LEMMA MaxIs ==
  ASSUME NEW S \in SUBSET Int, NEW m \in S, \A y \in S : y <= m
  PROVE  Max(S) = m
<1>1. \A x \in S : (\A y \in S : x >= y) => x = m
  BY DEF Max
<1>2. m \in S /\ \A y \in S : m >= y
  OBVIOUS
<1> QED BY <1>1, <1>2 DEF Max

LEMMA MaxExists ==
  ASSUME NEW n \in Nat, NEW S \in SUBSET (1 .. n), S # {}
  PROVE  Max(S) \in S /\ \A y \in S : y <= Max(S)
<1> DEFINE T == {n - x : x \in S}
<1>1. T \in SUBSET Nat /\ T # {}
  OBVIOUS
<1>2. PICK d \in T : \A y \in T : ~ (y < d)
  <2> HIDE DEF T
  <2> QED BY <1>1, NatMin
<1>3. PICK m \in S : d = n - m
  BY <1>2
<1>4. \A y \in S : y <= m
  <2> SUFFICES ASSUME NEW y \in S, m < y PROVE FALSE
    BY <1>3
  <2>1. n - y \in T /\ n - y < d /\ m \in Nat /\ y \in Nat
    BY <1>3
  <2> QED BY <1>2, <2>1
<1>5. S \in SUBSET Int
  OBVIOUS
<1> QED BY <1>4, <1>5, MaxIs

-----------------------------------------------------------------------------
(***************************************************************************)
(* The command line.  The loop is at a place that is read; what is in      *)
(* front of it is without fault and stands in the lists, in its order.     *)
(***************************************************************************)
WordsBefore(k) == {t \in Read : t < k /\ args[t].kind = "word"}
OptionsBefore(k) == {t \in Read : t < k /\ IsOption(args[t])}

\* g of the members of S, in their order
Mapped(g, S) == [j \in 1 .. Cardinality(S) |-> g[InOrder(S)[j]]]
Sorted(S) == IsFiniteSet(S) /\ Enumerated(S)

ObjAt(k) == Obj("arg", args[k].name, k)
ParamAt(k) == <<Letter(args[k]), IF Wants(args[k]) THEN args[k + 1] ELSE None>>
Objs == [k \in Positions |-> ObjAt(k)]
Pars == [k \in Positions |-> ParamAt(k)]

ReadTo(k, fs, ps, ls) ==
  /\ k \in 1 .. argc /\ ~ Second(WantsValue, k)
  /\ \A t \in Faulty : t >= k
  /\ Sorted(WordsBefore(k)) /\ Sorted(OptionsBefore(k))
  /\ fs = Mapped(Objs, WordsBefore(k)) /\ ps = Mapped(Pars, OptionsBefore(k))
  /\ ls \in Seq(LongOptions)

LEMMA MappedAdd ==
  ASSUME NEW S \in SUBSET Nat, Sorted(S), NEW m \in Nat, \A t \in S : t < m, NEW g
  PROVE  Sorted(S \cup {m}) /\ Mapped(g, S \cup {m}) = Append(Mapped(g, S), g[m])
<1> DEFINE n == Cardinality(S)
           q == InOrder(S)
           f == Mapped(g, S)
           V == {g[x] : x \in S \cup {m}}
<1>1. n \in Nat /\ q \in [1 .. n -> S] /\ q \in Seq(S) /\ Len(q) = n
  <2>1. n \in Nat
    BY FS_CardinalityType DEF Sorted
  <2>2. q \in [1 .. n -> S]
    BY DEF Sorted, Enumerated, Ascends
  <2> HIDE DEF n, q
  <2> QED BY <2>1, <2>2
<1>2. /\ Sorted(S \cup {m}) /\ Cardinality(S \cup {m}) = n + 1
      /\ InOrder(S \cup {m}) = Append(q, m)
  BY OrderAdd DEF Sorted
<1>3. f = [j \in 1 .. n |-> g[q[j]]]
  BY DEF Mapped
<1>4. Mapped(g, S \cup {m}) = [j \in 1 .. n + 1 |-> g[Append(q, m)[j]]]
  BY <1>2 DEF Mapped
<1> HIDE DEF n, q, f
<1>5. f \in Seq(V) /\ Len(f) = n /\ g[m] \in V
  <2>1. ASSUME NEW j \in 1 .. n PROVE g[q[j]] \in V
    <3>1. q[j] \in S
      BY <1>1
    <3> QED BY <3>1
  <2>2. g[m] \in V
    OBVIOUS
  <2> HIDE DEF V
  <2>3. f \in [1 .. n -> V]
    BY <1>3, <2>1
  <2> QED BY <1>1, <2>2, <2>3
<1> DEFINE h == Append(f, g[m])
           r == Append(q, m)
<1>6. h \in Seq(V) /\ Len(h) = n + 1 /\ h[n + 1] = g[m] /\ \A j \in 1 .. n : h[j] = f[j]
  <2> HIDE DEF V
  <2> QED BY <1>1, <1>5
<1>7. r[n + 1] = m /\ \A j \in 1 .. n : r[j] = q[j]
  <2>1. q \in Seq(S \cup {m})
    BY <1>1
  <2> QED BY <1>1, <2>1
<1> HIDE DEF V, h, r
<1>8. h = [j \in 1 .. n + 1 |-> g[r[j]]]
  <2>1. h = [j \in 1 .. n + 1 |-> h[j]]
    BY <1>1, <1>6
  <2>2. ASSUME NEW j \in 1 .. n + 1 PROVE h[j] = g[r[j]]
    <3>1. CASE j = n + 1
      BY <1>6, <1>7, <3>1
    <3>2. CASE j # n + 1
      <4>1. j \in 1 .. n
        BY <1>1, <3>2
      <4> QED BY <1>3, <1>6, <1>7, <4>1
    <3> QED BY <3>1, <3>2
  <2> QED BY <2>1, <2>2
<1> QED BY <1>2, <1>4, <1>8 DEF f, h, r

LEMMA Arguments ==
  ASSUME input \in Input
  PROVE  /\ Len(args) \in Nat /\ Positions = 1 .. Len(args) /\ argc = Len(args) + 1
         /\ \A k \in Positions : args[k] \in Arg
         /\ WantsValue \in SUBSET (Nat \ {0}) /\ WantsValue \subseteq Positions
         /\ None \notin Arg
<1>1. args \in Seq(Arg)
  BY DEF Input, args
<1>2. Len(args) \in Nat /\ Positions = 1 .. Len(args) /\ \A k \in Positions : args[k] \in Arg
  BY <1>1 DEF Positions
<1>3. None \notin Arg
  BY DEF None, Arg
<1> QED BY <1>2, <1>3 DEF argc, args, WantsValue

\* What lies behind an argument that is no value, and behind the value of one
LEMMA ReadNext ==
  ASSUME input \in Input, NEW k \in Positions, ~ Second(WantsValue, k)
  PROVE  /\ k \in Read
         /\ k \notin WantsValue => ~ Second(WantsValue, k + 1)
         /\ k \in WantsValue /\ k + 1 \in Positions => k + 1 \notin Read /\ ~ Second(WantsValue, k + 2)
<1>1. k \in Nat \ {0} /\ k + 1 \in Nat \ {0} /\ (k + 1) + 1 = k + 2
  BY Arguments
<1>2. Second(WantsValue, k + 1) <=> k \in WantsValue
  BY <1>1, Arguments, SecondStep
<1>3. Second(WantsValue, k + 2) => ~ Second(WantsValue, k + 1)
  <2> DEFINE m == k + 1
  <2>1. m \in Nat \ {0} /\ m + 1 = k + 2
    BY <1>1
  <2> HIDE DEF m
  <2>2. Second(WantsValue, m + 1) => ~ Second(WantsValue, m)
    BY <2>1, Arguments, SecondStep
  <2> QED BY <2>1, <2>2 DEF m
<1> QED BY <1>2, <1>3 DEF Read


LEMMA BehindNext ==
  ASSUME input \in Input, NEW k \in Read, NEW e \in {k + 1, k + 2}, e = k + 2 => k + 1 \notin Read
  PROVE  /\ WordsBefore(e) = IF args[k].kind = "word" THEN WordsBefore(k) \cup {k} ELSE WordsBefore(k)
         /\ OptionsBefore(e) = IF IsOption(args[k]) THEN OptionsBefore(k) \cup {k} ELSE OptionsBefore(k)
         /\ \A t \in Read : t < e <=> t < k \/ t = k
<1>1. Read \subseteq Nat /\ k \in Nat
  BY Arguments DEF Read
<1>2. \A t \in Read : t < e <=> t < k \/ t = k
  <2>1. ASSUME NEW t \in Read, t < e, ~ (t < k), t # k PROVE FALSE
    <3>1. t = k + 1 /\ e = k + 2
      BY <1>1, <2>1
    <3> QED BY <3>1
  <2> QED BY <1>1, <2>1
<1> QED BY <1>2 DEF WordsBefore, OptionsBefore

\* What is said of the command line stays said while the command line is the same.
LEMMA SameArguments ==
  ASSUME input' = input
  PROVE  /\ args' = args /\ argc' = argc /\ Positions' = Positions /\ WantsValue' = WantsValue /\ Read' = Read
         /\ Faulty' = Faulty /\ Objs' = Objs /\ Pars' = Pars
         /\ \A k : WordsBefore(k)' = WordsBefore(k) /\ OptionsBefore(k)' = OptionsBefore(k)
         /\ \A k, fs, ps, ls : ReadTo(k, fs, ps, ls)' <=> ReadTo(k, fs, ps, ls)
<1>1. args' = args /\ argc' = argc
  BY DEF args, argc
<1>2. Positions' = Positions
  BY <1>1 DEF Positions
<1>3. WantsValue' = WantsValue
  BY <1>1, <1>2 DEF WantsValue
<1>4. Read' = Read
  BY <1>2, <1>3 DEF Read
<1>5. Faulty' = Faulty
  BY <1>1, <1>3, <1>4 DEF Faulty, TooShort, AtEnd, Unknown, Exists
<1>6. Objs' = Objs /\ Pars' = Pars
  BY <1>1, <1>2 DEF Objs, Pars, ObjAt, ParamAt
<1>7. \A k : WordsBefore(k)' = WordsBefore(k) /\ OptionsBefore(k)' = OptionsBefore(k)
  BY <1>1, <1>4 DEF WordsBefore, OptionsBefore
<1> QED BY <1>1, <1>2, <1>3, <1>4, <1>5, <1>6, <1>7 DEF ReadTo

LEMMA ReadAhead ==
  ASSUME input \in Input, NEW k \in Positions, NEW fs, NEW ps, NEW ls, ReadTo(k, fs, ps, ls),
         k \notin Faulty, NEW e, e = IF k \in WantsValue THEN k + 2 ELSE k + 1, e <= argc
  PROVE  ReadTo(e, IF args[k].kind = "word" THEN Append(fs, ObjAt(k)) ELSE fs,
                   IF IsOption(args[k]) THEN Append(ps, ParamAt(k)) ELSE ps, ls)
<1>1. /\ k \in Nat \ {0} /\ Positions = 1 .. Len(args) /\ argc = Len(args) + 1 /\ Len(args) \in Nat
      /\ Read \subseteq Positions
  BY Arguments DEF Read
<1>2. k \in Read /\ (e = k + 2 => k + 1 \notin Read) /\ e \in {k + 1, k + 2} /\ e \in 1 .. argc
  <2>1. ~ Second(WantsValue, k)
    BY DEF ReadTo
  <2> QED BY <1>1, <2>1, ReadNext
<1>3. ~ Second(WantsValue, e)
  <2>1. ~ Second(WantsValue, k)
    BY DEF ReadTo
  <2>2. CASE k \notin WantsValue
    BY <2>1, <2>2, ReadNext
  <2>3. CASE k \in WantsValue
    <3>1. k + 1 \in Positions
      BY <1>1, <1>2, <2>3
    <3> QED BY <2>1, <2>3, <3>1, ReadNext
  <2> QED BY <2>2, <2>3
<1>4. /\ WordsBefore(e) = IF args[k].kind = "word" THEN WordsBefore(k) \cup {k} ELSE WordsBefore(k)
      /\ OptionsBefore(e) = IF IsOption(args[k]) THEN OptionsBefore(k) \cup {k} ELSE OptionsBefore(k)
      /\ \A t \in Read : t < e <=> t < k \/ t = k
  BY <1>2, BehindNext
<1>5. \A t \in Faulty : t >= e
  <2> SUFFICES ASSUME NEW t \in Faulty PROVE t >= e
    OBVIOUS
  <2>1. t \in Read /\ t \in Nat /\ t >= k /\ t # k
    BY <1>1 DEF Faulty, ReadTo
  <2> QED BY <1>1, <1>2, <1>4, <2>1
<1>6. WordsBefore(k) \in SUBSET Nat /\ OptionsBefore(k) \in SUBSET Nat
  <2>1. Read \subseteq Nat
    BY <1>1
  <2>2. WordsBefore(k) \subseteq Read /\ OptionsBefore(k) \subseteq Read
    BY DEF WordsBefore, OptionsBefore
  <2> QED BY <2>1, <2>2
<1>7. (\A t \in WordsBefore(k) : t < k) /\ (\A t \in OptionsBefore(k) : t < k)
  BY DEF WordsBefore, OptionsBefore
<1>8. k \in Nat /\ Sorted(WordsBefore(k)) /\ Sorted(OptionsBefore(k))
  BY <1>1 DEF ReadTo
<1>9. /\ Sorted(WordsBefore(e))
      /\ Mapped(Objs, WordsBefore(e)) = IF args[k].kind = "word" THEN Append(fs, ObjAt(k)) ELSE fs
  <2>1. Objs[k] = ObjAt(k) /\ fs = Mapped(Objs, WordsBefore(k))
    BY DEF Objs, ReadTo
  <2> DEFINE S == WordsBefore(k)
  <2>2. S \in SUBSET Nat /\ Sorted(S) /\ k \in Nat /\ \A t \in S : t < k
    BY <1>6, <1>7, <1>8
  <2>3. Sorted(S \cup {k}) /\ Mapped(Objs, S \cup {k}) = Append(Mapped(Objs, S), Objs[k])
    <3> HIDE DEF S
    <3> QED BY <2>2, MappedAdd
  <2>4. CASE args[k].kind = "word"
    BY <1>4, <2>1, <2>3, <2>4
  <2>5. CASE ~ (args[k].kind = "word")
    BY <1>4, <2>1, <2>2, <2>5
  <2> QED BY <2>4, <2>5
<1>10. /\ Sorted(OptionsBefore(e))
       /\ Mapped(Pars, OptionsBefore(e)) = IF IsOption(args[k]) THEN Append(ps, ParamAt(k)) ELSE ps
  <2>1. Pars[k] = ParamAt(k) /\ ps = Mapped(Pars, OptionsBefore(k))
    BY DEF Pars, ReadTo
  <2> DEFINE S == OptionsBefore(k)
  <2>2. S \in SUBSET Nat /\ Sorted(S) /\ k \in Nat /\ \A t \in S : t < k
    BY <1>6, <1>7, <1>8
  <2>3. Sorted(S \cup {k}) /\ Mapped(Pars, S \cup {k}) = Append(Mapped(Pars, S), Pars[k])
    <3> HIDE DEF S
    <3> QED BY <2>2, MappedAdd
  <2>4. CASE IsOption(args[k])
    BY <1>4, <2>1, <2>3, <2>4
  <2>5. CASE ~ (IsOption(args[k]))
    BY <1>4, <2>1, <2>2, <2>5
  <2> QED BY <2>4, <2>5
<1>11. ls \in Seq(LongOptions)
  BY DEF ReadTo
<1> QED BY <1>2, <1>3, <1>5, <1>9, <1>10, <1>11 DEF ReadTo

\* What stops the loop is a fault of the place it is at.
LEMMA Stopped ==
  ASSUME input \in Input, ReadTo(i, files, params, longs),
         OptionRefused \/ OptionCrashes \/ UnknownOption \/ UnknownFile
  PROVE  i \in Faulty
<1>1. i \in Positions /\ arg = args[i] /\ i \in Read /\ i < argc
  <2>1. InArgs /\ i \in 1 .. argc /\ ~ Second(WantsValue, i)
    BY DEF OptionRefused, OptionCrashes, UnknownOption, UnknownFile, ReadTo
  <2>2. i \in Positions
    BY <2>1, Arguments DEF InArgs
  <2> QED BY <2>1, <2>2, Arguments DEF InArgs, arg, args, Read
<1>2. ASSUME TakesNull PROVE AtEnd(i)
  <2>1. IsOption(arg) /\ NextArg = None
    BY <1>2 DEF TakesNull
  <2>2. i = Len(args)
    <3> SUFFICES ASSUME i # Len(args) PROVE FALSE
      OBVIOUS
    <3>1. i + 1 \in Positions /\ i + 1 < argc
      BY <1>1, Arguments
    <3> QED BY <2>1, <3>1, Arguments DEF NextArg, args
  <2>3. i \in WantsValue
    <3>1. arg = [kind |-> "short", name |-> "I"] => Wants(arg)
      BY DEF Wants, Letter, TakesValue
    <3> QED BY <1>1, <1>2, <2>1, <3>1 DEF TakesNull, WantsValue
  <2>4. CASE Wants(arg) /\ Reaches(arg)
    <3>1. ~ TooShort(i)
      <4>1. Code[Letter(arg)] + 1 >= argc /\ argc \in Nat /\ Code[Letter(arg)] \in Nat
        <5>1. Letter(arg) \in Letters
          BY <2>4 DEF Wants, TakesValue, Letters
        <5> QED BY <2>4, <5>1, Arguments, CodeAssumption DEF Reaches
      <4> QED BY <1>1, <4>1 DEF TooShort
    <3> QED BY <2>2, <2>3, <3>1 DEF AtEnd
  <2>5. CASE arg = [kind |-> "short", name |-> "I"]
    BY <1>1, <2>2, <2>3, <2>5 DEF AtEnd
  <2> QED BY <1>2, <2>4, <2>5 DEF TakesNull
<1>3. CASE OptionRefused
  <2>1. IsOption(arg) /\ Wants(arg) /\ ~ (Code[Letter(arg)] + 1 >= argc)
    BY <1>3 DEF OptionRefused, Reaches
  <2>2. Letter(arg) \in Letters
    BY <2>1 DEF Wants, TakesValue, Letters
  <2>3. Code[Letter(arg)] \in Nat /\ argc \in Nat
    BY <2>2, CodeAssumption, Arguments
  <2>4. TooShort(i)
    BY <1>1, <2>1, <2>3 DEF TooShort, WantsValue
  <2> QED BY <1>1, <2>4 DEF Faulty
<1>4. CASE OptionCrashes
  BY <1>1, <1>2, <1>4 DEF OptionCrashes, Faulty
<1>5. CASE UnknownOption
  BY <1>1, <1>5 DEF UnknownOption, Faulty, Unknown
<1>6. CASE UnknownFile
  BY <1>1, <1>6 DEF UnknownFile, Faulty, Unknown
<1> QED BY <1>3, <1>4, <1>5, <1>6

LEMMA Advances ==
  ASSUME input \in Input, ReadTo(i, files, params, longs), i \in Int, ReadOption \/ ReadFlag \/ ReadFile
  PROVE  /\ i \in Positions /\ arg = args[i] /\ i \notin Faulty
         /\ i' = (IF i \in WantsValue THEN i + 2 ELSE i + 1) /\ i' <= argc
<1>1. i \in Positions /\ arg = args[i] /\ i \in Read /\ i < argc
  <2>1. InArgs /\ i \in 1 .. argc /\ ~ Second(WantsValue, i)
    BY DEF ReadOption, ReadFlag, ReadFile, ReadTo
  <2>2. i \in Positions
    BY <2>1, Arguments DEF InArgs
  <2> QED BY <2>1, <2>2, Arguments DEF InArgs, arg, args, Read
<1>2. arg \in Arg /\ argc = Len(args) + 1 /\ Len(args) \in Nat /\ Positions = 1 .. Len(args)
  BY <1>1, Arguments
<1>3. CASE ReadOption
  <2>1. IsOption(arg) /\ ~ TakesNull /\ (Wants(arg) => Reaches(arg))
    BY <1>3 DEF ReadOption
  <2>2. i \in WantsValue <=> Wants(arg)
    BY <1>1, <2>1 DEF WantsValue
  <2>3. i = Len(args) => NextArg = None
    BY <1>2 DEF NextArg
  <2>4. ~ TooShort(i)
    <3> SUFFICES ASSUME TooShort(i) PROVE FALSE
      OBVIOUS
    <3>1. Wants(arg) /\ Code[Letter(arg)] + 1 < argc
      BY <1>1, <2>2 DEF TooShort
    <3>2. Letter(arg) \in Letters
      BY <3>1 DEF Wants, TakesValue, Letters
    <3>3. Code[Letter(arg)] \in Nat
      BY <3>2, CodeAssumption
    <3> QED BY <1>2, <2>1, <3>1, <3>3 DEF Reaches
  <2>5. i # Len(args) \/ ~ Wants(arg)
    BY <2>1, <2>3 DEF TakesNull
  <2>6. ~ AtEnd(i)
    BY <2>2, <2>5 DEF AtEnd
  <2>7. arg.kind \in {"short", "joined", "long"}
    BY <2>1 DEF IsOption
  <2>8. i \notin Faulty
    BY <1>1, <2>1, <2>4, <2>6, <2>7 DEF Faulty, Unknown
  <2>9. i' = IF Wants(arg) THEN i + 2 ELSE i + 1
    BY <1>3 DEF ReadOption
  <2> QED BY <1>1, <1>2, <2>2, <2>5, <2>8, <2>9
<1>4. CASE ReadFlag
  <2>1. arg.kind = "long" /\ arg.name \in LongOptions /\ i' = i + 1
    BY <1>4 DEF ReadFlag, IsFlag
  <2>2. ~ IsOption(arg)
    BY <2>1 DEF IsOption, LongOptions, LongToShort
  <2> QED BY <1>1, <1>2, <2>1, <2>2 DEF Faulty, TooShort, AtEnd, Unknown, WantsValue, IsFlag
<1>5. CASE ReadFile
  <2>1. arg.kind = "word" /\ Exists(arg.name) /\ i' = i + 1
    BY <1>5 DEF ReadFile
  <2>2. ~ IsOption(arg)
    BY <2>1 DEF IsOption
  <2> QED BY <1>1, <1>2, <2>1, <2>2 DEF Faulty, TooShort, AtEnd, Unknown, WantsValue
<1> QED BY <1>3, <1>4, <1>5

-----------------------------------------------------------------------------
(***************************************************************************)
(* The range-for over cmp.files.  It walks the list F of N files, of which *)
(* those at P are plain.  Before it reaches the end of what is left, the   *)
(* next one is the file as many places further as were erased, and those   *)
(* it has behind it are kept or taken by the count of plain ones before    *)
(* them.  Behind the end it only meets the last file again.                *)
(***************************************************************************)
Kept(P, k) == k \in P => Second(P, k)
Stays(P, N, k) == k \in P => Second(P, k) /\ k < N

FilesAt(F, K) == {F[k] : k \in K}
Among(st, sz, F, N) ==
  /\ sz \in 0 .. N /\ st \in [1 .. N -> FilesAt(F, 1 .. N)]
  /\ \A a, b \in 1 .. sz : st[a] = st[b] => a = b

KeptTo(N, P, h) == {k \in 1 .. N : k < h /\ Kept(P, k)}
TakenTo(N, P, h) == {k \in 1 .. N : k < h /\ ~ Kept(P, k)}

Walks(F, N, P, st, sz, E, at) ==
  /\ Among(st, sz, F, N) /\ at \in 1 .. sz + 1
  /\ \A j \in at .. sz : st[j] = F[j + (N - sz)]
  /\ \A j \in sz + 1 .. N : st[j] = F[N]
  /\ FilesAt(st, 1 .. at - 1) = FilesAt(F, KeptTo(N, P, at + (N - sz)))
  /\ E = FilesAt(F, TakenTo(N, P, at + (N - sz)))
  /\ at <= sz => ~ Second(P, at + (N - sz))
  /\ sz = N => E = {}

StayIn(N, P) == {k \in 1 .. N : Stays(P, N, k)}
GoFrom(N, P) == {k \in 1 .. N : ~ Stays(P, N, k)}

Ends(F, N, P, st, sz, E, at) ==
  /\ Among(st, sz, F, N) /\ at \in 1 .. N + 1 /\ at > sz
  /\ \A j \in at .. N : st[j] = F[N]
  /\ FilesAt(st, 1 .. sz) = FilesAt(F, StayIn(N, P))
  /\ E = FilesAt(F, GoFrom(N, P))

Without(st, sz, k) == [j \in DOMAIN st |-> IF j >= k /\ j < sz THEN st[j + 1] ELSE st[j]]

MovesUp(w, st, sz, N, k) ==
  /\ \A j \in 1 .. k - 1 : w[j] = st[j]
  /\ \A j \in k .. sz - 1 : w[j] = st[j + 1]
  /\ \A j \in sz .. N : w[j] = st[j]

LEMMA WithoutIs ==
  ASSUME NEW F, NEW N \in Nat, NEW st, NEW sz, Among(st, sz, F, N), NEW k \in 1 .. sz
  PROVE  /\ Among(Without(st, sz, k), sz - 1, F, N)
         /\ MovesUp(Without(st, sz, k), st, sz, N, k)
         /\ FilesAt(Without(st, sz, k), 1 .. sz - 1) = FilesAt(st, 1 .. sz) \ {st[k]}
<1> DEFINE w == Without(st, sz, k)
<1>1. sz \in Nat /\ sz <= N /\ DOMAIN st = 1 .. N
  BY DEF Among
<1>2. w = [j \in 1 .. N |-> IF j >= k /\ j < sz THEN st[j + 1] ELSE st[j]]
  BY <1>1 DEF Without
<1> HIDE DEF w
<1>3. /\ \A j \in 1 .. k - 1 : w[j] = st[j]
      /\ \A j \in k .. sz - 1 : w[j] = st[j + 1]
      /\ \A j \in sz .. N : w[j] = st[j]
  BY <1>1, <1>2
<1>4. w \in [1 .. N -> FilesAt(F, 1 .. N)]
  <2> DEFINE V == FilesAt(F, 1 .. N)
  <2>1. st \in [1 .. N -> V]
    BY DEF Among
  <2> HIDE DEF V
  <2>2. ASSUME NEW j \in 1 .. N PROVE (IF j >= k /\ j < sz THEN st[j + 1] ELSE st[j]) \in V
    BY <1>1, <2>1
  <2> QED BY <1>2, <2>2 DEF V
<1>5. \A a, b \in 1 .. sz : st[a] = st[b] => a = b
  BY DEF Among
<1>6. ASSUME NEW a \in 1 .. sz - 1, NEW b \in 1 .. sz - 1, w[a] = w[b] PROVE a = b
  <2>1. w[a] = IF a >= k THEN st[a + 1] ELSE st[a]
    BY <1>1, <1>3
  <2>2. w[b] = IF b >= k THEN st[b + 1] ELSE st[b]
    BY <1>1, <1>3
  <2>3. a \in 1 .. sz /\ b \in 1 .. sz /\ a + 1 \in 1 .. sz /\ b + 1 \in 1 .. sz
    BY <1>1
  <2>4. CASE a >= k /\ b >= k
    <3>1. st[a + 1] = st[b + 1]
      BY <1>6, <2>1, <2>2, <2>4
    <3>2. a + 1 = b + 1
      BY <1>5, <2>3, <3>1
    <3> QED BY <3>2
  <2>5. CASE a >= k /\ ~ (b >= k)
    <3>1. st[a + 1] = st[b]
      BY <1>6, <2>1, <2>2, <2>5
    <3>2. a + 1 = b
      BY <1>5, <2>3, <3>1
    <3> QED BY <2>5, <3>2
  <2>6. CASE ~ (a >= k) /\ b >= k
    <3>1. st[a] = st[b + 1]
      BY <1>6, <2>1, <2>2, <2>6
    <3>2. a = b + 1
      BY <1>5, <2>3, <3>1
    <3> QED BY <2>6, <3>2
  <2>7. CASE ~ (a >= k) /\ ~ (b >= k)
    BY <1>5, <1>6, <2>1, <2>2, <2>3, <2>7
  <2> QED BY <2>4, <2>5, <2>6, <2>7
<1>7. FilesAt(w, 1 .. sz - 1) = FilesAt(st, 1 .. sz) \ {st[k]}
  <2>1. ASSUME NEW j \in 1 .. sz - 1 PROVE \E a \in 1 .. sz : w[j] = st[a] /\ a # k
    <3>1. CASE j >= k
      <4>1. j + 1 \in 1 .. sz /\ j + 1 # k /\ w[j] = st[j + 1]
        BY <1>1, <1>3, <3>1
      <4> QED BY <4>1
    <3>2. CASE j < k
      <4>1. j \in 1 .. sz /\ j # k /\ w[j] = st[j]
        BY <1>1, <1>3, <3>2
      <4> QED BY <4>1
    <3> QED BY <1>1, <3>1, <3>2
  <2>2. ASSUME NEW a \in 1 .. sz, a # k PROVE \E j \in 1 .. sz - 1 : w[j] = st[a]
    <3>1. CASE a < k
      <4>1. a \in 1 .. sz - 1 /\ w[a] = st[a]
        BY <1>1, <1>3, <3>1
      <4> QED BY <4>1
    <3>2. CASE a > k
      <4>1. a - 1 \in k .. sz - 1 /\ a - 1 \in 1 .. sz - 1 /\ (a - 1) + 1 = a
        BY <1>1, <3>2
      <4>2. w[a - 1] = st[a]
        BY <1>3, <4>1
      <4> QED BY <4>1, <4>2
    <3> QED BY <1>1, <2>2, <3>1, <3>2
  <2> QED BY <1>5, <2>1, <2>2 DEF FilesAt
<1>8. sz - 1 \in 0 .. N
  BY <1>1
<1> QED BY <1>3, <1>4, <1>6, <1>7, <1>8 DEF Among, MovesUp, w

Differ(F, N) == \A a, b \in 1 .. N : F[a] = F[b] => a = b

\* The file at h is erased; the one behind it moves to its place and is passed over.
LEMMA TakeNext ==
  ASSUME NEW F, NEW N \in Nat, NEW P \in SUBSET (1 .. N), NEW st, NEW sz, NEW E, NEW at,
         Walks(F, N, P, st, sz, E, at), at < sz, at + (N - sz) \in P
  PROVE  Walks(F, N, P, Without(st, sz, at), sz - 1, E \cup {F[at + (N - sz)]}, at + 1)
<1> DEFINE h == at + (N - sz)
           w == Without(st, sz, at)
<1>1. /\ sz \in Nat /\ sz <= N /\ at \in 1 .. sz /\ h \in 1 .. N /\ h + 1 \in 1 .. N /\ h \in Nat \ {0}
      /\ (at + 1) + (N - (sz - 1)) = h + 2 /\ at + 1 \in 1 .. (sz - 1) + 1
      /\ h + 1 \in Nat \ {0} /\ (h + 1) + 1 = h + 2
  BY DEF Walks, Among
<1>2. /\ Among(w, sz - 1, F, N)
      /\ \A j \in 1 .. at - 1 : w[j] = st[j]
      /\ \A j \in at .. sz - 1 : w[j] = st[j + 1]
      /\ \A j \in sz .. N : w[j] = st[j]
  <2>1. Among(st, sz, F, N) /\ at \in 1 .. sz /\ N \in Nat
    BY <1>1 DEF Walks
  <2> HIDE DEF h, w
  <2>2. Among(Without(st, sz, at), sz - 1, F, N) /\ MovesUp(Without(st, sz, at), st, sz, N, at)
    BY <2>1, WithoutIs
  <2> QED BY <2>2 DEF MovesUp, w
<1>3. ~ Second(P, h) /\ h \in P /\ Second(P, h + 1) /\ ~ Second(P, h + 2)
  <2>1. ~ Second(P, h)
    BY <1>1 DEF Walks
  <2>2. P \in SUBSET (Nat \ {0})
    OBVIOUS
  <2> HIDE DEF h
  <2>3. Second(P, h + 1)
    BY <1>1, <2>1, <2>2, SecondStep DEF h
  <2> DEFINE m == h + 1
  <2>4. m \in Nat \ {0} /\ Second(P, m)
    BY <1>1, <2>3
  <2> HIDE DEF m
  <2>5. ~ Second(P, m + 1)
    BY <2>2, <2>4, SecondStep
  <2>6. m + 1 = h + 2
    BY <1>1 DEF m
  <2> QED BY <2>1, <2>3, <2>5, <2>6 DEF h
<1> HIDE DEF w
<1>4. ASSUME NEW j \in at + 1 .. sz - 1 PROVE w[j] = F[j + (N - (sz - 1))]
  <2>1. j \in at .. sz - 1 /\ j + 1 \in at .. sz /\ (j + 1) + (N - sz) = j + (N - (sz - 1))
    BY <1>1
  <2> QED BY <1>2, <2>1 DEF Walks
<1>5. ASSUME NEW j \in (sz - 1) + 1 .. N PROVE w[j] = F[N]
  <2>1. w[j] = st[j]
    BY <1>1, <1>2
  <2>2. CASE j = sz
    <3>1. j \in at .. sz /\ j + (N - sz) = N
      BY <1>1, <2>2
    <3> QED BY <2>1, <3>1 DEF Walks
  <2>3. CASE j # sz
    <3>1. j \in sz + 1 .. N
      BY <1>1, <2>3
    <3> QED BY <2>1, <3>1 DEF Walks
  <2> QED BY <2>2, <2>3
<1>6. w[at] = F[h + 1]
  <2>1. at \in at .. sz - 1 /\ at + 1 \in at .. sz /\ (at + 1) + (N - sz) = h + 1
    BY <1>1
  <2>2. w[at] = st[at + 1]
    BY <1>2, <2>1
  <2>3. st[at + 1] = F[(at + 1) + (N - sz)]
    BY <2>1 DEF Walks
  <2> QED BY <2>1, <2>2, <2>3
<1>7. FilesAt(st, 1 .. at - 1) = FilesAt(F, KeptTo(N, P, h)) /\ E = FilesAt(F, TakenTo(N, P, h))
  BY DEF Walks
<1> HIDE DEF h
<1>8. KeptTo(N, P, h + 2) = KeptTo(N, P, h) \cup {h + 1}
  BY <1>1, <1>3 DEF KeptTo, Kept
<1>9. TakenTo(N, P, h + 2) = TakenTo(N, P, h) \cup {h}
  BY <1>1, <1>3 DEF TakenTo, Kept
<1>10. FilesAt(w, 1 .. (at + 1) - 1) = FilesAt(F, KeptTo(N, P, h + 2))
  <2>1. 1 .. (at + 1) - 1 = (1 .. at - 1) \cup {at}
    BY <1>1
  <2>2. FilesAt(w, (1 .. at - 1) \cup {at}) = FilesAt(st, 1 .. at - 1) \cup {w[at]}
    BY <1>2 DEF FilesAt
  <2>3. FilesAt(F, KeptTo(N, P, h) \cup {h + 1}) = FilesAt(F, KeptTo(N, P, h)) \cup {F[h + 1]}
    BY DEF FilesAt
  <2> QED BY <1>6, <1>7, <1>8, <2>1, <2>2, <2>3
<1>11. E \cup {F[h]} = FilesAt(F, TakenTo(N, P, h + 2))
  <2>1. FilesAt(F, TakenTo(N, P, h) \cup {h}) = FilesAt(F, TakenTo(N, P, h)) \cup {F[h]}
    BY DEF FilesAt
  <2> QED BY <1>7, <1>9, <2>1
<1>12. sz - 1 # N
  BY <1>1
<1> QED BY <1>1, <1>2, <1>3, <1>4, <1>5, <1>10, <1>11, <1>12 DEF Walks, h, w

\* The last file is the one erased.
LEMMA TakeLast ==
  ASSUME NEW F, NEW N \in Nat, NEW P \in SUBSET (1 .. N), NEW st, NEW sz, NEW E,
         Walks(F, N, P, st, sz, E, sz), sz >= 1, N \in P
  PROVE  Ends(F, N, P, Without(st, sz, sz), sz - 1, E \cup {F[N]}, sz + 1)
<1> DEFINE w == Without(st, sz, sz)
<1>1. sz \in Nat /\ sz <= N /\ sz \in 1 .. sz /\ sz + (N - sz) = N /\ sz + 1 \in 1 .. N + 1 /\ sz + 1 > sz - 1
      /\ Among(st, sz, F, N)
  BY DEF Walks, Among
<1>2. /\ Among(w, sz - 1, F, N) /\ MovesUp(w, st, sz, N, sz)
  <2> HIDE DEF w
  <2>1. Among(Without(st, sz, sz), sz - 1, F, N) /\ MovesUp(Without(st, sz, sz), st, sz, N, sz)
    BY <1>1, WithoutIs
  <2> QED BY <2>1 DEF w
<1> HIDE DEF w
<1>3. ~ Second(P, N)
  BY <1>1 DEF Walks
<1>4. ASSUME NEW j \in sz + 1 .. N PROVE w[j] = F[N]
  <2>1. j \in sz .. N
    BY <1>1
  <2>2. w[j] = st[j]
    BY <1>2, <2>1 DEF MovesUp
  <2> QED BY <2>2 DEF Walks
<1>5. FilesAt(st, 1 .. sz - 1) = FilesAt(F, KeptTo(N, P, N)) /\ E = FilesAt(F, TakenTo(N, P, N))
  BY <1>1 DEF Walks
<1>6. FilesAt(w, 1 .. sz - 1) = FilesAt(st, 1 .. sz - 1)
  BY <1>2 DEF FilesAt, MovesUp
<1>7. KeptTo(N, P, N) = StayIn(N, P)
  BY <1>3 DEF KeptTo, Kept, StayIn, Stays
<1>8. GoFrom(N, P) = TakenTo(N, P, N) \cup {N}
  <2>1. N \in 1 .. N
    BY <1>1
  <2> QED BY <2>1, <1>3 DEF TakenTo, Kept, GoFrom, Stays
<1>9. FilesAt(F, TakenTo(N, P, N) \cup {N}) = FilesAt(F, TakenTo(N, P, N)) \cup {F[N]}
  BY DEF FilesAt
<1> QED BY <1>1, <1>2, <1>4, <1>5, <1>6, <1>7, <1>8, <1>9 DEF Ends, w

\* The file at h is not plain.
LEMMA KeepNext ==
  ASSUME NEW F, NEW N \in Nat, NEW P \in SUBSET (1 .. N), NEW st, NEW sz, NEW E, NEW at,
         Walks(F, N, P, st, sz, E, at), at <= sz, at + (N - sz) \notin P
  PROVE  Walks(F, N, P, st, sz, E, at + 1)
<1> DEFINE h == at + (N - sz)
<1>1. /\ sz \in Nat /\ sz <= N /\ at \in 1 .. sz /\ h \in 1 .. N /\ h \in Nat \ {0}
      /\ (at + 1) + (N - sz) = h + 1 /\ at + 1 \in 1 .. sz + 1 /\ Among(st, sz, F, N)
  BY DEF Walks, Among
<1>2. ~ Second(P, h + 1)
  <2>1. P \in SUBSET (Nat \ {0})
    OBVIOUS
  <2>2. h \notin P
    OBVIOUS
  <2> HIDE DEF h
  <2> QED BY <1>1, <2>1, <2>2, SecondStep
<1>3. st[at] = F[h]
  <2>1. at \in at .. sz
    BY <1>1
  <2> QED BY <1>1, <2>1 DEF Walks
<1>4. h \notin P
  OBVIOUS
<1>5. FilesAt(st, 1 .. at - 1) = FilesAt(F, KeptTo(N, P, h)) /\ E = FilesAt(F, TakenTo(N, P, h))
  BY DEF Walks
<1>6. \A j \in at + 1 .. sz : st[j] = F[j + (N - sz)]
  BY <1>1 DEF Walks
<1>7. (\A j \in sz + 1 .. N : st[j] = F[N]) /\ (sz = N => E = {})
  BY DEF Walks
<1> HIDE DEF h
<1>8. KeptTo(N, P, h + 1) = KeptTo(N, P, h) \cup {h}
  BY <1>1, <1>4 DEF KeptTo, Kept
<1>9. TakenTo(N, P, h + 1) = TakenTo(N, P, h)
  BY <1>1, <1>4 DEF TakenTo, Kept
<1>10. FilesAt(st, 1 .. (at + 1) - 1) = FilesAt(F, KeptTo(N, P, h + 1))
  <2>1. 1 .. (at + 1) - 1 = (1 .. at - 1) \cup {at}
    BY <1>1
  <2>2. FilesAt(st, (1 .. at - 1) \cup {at}) = FilesAt(st, 1 .. at - 1) \cup {st[at]}
    BY DEF FilesAt
  <2>3. FilesAt(F, KeptTo(N, P, h) \cup {h}) = FilesAt(F, KeptTo(N, P, h)) \cup {F[h]}
    BY DEF FilesAt
  <2> QED BY <1>3, <1>5, <1>8, <2>1, <2>2, <2>3
<1> QED BY <1>1, <1>2, <1>5, <1>6, <1>7, <1>9, <1>10 DEF Walks

\* Nothing is left in front: what stays is settled but for the last file.
LEMMA WalkedOver ==
  ASSUME NEW F, NEW N \in Nat, NEW P \in SUBSET (1 .. N), NEW st, NEW sz, NEW E,
         Walks(F, N, P, st, sz, E, sz + 1)
  PROVE  /\ sz \in Nat /\ sz <= N /\ Among(st, sz, F, N) /\ \A j \in sz + 1 .. N : st[j] = F[N]
         /\ FilesAt(st, 1 .. sz) = FilesAt(F, KeptTo(N, P, N + 1))
         /\ E = FilesAt(F, TakenTo(N, P, N + 1))
         /\ sz = N => E = {}
<1>1. sz \in Nat /\ sz <= N /\ (sz + 1) - 1 = sz /\ (sz + 1) + (N - sz) = N + 1 /\ Among(st, sz, F, N)
  BY DEF Walks, Among
<1>3. FilesAt(st, 1 .. (sz + 1) - 1) = FilesAt(F, KeptTo(N, P, (sz + 1) + (N - sz)))
      /\ E = FilesAt(F, TakenTo(N, P, (sz + 1) + (N - sz))) /\ (sz = N => E = {})
      /\ \A j \in sz + 1 .. N : st[j] = F[N]
  BY DEF Walks
<1> QED BY <1>1, <1>3

LEMMA LastKept ==
  ASSUME NEW F, NEW N \in Nat, N >= 1, NEW P \in SUBSET (1 .. N), N \notin P
  PROVE  /\ KeptTo(N, P, N + 1) = StayIn(N, P)
         /\ TakenTo(N, P, N + 1) = GoFrom(N, P)
BY DEF KeptTo, TakenTo, Kept, StayIn, GoFrom, Stays

LEMMA LastTaken ==
  ASSUME NEW F, NEW N \in Nat, N >= 1, NEW P \in SUBSET (1 .. N), N \in P, Differ(F, N)
  PROVE  /\ FilesAt(F, KeptTo(N, P, N + 1)) \ {F[N]} = FilesAt(F, StayIn(N, P))
         /\ FilesAt(F, TakenTo(N, P, N + 1)) \cup {F[N]} = FilesAt(F, GoFrom(N, P))
<1>1. N \in 1 .. N
  OBVIOUS
<1>2. KeptTo(N, P, N + 1) \ {N} = StayIn(N, P)
  BY DEF KeptTo, Kept, StayIn, Stays
<1>3. TakenTo(N, P, N + 1) \cup {N} = GoFrom(N, P)
  BY <1>1 DEF TakenTo, Kept, GoFrom, Stays
<1> DEFINE A == KeptTo(N, P, N + 1)
           B == TakenTo(N, P, N + 1)
<1>4. A \subseteq 1 .. N /\ B \subseteq 1 .. N
  BY DEF KeptTo, TakenTo
<1> HIDE DEF A, B
<1>5. FilesAt(F, A) \ {F[N]} = FilesAt(F, A \ {N})
  BY <1>1, <1>4 DEF FilesAt, Differ
<1>6. FilesAt(F, B) \cup {F[N]} = FilesAt(F, B \cup {N})
  BY DEF FilesAt
<1> QED BY <1>2, <1>3, <1>5, <1>6 DEF A, B

\* Behind the end the last file is met, and taken if it is plain.
LEMMA MeetLast ==
  ASSUME NEW F, NEW N \in Nat, NEW P \in SUBSET (1 .. N), NEW st, NEW sz, NEW E, NEW at, Differ(F, N),
         \/ Walks(F, N, P, st, sz, E, at) /\ at = sz + 1
         \/ Ends(F, N, P, st, sz, E, at),
         at <= N
  PROVE  /\ st[at] = F[N] /\ N >= 1
         /\ N \notin P => Ends(F, N, P, st, sz, E, at + 1)
         /\ N \in P /\ F[N] \notin FilesAt(st, 1 .. sz) => Ends(F, N, P, st, sz, E \cup {F[N]}, at + 1)
         /\ N \in P => \A k \in 1 .. sz : st[k] = F[N] =>
              Ends(F, N, P, Without(st, sz, k), sz - 1, E \cup {F[N]}, at + 1)
<1>1. sz \in Nat /\ sz <= N /\ at \in Nat /\ at > sz /\ at >= 1 /\ N >= 1 /\ Among(st, sz, F, N)
      /\ at + 1 \in 1 .. N + 1 /\ at + 1 > sz
  BY DEF Walks, Ends, Among
<1>2. \A j \in at .. N : st[j] = F[N]
  <2>1. CASE Ends(F, N, P, st, sz, E, at)
    BY <2>1 DEF Ends
  <2>2. CASE Walks(F, N, P, st, sz, E, at) /\ at = sz + 1
    BY <2>2 DEF Walks
  <2> QED BY <2>1, <2>2
<1>3. st[at] = F[N]
  BY <1>1, <1>2
<1>4. ASSUME N \notin P
      PROVE  FilesAt(st, 1 .. sz) = FilesAt(F, StayIn(N, P)) /\ E = FilesAt(F, GoFrom(N, P))
  <2>1. CASE Ends(F, N, P, st, sz, E, at)
    BY <2>1 DEF Ends
  <2>2. CASE Walks(F, N, P, st, sz, E, at) /\ at = sz + 1
    <3>1. Walks(F, N, P, st, sz, E, sz + 1)
      BY <2>2
    <3>2. FilesAt(st, 1 .. sz) = FilesAt(F, KeptTo(N, P, N + 1))
      BY <3>1, WalkedOver
    <3>3. E = FilesAt(F, TakenTo(N, P, N + 1))
      <4>1. (sz + 1) + (N - sz) = N + 1
        BY <1>1
      <4> QED BY <3>1, <4>1 DEF Walks
    <3> QED BY <1>1, <1>4, <3>2, <3>3, LastKept
  <2> QED BY <2>1, <2>2
<1>5. ASSUME N \in P
      PROVE  /\ FilesAt(st, 1 .. sz) \ {F[N]} = FilesAt(F, StayIn(N, P))
             /\ E \cup {F[N]} = FilesAt(F, GoFrom(N, P))
  <2>1. CASE Ends(F, N, P, st, sz, E, at)
    <3>1. FilesAt(st, 1 .. sz) = FilesAt(F, StayIn(N, P)) /\ E = FilesAt(F, GoFrom(N, P))
      BY <2>1 DEF Ends
    <3>2. N \in GoFrom(N, P) /\ N \notin StayIn(N, P) /\ StayIn(N, P) \subseteq 1 .. N /\ N \in 1 .. N
      BY <1>1, <1>5 DEF GoFrom, StayIn, Stays
    <3>3. F[N] \in FilesAt(F, GoFrom(N, P)) /\ F[N] \notin FilesAt(F, StayIn(N, P))
      BY <3>2 DEF FilesAt, Differ
    <3> QED BY <3>1, <3>3
  <2>2. CASE Walks(F, N, P, st, sz, E, at) /\ at = sz + 1
    <3>1. Walks(F, N, P, st, sz, E, sz + 1)
      BY <2>2
    <3>2. FilesAt(st, 1 .. sz) = FilesAt(F, KeptTo(N, P, N + 1))
      BY <3>1, WalkedOver
    <3>3. E = FilesAt(F, TakenTo(N, P, N + 1))
      <4>1. (sz + 1) + (N - sz) = N + 1
        BY <1>1
      <4> QED BY <3>1, <4>1 DEF Walks
    <3> QED BY <1>1, <1>5, <3>2, <3>3, LastTaken
  <2> QED BY <2>1, <2>2
<1>6. ASSUME NEW j \in at + 1 .. N PROVE st[j] = F[N] /\ j \in sz .. N
  BY <1>1, <1>2
<1>7. ASSUME N \notin P PROVE Ends(F, N, P, st, sz, E, at + 1)
  BY <1>1, <1>4, <1>6, <1>7 DEF Ends
<1>8. ASSUME N \in P, F[N] \notin FilesAt(st, 1 .. sz) PROVE Ends(F, N, P, st, sz, E \cup {F[N]}, at + 1)
  <2>1. FilesAt(st, 1 .. sz) \ {F[N]} = FilesAt(st, 1 .. sz)
    BY <1>8
  <2> QED BY <1>1, <1>5, <1>6, <1>8, <2>1 DEF Ends
<1>9. ASSUME N \in P, NEW k \in 1 .. sz, st[k] = F[N]
      PROVE  Ends(F, N, P, Without(st, sz, k), sz - 1, E \cup {F[N]}, at + 1)
  <2> DEFINE w == Without(st, sz, k)
  <2> HIDE DEF w
  <2>1. /\ Among(Without(st, sz, k), sz - 1, F, N) /\ MovesUp(Without(st, sz, k), st, sz, N, k)
        /\ FilesAt(Without(st, sz, k), 1 .. sz - 1) = FilesAt(st, 1 .. sz) \ {st[k]}
    <3>1. Among(st, sz, F, N)
      BY <1>1
    <3> QED BY <3>1, WithoutIs
  <2>2. Among(w, sz - 1, F, N) /\ MovesUp(w, st, sz, N, k)
        /\ FilesAt(w, 1 .. sz - 1) = FilesAt(st, 1 .. sz) \ {st[k]}
    BY <2>1 DEF w
  <2>3. \A j \in at + 1 .. N : w[j] = F[N]
    BY <1>6, <2>2 DEF MovesUp
  <2>4. at + 1 > sz - 1
    BY <1>1
  <2>5. Ends(F, N, P, w, sz - 1, E \cup {F[N]}, at + 1)
    BY <1>1, <1>5, <1>9, <2>2, <2>3, <2>4 DEF Ends
  <2> QED BY <2>5 DEF w
<1> QED BY <1>1, <1>3, <1>7, <1>8, <1>9

-----------------------------------------------------------------------------
(***************************************************************************)
(* The loop on the files of the command line.                              *)
(***************************************************************************)
Plains == {j \in DOMAIN Sources : IsPlain(j)}
Separating(at, st, sz, ext) ==
  \/ Walks(files, Len(files), Plains, st, sz, ToSet(ext), at)
  \/ Ends(files, Len(files), Plains, st, sz, ToSet(ext), at)

AreSources(fs) ==
  /\ Len(fs) \in Nat /\ Len(Sources) = Len(fs) /\ DOMAIN Sources = 1 .. Len(fs)
  /\ fs \in [1 .. Len(fs) -> Object] /\ Differ(fs, Len(fs))
  /\ Plains \subseteq 1 .. Len(fs)
  /\ \A j \in 1 .. Len(fs) :
       /\ fs[j] = SourceObj(j) /\ fs[j].path \in Path /\ fs[j].path = args[Sources[j]].name
       /\ HeadOf(fs[j]) = SourceHead(j) /\ (Taken(fs[j]) <=> j \in Plains)

LEMMA SourcesRead ==
  ASSUME input \in Input, NEW fs, NEW ps, NEW ls, ReadTo(argc, fs, ps, ls)
  PROVE  Faulty = {} /\ AreSources(fs)
<1> DEFINE S == {k \in Read : args[k].kind = "word"}
           n == Cardinality(S)
<1>1. /\ Positions = 1 .. Len(args) /\ argc = Len(args) + 1 /\ Len(args) \in Nat
      /\ Read \subseteq Positions /\ (\A k \in Read : k \in Nat /\ k < argc) /\ S \in SUBSET Nat
  <2>1. Positions = 1 .. Len(args) /\ argc = Len(args) + 1 /\ Len(args) \in Nat /\ Read \subseteq Positions
    BY Arguments DEF Read
  <2>2. \A k \in Read : k \in Nat /\ k < argc
    BY <2>1
  <2> QED BY <2>1, <2>2
<1>2. Faulty = {}
  <2>1. \A t \in Faulty : t >= argc /\ t \in Read
    BY DEF ReadTo, Faulty
  <2>2. \A t \in Read : ~ (t >= argc)
    BY <1>1
  <2> QED BY <2>1, <2>2
<1>3. WordsBefore(argc) = S
  BY <1>1 DEF WordsBefore
<1>4. Sorted(S) /\ fs = Mapped(Objs, S) /\ Sources = InOrder(S)
  BY <1>3 DEF ReadTo, Sources
<1>5. n \in Nat /\ Ascends(Sources, n, S)
  BY <1>4, FS_CardinalityType DEF Sorted, Enumerated
<1>6. Sources \in [1 .. n -> S] /\ fs = [j \in 1 .. n |-> Objs[Sources[j]]]
  BY <1>4, <1>5 DEF Ascends, Mapped
<1> HIDE DEF n
<1>7. ASSUME NEW j \in 1 .. n
      PROVE  /\ Sources[j] \in Nat /\ fs[j] = SourceObj(j) /\ fs[j] \in Object /\ fs[j].path \in Path
             /\ fs[j].path = args[Sources[j]].name /\ fs[j].n = Sources[j]
             /\ HeadOf(fs[j]) = SourceHead(j) /\ (Taken(fs[j]) <=> IsPlain(j))
  <2>1. Sources[j] \in Read /\ args[Sources[j]].kind = "word" /\ Sources[j] \in Positions /\ Sources[j] \in Nat
    BY <1>1, <1>6
  <2>2. args[Sources[j]].name \in Path
    BY <1>2, <2>1 DEF Faulty, Unknown, Exists
  <2>3. fs[j] = SourceObj(j)
    BY <1>6, <2>1 DEF Objs, ObjAt, SourceObj
  <2>4. /\ fs[j].path = args[Sources[j]].name /\ fs[j].n = Sources[j]
        /\ fs[j] \in Object
    BY <2>1, <2>2, <2>3 DEF SourceObj, Obj, Object
  <2> QED BY <2>1, <2>2, <2>3, <2>4 DEF HeadOf, SourceHead, Taken, IsPlain
<1>8. fs \in [1 .. n -> Object] /\ Len(fs) = n /\ Len(Sources) = n /\ DOMAIN Sources = 1 .. n
  BY <1>5, <1>6, <1>7
<1>9. Differ(fs, n)
  <2> SUFFICES ASSUME NEW a \in 1 .. n, NEW b \in 1 .. n, fs[a] = fs[b] PROVE a = b
    BY DEF Differ
  <2>1. Sources[a] = Sources[b] /\ Sources[a] \in Nat /\ Sources[b] \in Nat
    BY <1>7
  <2>2. ~ (a < b) /\ ~ (b < a)
    BY <1>5, <2>1 DEF Ascends
  <2> QED BY <2>2
<1> HIDE DEF S
<1>10. \A j \in 1 .. n : j \in Plains <=> IsPlain(j)
  BY <1>8 DEF Plains
<1>11. Plains \subseteq 1 .. n
  BY <1>8 DEF Plains
<1> QED BY <1>2, <1>5, <1>7, <1>8, <1>9, <1>10, <1>11 DEF AreSources

LEMMA PlaceIs ==
  ASSUME NEW F, NEW N \in Nat, Among(store, size, F, N), NEW o, NEW k \in 1 .. size, store[k] = o
  PROVE  PlaceOf(o) = {k} /\ Cardinality(PlaceOf(o)) = 1 /\ (CHOOSE x \in PlaceOf(o) : TRUE) = k
<1>1. PlaceOf(o) = {k}
  BY DEF Among, PlaceOf
<1>2. Cardinality({k}) = 1
  BY FS_Singleton
<1> QED BY <1>1, <1>2

LEMMA NoPlace ==
  ASSUME NEW o, o \notin FilesAt(store, 1 .. size)
  PROVE  PlaceOf(o) = {} /\ Cardinality(PlaceOf(o)) = 0
<1>1. PlaceOf(o) = {}
  BY DEF PlaceOf, FilesAt
<1> QED BY <1>1, FS_EmptySet

LEMMA ToSetAdd ==
  ASSUME NEW V, NEW s \in Seq(V), NEW v \in V
  PROVE  ToSet(Append(s, v)) = ToSet(s) \cup {v}
<1> DEFINE t == Append(s, v)
<1>1. /\ Len(s) \in Nat /\ Len(t) = Len(s) + 1 /\ t[Len(s) + 1] = v /\ DOMAIN s = 1 .. Len(s)
      /\ DOMAIN t = 1 .. Len(s) + 1 /\ \A j \in 1 .. Len(s) : t[j] = s[j]
  OBVIOUS
<1> HIDE DEF t
<1>2. ASSUME NEW j \in 1 .. Len(s) + 1 PROVE t[j] \in ToSet(s) \cup {v}
  <2>1. CASE j = Len(s) + 1
    BY <1>1, <2>1
  <2>2. CASE j # Len(s) + 1
    <3>1. j \in DOMAIN s /\ t[j] = s[j]
      BY <1>1, <2>2
    <3> QED BY <3>1 DEF ToSet
  <2> QED BY <2>1, <2>2
<1>3. ASSUME NEW j \in 1 .. Len(s) PROVE s[j] = t[j] /\ j \in 1 .. Len(s) + 1
  BY <1>1
<1>4. Len(s) + 1 \in 1 .. Len(s) + 1
  BY <1>1
<1> QED BY <1>1, <1>2, <1>3, <1>4 DEF ToSet, t

LEMMA SeparateStep ==
  ASSUME AreSources(files), Separating(i, store, size, extFiles), extFiles \in Seq(Object), Separate
  PROVE  Separating(i', store', size', extFiles') /\ extFiles' \in Seq(Object)
<1> DEFINE F == files
           N == Len(files)
           P == Plains
           E == ToSet(extFiles)
           o == store[i]
<1>1. /\ N \in Nat /\ P \in SUBSET (1 .. N) /\ Differ(F, N) /\ F \in [1 .. N -> Object]
      /\ \A j \in 1 .. N : Taken(F[j]) <=> j \in P
  BY DEF AreSources
<1>2. Walks(F, N, P, store, size, E, i) \/ Ends(F, N, P, store, size, E, i)
  BY DEF Separating
<1> HIDE DEF F, N, P, E
<1>3. /\ Among(store, size, F, N) /\ size \in Nat /\ size <= N /\ Len(store) = N /\ DOMAIN store = 1 .. N
      /\ i \in Nat \ {0} /\ i <= N
  <2>1. Among(store, size, F, N) /\ i \in Nat \ {0}
    <3>1. CASE Walks(F, N, P, store, size, E, i)
      BY <3>1 DEF Walks, Among
    <3>2. CASE Ends(F, N, P, store, size, E, i)
      BY <3>2 DEF Ends, Among
    <3> QED BY <1>2, <3>1, <3>2
  <2>2. Len(store) = N /\ DOMAIN store = 1 .. N /\ size \in Nat /\ size <= N
    BY <1>1, <2>1 DEF Among
  <2> QED BY <2>1, <2>2 DEF Separate
<1>4. /\ i' = i + 1
      /\ Taken(o) => /\ extFiles' = Append(extFiles, o)
                     /\ store' = IF PlaceOf(o) = {} THEN store ELSE Erased(CHOOSE k \in PlaceOf(o) : TRUE)
                     /\ size' = size - Cardinality(PlaceOf(o))
      /\ ~ Taken(o) => store' = store /\ size' = size /\ extFiles' = extFiles
  BY DEF Separate
<1>5. \A k : Erased(k) = Without(store, size, k)
  BY DEF Erased, Without
<1>6. SUFFICES /\ \/ Walks(F, N, P, store', size', ToSet(extFiles'), i')
                  \/ Ends(F, N, P, store', size', ToSet(extFiles'), i')
               /\ extFiles' \in Seq(Object)
  BY DEF Separating, F, N, P
<1>7. ASSUME NEW j \in 1 .. N, o = F[j], Taken(o)
      PROVE  ToSet(extFiles') = E \cup {F[j]} /\ extFiles' \in Seq(Object)
  <2>1. F[j] \in Object /\ extFiles' = Append(extFiles, F[j])
    BY <1>1, <1>4, <1>7
  <2>2. ToSet(Append(extFiles, F[j])) = ToSet(extFiles) \cup {F[j]}
    BY <2>1, ToSetAdd
  <2> QED BY <2>1, <2>2 DEF E
<1>8. ASSUME NEW k \in 1 .. size, store[k] = o, Taken(o)
      PROVE  store' = Without(store, size, k) /\ size' = size - 1
  <2>1. PlaceOf(o) = {k} /\ Cardinality(PlaceOf(o)) = 1 /\ (CHOOSE x \in PlaceOf(o) : TRUE) = k
    BY <1>1, <1>3, <1>8, PlaceIs
  <2>2. PlaceOf(o) # {}
    BY <2>1
  <2> QED BY <1>4, <1>5, <1>8, <2>1, <2>2
<1>9. CASE Walks(F, N, P, store, size, E, i) /\ i <= size
  <2> DEFINE h == i + (N - size)
  <2>1. h \in 1 .. N /\ i \in 1 .. size /\ o = F[h] /\ (i = size => h = N) /\ i \in i .. size
    BY <1>1, <1>3, <1>9 DEF Walks
  <2>2. CASE h \in P
    <3>1. Taken(o)
      BY <1>1, <2>1, <2>2
    <3>2. store' = Without(store, size, i) /\ size' = size - 1
      BY <1>8, <2>1, <3>1
    <3>3. ToSet(extFiles') = E \cup {F[h]} /\ extFiles' \in Seq(Object)
      <4> HIDE DEF h, o
      <4> QED BY <1>7, <2>1, <3>1
    <3>4. CASE i < size
      <4>1. Walks(F, N, P, Without(store, size, i), size - 1, E \cup {F[i + (N - size)]}, i + 1)
        BY <1>1, <1>9, <2>2, <3>4, TakeNext
      <4> QED BY <1>4, <3>2, <3>3, <4>1
    <3>5. CASE i = size
      <4>1. Ends(F, N, P, Without(store, size, size), size - 1, E \cup {F[N]}, size + 1)
        <5>1. Walks(F, N, P, store, size, E, size) /\ size >= 1 /\ N \in P
          BY <1>9, <2>1, <2>2, <3>5
        <5> QED BY <1>1, <5>1, TakeLast
      <4> QED BY <1>4, <2>1, <3>2, <3>3, <3>5, <4>1
    <3> QED BY <1>3, <1>9, <3>4, <3>5
  <2>3. CASE h \notin P
    <3>1. ~ Taken(o)
      BY <1>1, <2>1, <2>3
    <3>2. Walks(F, N, P, store, size, E, i + 1)
      BY <1>1, <1>9, <2>3, KeepNext
    <3> QED BY <1>4, <3>1, <3>2 DEF E
  <2> QED BY <2>2, <2>3
<1>10. CASE ~ (Walks(F, N, P, store, size, E, i) /\ i <= size)
  <2>1. \/ Walks(F, N, P, store, size, E, i) /\ i = size + 1
        \/ Ends(F, N, P, store, size, E, i)
    BY <1>2, <1>3, <1>10 DEF Walks
  <2>2. o = F[N] /\ N >= 1
    <3>1. CASE Walks(F, N, P, store, size, E, i) /\ i = size + 1
      BY <1>1, <1>3, <3>1 DEF Walks
    <3>2. CASE Ends(F, N, P, store, size, E, i)
      BY <1>1, <1>3, <3>2 DEF Ends
    <3> QED BY <2>1, <3>1, <3>2
  <2>3. N \in 1 .. N /\ (Taken(o) <=> N \in P)
    BY <1>1, <2>2
  <2>4. CASE N \notin P
    <3>1. Ends(F, N, P, store, size, E, i + 1)
      BY <1>1, <1>3, <2>1, <2>4, MeetLast
    <3> QED BY <1>4, <2>3, <2>4, <3>1 DEF E
  <2>5. CASE N \in P
    <3>1. ToSet(extFiles') = E \cup {F[N]} /\ extFiles' \in Seq(Object)
      <4> HIDE DEF o
      <4> QED BY <1>7, <2>2, <2>3, <2>5
    <3>2. CASE F[N] \notin FilesAt(store, 1 .. size)
      <4>1. Ends(F, N, P, store, size, E \cup {F[N]}, i + 1)
        BY <1>1, <1>3, <2>1, <2>5, <3>2, MeetLast
      <4>2. PlaceOf(o) = {} /\ Cardinality(PlaceOf(o)) = 0
        BY <2>2, <3>2, NoPlace
      <4>3. store' = store /\ size' = size
        BY <1>3, <1>4, <2>3, <2>5, <4>2
      <4> QED BY <1>4, <3>1, <4>1, <4>3
    <3>3. CASE F[N] \in FilesAt(store, 1 .. size)
      <4>1. PICK k \in 1 .. size : store[k] = F[N]
        BY <3>3 DEF FilesAt
      <4>2. Ends(F, N, P, Without(store, size, k), size - 1, E \cup {F[N]}, i + 1)
        BY <1>1, <1>3, <2>1, <2>5, <4>1, MeetLast
      <4>3. store' = Without(store, size, k) /\ size' = size - 1
        BY <1>8, <2>2, <2>3, <2>5, <4>1
      <4> QED BY <1>4, <3>1, <4>2, <4>3
    <3> QED BY <3>2, <3>3
  <2> QED BY <2>4, <2>5
<1> QED BY <1>9, <1>10

\* The loop begins with the list of the files.
LEMMA SeparatingBegins ==
  ASSUME AreSources(files)
  PROVE  Separating(1, files, Len(files), <<>>)
<1> DEFINE F == files
           N == Len(files)
           P == Plains
<1>1. N \in Nat /\ P \in SUBSET (1 .. N) /\ Differ(F, N) /\ F \in [1 .. N -> Object]
  BY DEF AreSources
<1> HIDE DEF F, N, P
<1>2. Among(F, N, F, N)
  BY <1>1 DEF Among, FilesAt, Differ
<1>3. FilesAt(F, 1 .. 1 - 1) = FilesAt(F, KeptTo(N, P, 1 + (N - N)))
  <2>1. 1 .. 1 - 1 = {} /\ 1 + (N - N) = 1 /\ KeptTo(N, P, 1) = {}
    BY <1>1 DEF KeptTo
  <2> QED BY <2>1
<1>4. ToSet(<<>>) = FilesAt(F, TakenTo(N, P, 1 + (N - N))) /\ ToSet(<<>>) = {}
  <2>1. 1 + (N - N) = 1 /\ TakenTo(N, P, 1) = {}
    BY <1>1 DEF TakenTo
  <2> QED BY <2>1 DEF FilesAt, ToSet
<1>5. ~ Second(P, 1 + (N - N))
  <2>1. 1 + (N - N) = 1
    BY <1>1
  <2> QED BY <2>1, SecondFirst
<1>6. \A j \in 1 .. N : F[j] = F[j + (N - N)]
  <2>1. \A j \in 1 .. N : j + (N - N) = j
    BY <1>1
  <2> QED BY <2>1
<1>7. \A j \in N + 1 .. N : F[j] = F[N]
  BY <1>1
<1>8. Walks(F, N, P, F, N, ToSet(<<>>), 1)
  BY <1>1, <1>2, <1>3, <1>4, <1>5, <1>6, <1>7 DEF Walks
<1> QED BY <1>8 DEF Separating, F, N, P

\* and ends with what the rule says.
LEMMA Separated ==
  ASSUME AreSources(files), Separating(i, store, size, extFiles), i > Len(store)
  PROVE  /\ BuildFiles = {SourceObj(j) : j \in {k \in DOMAIN Sources : StaysBuildFile(k)}}
         /\ ToSet(extFiles) = {SourceObj(j) : j \in {k \in DOMAIN Sources : ~ StaysBuildFile(k)}}
<1> DEFINE F == files
           N == Len(files)
           P == Plains
           E == ToSet(extFiles)
<1>1. /\ N \in Nat /\ P \in SUBSET (1 .. N) /\ Differ(F, N) /\ Len(Sources) = N /\ DOMAIN Sources = 1 .. N
      /\ \A j \in 1 .. N : F[j] = SourceObj(j)
  BY DEF AreSources
<1>2. Walks(F, N, P, store, size, E, i) \/ Ends(F, N, P, store, size, E, i)
  BY DEF Separating
<1>3. \A k \in 1 .. N : StaysBuildFile(k) <=> Stays(P, N, k)
  BY <1>1 DEF StaysBuildFile, Passed, Stays, Plains
<1> HIDE DEF F, N, P, E
<1>4. Among(store, size, F, N) /\ size \in Nat /\ size <= N /\ Len(store) = N /\ i > N
  <2>1. Among(store, size, F, N)
    BY <1>2 DEF Walks, Ends
  <2> QED BY <1>1, <2>1 DEF Among
<1>5. BuildFiles = FilesAt(store, 1 .. size)
  BY DEF BuildFiles, FilesAt
<1>6. FilesAt(store, 1 .. size) = FilesAt(F, StayIn(N, P)) /\ E = FilesAt(F, GoFrom(N, P))
  <2>1. CASE Ends(F, N, P, store, size, E, i)
    BY <2>1 DEF Ends
  <2>2. CASE Walks(F, N, P, store, size, E, i)
    <3>1. i \in 1 .. size + 1
      BY <2>2 DEF Walks
    <3>2. size = N /\ i = size + 1
      BY <1>1, <1>4, <3>1
    <3>3. Walks(F, N, P, store, size, E, size + 1)
      BY <2>2, <3>2
    <3>4. FilesAt(store, 1 .. size) = FilesAt(F, KeptTo(N, P, N + 1))
      BY <1>1, <3>3, WalkedOver
    <3>5. E = FilesAt(F, TakenTo(N, P, N + 1)) /\ E = {}
      <4>1. (size + 1) + (N - size) = N + 1
        BY <1>1, <3>2
      <4> QED BY <3>2, <3>3, <4>1 DEF Walks
    <3>6. TakenTo(N, P, N + 1) = {}
      BY <3>5 DEF FilesAt
    <3>7. \A k \in 1 .. N : Kept(P, k)
      BY <1>1, <3>6 DEF TakenTo
    <3>8. P = {}
      <4> SUFFICES ASSUME P # {} PROVE FALSE
        OBVIOUS
      <4>1. PICK k \in P : \A y \in P : ~ (y < k)
        <5>1. P \in SUBSET Nat
          BY <1>1
        <5> QED BY <5>1, NatMin
      <4>2. k \in 1 .. N /\ k \in Nat \ {0} /\ Second(P, k)
        BY <1>1, <3>7, <4>1 DEF Kept
      <4>3. PICK s \in 1 .. k : s .. k - 1 \subseteq P /\ (k - s) % 2 = 1
        BY <4>2 DEF Second
      <4>4. s = k
        <5> SUFFICES ASSUME s # k PROVE FALSE
          OBVIOUS
        <5>1. s \in s .. k - 1 /\ s < k
          BY <4>2
        <5> QED BY <4>1, <4>3, <5>1
      <4>5. k - s = 0
        BY <4>2, <4>4
      <4> QED BY <4>3, <4>5
    <3>9. KeptTo(N, P, N + 1) = StayIn(N, P) /\ TakenTo(N, P, N + 1) = GoFrom(N, P)
      BY <1>1, <3>8 DEF KeptTo, TakenTo, StayIn, GoFrom, Kept, Stays
    <3> QED BY <3>4, <3>5, <3>9
  <2> QED BY <1>2, <2>1, <2>2
<1>7. FilesAt(F, StayIn(N, P)) = {SourceObj(j) : j \in {k \in DOMAIN Sources : StaysBuildFile(k)}}
  BY <1>1, <1>3 DEF FilesAt, StayIn
<1>8. FilesAt(F, GoFrom(N, P)) = {SourceObj(j) : j \in {k \in DOMAIN Sources : ~ StaysBuildFile(k)}}
  BY <1>1, <1>3 DEF FilesAt, GoFrom
<1> QED BY <1>5, <1>6, <1>7, <1>8 DEF E

\* The compiler's own process survives exactly if the sources fit.
LEMMA FitsExactly ==
  ASSUME AreSources(files),
         BuildFiles = {SourceObj(j) : j \in {k \in DOMAIN Sources : StaysBuildFile(k)}}
  PROVE  /\ JobCrashes(BuildFiles, Len(files)) <=> ~ SourcesFit
         /\ SourcesFit => ((\E o \in ToSet(files) : IsInfo(o)) <=> HasScript)
<1> DEFINE N == Len(files)
<1>1. /\ N \in Nat /\ Plains \in SUBSET (1 .. N) /\ Len(Sources) = N /\ DOMAIN Sources = 1 .. N
      /\ \A j \in 1 .. N : HeadOf(files[j]) = SourceHead(j)
      /\ DOMAIN files = 1 .. N /\ Plains \in SUBSET (Nat \ {0})
  BY DEF AreSources
<1> HIDE DEF N
<1>2. BuildFiles = {} <=> \A j \in 1 .. N : ~ StaysBuildFile(j)
  BY <1>1
<1>3. \A j \in 1 .. N : j \in Plains <=> IsPlain(j)
  BY <1>1 DEF Plains
<1>4. ~ Passed(1)
  BY SecondFirst DEF Passed
<1>5. JobCrashes(BuildFiles, N) <=> BuildFiles # {} /\ N > 1
  BY DEF JobCrashes
<1>9. JobCrashes(BuildFiles, N) <=> ~ SourcesFit
  <2>6. CASE N <= 1
    BY <1>1, <1>5, <2>6 DEF SourcesFit
  <2>7. CASE N = 2
    <3>1. StaysBuildFile(1) <=> ~ IsPlain(1)
      BY <1>1, <1>4, <2>7 DEF StaysBuildFile
    <3>2. StaysBuildFile(2) <=> ~ IsPlain(2)
      BY <1>1, <2>7 DEF StaysBuildFile
    <3>3. 1 .. N = {1, 2}
      BY <2>7
    <3>4. BuildFiles = {} <=> IsPlain(1) /\ IsPlain(2)
      BY <1>2, <3>1, <3>2, <3>3
    <3> QED BY <1>1, <1>5, <2>7, <3>4 DEF SourcesFit
  <2>8. CASE N > 2
    <3>1. ~ SourcesFit
      BY <1>1, <2>8 DEF SourcesFit
    <3>2. BuildFiles # {}
      <4> SUFFICES ASSUME \A j \in 1 .. N : ~ StaysBuildFile(j) PROVE FALSE
        BY <1>2
      <4>1. 1 \in 1 .. N /\ 2 \in 1 .. N /\ 1 \in Nat \ {0} /\ 1 + 1 = 2
        BY <1>1, <2>8
      <4>2. 1 \in Plains
        BY <1>3, <4>1 DEF StaysBuildFile
      <4>3. Second(Plains, 1 + 1)
        BY <1>1, <4>1, <4>2, SecondFirst, SecondStep
      <4>4. Passed(2)
        BY <4>1, <4>3 DEF Passed, Plains
      <4> QED BY <1>1, <2>8, <4>1, <4>4 DEF StaysBuildFile
    <3> QED BY <1>1, <1>5, <2>8, <3>1, <3>2
  <2> QED BY <1>1, <2>6, <2>7, <2>8
<1>10. ASSUME SourcesFit PROVE (\E o \in ToSet(files) : IsInfo(o)) <=> HasScript
  <2>1. (\E o \in ToSet(files) : IsInfo(o)) <=> \E j \in 1 .. N : SourceHead(j) = "info"
    BY <1>1 DEF ToSet, IsInfo
  <2>2. CASE N = 0
    <3>1. Sources = <<>>
      BY <1>1, <2>2
    <3> QED BY <2>1, <2>2, <3>1 DEF HasScript
  <2>3. CASE N = 1
    <3>1. Sources # <<>> /\ 1 .. N = {1}
      BY <1>1, <2>3
    <3> QED BY <2>1, <3>1 DEF HasScript
  <2>4. CASE N = 2
    <3>1. IsPlain(1) /\ IsPlain(2)
      BY <1>1, <1>10, <2>4 DEF SourcesFit
    <3>2. 1 .. N = {1, 2}
      BY <2>4
    <3> QED BY <2>1, <3>1, <3>2 DEF HasScript, IsPlain
  <2> QED BY <1>1, <1>10, <2>2, <2>3, <2>4 DEF SourcesFit
<1> QED BY <1>9, <1>10 DEF N

-----------------------------------------------------------------------------
(***************************************************************************)
(* The build script: Info after the calls in front of the k-th.            *)
(***************************************************************************)
Script == input.script
SaidBefore(op, k) == {t \in Said(op) : t < k}
OperandsBefore(op, k) == {Script[t].of : t \in SaidBefore(op, k)}
ListedBefore(k) == UNION {input.files[d] : d \in OperandsBefore("addSourceDir", k) \cap Dir}
LatestBefore(op, k) == Script[Max(SaidBefore(op, k))].of

RunsTo(k) ==
  \A t \in DOMAIN Script : t < k =>
    /\ Script[t].op = "addSourceDir" => Script[t].of \in Dir
    /\ Script[t].op = "verify" => \E j \in 1 .. t - 1 : Script[j].op = "setMainFile"

HasFields(in) ==
  /\ in = [mainFile |-> in.mainFile, table |-> in.table, isMain |-> in.isMain, outName |-> in.outName,
           flags |-> in.flags, link |-> in.link, linker |-> in.linker, emitPath |-> in.emitPath,
           main |-> in.main, native |-> in.native, live |-> in.live]
  /\ in.linker \in Seq(Arg)

TableAt(table, k) ==
  /\ DOMAIN table = ListedBefore(k) \cup OperandsBefore("setMainFile", k)
  /\ \A p \in DOMAIN table : IF p \in ListedBefore(k) THEN table[p] = TRUE ELSE table[p] = FALSE

MainAt(main, k) ==
  LET mains == OperandsBefore("setMainFile", k)
  IN main \in mains \cup {""} /\ (main = "" => mains = {} \/ "" \in mains)

OutAt(out, k) ==
  out = IF SaidBefore("setOutName", k) = {} THEN None
          ELSE [kind |-> "word", name |-> LatestBefore("setOutName", k)]
FlagsAt(flags, k) ==
  flags = IF SaidBefore("setFlag", k) = {} THEN {} ELSE {LatestBefore("setFlag", k)}
LinkAt(link, k) ==
  link = IF SaidBefore("shouldLink", k) = {} THEN TRUE ELSE LatestBefore("shouldLink", k) = "true"

InfoAt(in, k) ==
  /\ HasFields(in) /\ MainAt(in.mainFile, k) /\ TableAt(in.table, k)
  /\ OutAt(in.outName, k) /\ FlagsAt(in.flags, k) /\ LinkAt(in.link, k)
  /\ in.emitPath = None /\ in.native = {} /\ in.live = {}

LEMMA ScriptIs ==
  ASSUME input \in Input
  PROVE  /\ Len(Script) \in Nat /\ DOMAIN Script = 1 .. Len(Script)
         /\ \A k \in DOMAIN Script : Script[k] \in Call
         /\ input.files \in [Dir -> SUBSET Path]
BY DEF Input, Script

LEMMA SaidNext ==
  ASSUME input \in Input, NEW k \in DOMAIN Script, NEW op
  PROVE  /\ SaidBefore(op, k + 1) = IF Script[k].op = op THEN SaidBefore(op, k) \cup {k} ELSE SaidBefore(op, k)
         /\ OperandsBefore(op, k + 1) = IF Script[k].op = op THEN OperandsBefore(op, k) \cup {Script[k].of}
                                          ELSE OperandsBefore(op, k)
         /\ Script[k].op = op => SaidBefore(op, k + 1) # {} /\ LatestBefore(op, k + 1) = Script[k].of
         /\ Script[k].op # op => LatestBefore(op, k + 1) = LatestBefore(op, k)
<1>1. k \in Nat /\ DOMAIN Script = 1 .. Len(Script) /\ Len(Script) \in Nat
  BY ScriptIs
<1>2. Said(op) = {t \in DOMAIN Script : Script[t].op = op}
  BY DEF Said, Script
<1>3. SaidBefore(op, k + 1) = IF Script[k].op = op THEN SaidBefore(op, k) \cup {k} ELSE SaidBefore(op, k)
  <2>1. \A t \in DOMAIN Script : t < k + 1 <=> t < k \/ t = k
    BY <1>1
  <2> QED BY <1>2, <2>1 DEF SaidBefore
<1>4. OperandsBefore(op, k + 1) = IF Script[k].op = op THEN OperandsBefore(op, k) \cup {Script[k].of}
                                    ELSE OperandsBefore(op, k)
  BY <1>3 DEF OperandsBefore
<1>5. ASSUME Script[k].op = op PROVE LatestBefore(op, k + 1) = Script[k].of
  <2> DEFINE S == SaidBefore(op, k + 1)
  <2>1. S \in SUBSET Int /\ k \in S /\ \A y \in S : y <= k
    BY <1>1, <1>2, <1>3, <1>5 DEF SaidBefore
  <2> HIDE DEF S
  <2>2. Max(S) = k
    BY <2>1, MaxIs
  <2> QED BY <2>2 DEF LatestBefore, S
<1>6. Script[k].op = op => SaidBefore(op, k + 1) # {}
  BY <1>3
<1>7. Script[k].op # op => LatestBefore(op, k + 1) = LatestBefore(op, k)
  BY <1>3 DEF LatestBefore
<1> QED BY <1>3, <1>4, <1>5, <1>6, <1>7

LEMMA ListedNext ==
  ASSUME input \in Input, NEW k \in DOMAIN Script
  PROVE  ListedBefore(k + 1) = IF Script[k].op = "addSourceDir" /\ Script[k].of \in Dir
                                 THEN ListedBefore(k) \cup input.files[Script[k].of] ELSE ListedBefore(k)
<1> DEFINE A == OperandsBefore("addSourceDir", k)
           B == OperandsBefore("addSourceDir", k + 1)
<1>1. B = IF Script[k].op = "addSourceDir" THEN A \cup {Script[k].of} ELSE A
  BY SaidNext
<1> HIDE DEF A, B
<1>2. ListedBefore(k) = UNION {input.files[d] : d \in A \cap Dir}
      /\ ListedBefore(k + 1) = UNION {input.files[d] : d \in B \cap Dir}
  BY DEF ListedBefore, A, B
<1>3. CASE Script[k].op = "addSourceDir" /\ Script[k].of \in Dir
  <2>1. B \cap Dir = (A \cap Dir) \cup {Script[k].of}
    BY <1>1, <1>3
  <2>2. ListedBefore(k + 1) = ListedBefore(k) \cup input.files[Script[k].of]
    BY <1>2, <2>1
  <2> QED BY <1>3, <2>2
<1>4. CASE ~ (Script[k].op = "addSourceDir" /\ Script[k].of \in Dir)
  <2>1. B \cap Dir = A \cap Dir
    BY <1>1, <1>4
  <2> QED BY <1>2, <1>4, <2>1
<1> QED BY <1>3, <1>4

\* A call of the script, whatever it is: what it leaves alone is as it was.
LEMMA Uncalled ==
  ASSUME input \in Input, NEW k \in DOMAIN Script, NEW v
  PROVE  /\ Script[k].op # "setMainFile" /\ MainAt(v, k) => MainAt(v, k + 1)
         /\ Script[k].op \notin {"setMainFile", "addSourceDir"} /\ TableAt(v, k) => TableAt(v, k + 1)
         /\ Script[k].op # "setOutName" /\ OutAt(v, k) => OutAt(v, k + 1)
         /\ Script[k].op # "setFlag" /\ FlagsAt(v, k) => FlagsAt(v, k + 1)
         /\ Script[k].op # "shouldLink" /\ LinkAt(v, k) => LinkAt(v, k + 1)
<1>1. \A op : Script[k].op # op =>
        /\ SaidBefore(op, k + 1) = SaidBefore(op, k)
        /\ OperandsBefore(op, k + 1) = OperandsBefore(op, k)
        /\ LatestBefore(op, k + 1) = LatestBefore(op, k)
  BY SaidNext
<1>2. Script[k].op # "addSourceDir" => ListedBefore(k + 1) = ListedBefore(k)
  BY ListedNext
<1>3. Script[k].op # "setMainFile" /\ MainAt(v, k) => MainAt(v, k + 1)
  BY <1>1 DEF MainAt
<1>4. Script[k].op \notin {"setMainFile", "addSourceDir"} /\ TableAt(v, k) => TableAt(v, k + 1)
  BY <1>1, <1>2 DEF TableAt
<1>5. Script[k].op # "setOutName" /\ OutAt(v, k) => OutAt(v, k + 1)
  BY <1>1 DEF OutAt
<1>6. Script[k].op # "setFlag" /\ FlagsAt(v, k) => FlagsAt(v, k + 1)
  BY <1>1 DEF FlagsAt
<1>7. Script[k].op # "shouldLink" /\ LinkAt(v, k) => LinkAt(v, k + 1)
  BY <1>1 DEF LinkAt
<1> QED BY <1>3, <1>4, <1>5, <1>6, <1>7

Calls == AddSourceDir \/ SetMainFile \/ SetOutName \/ SetFlag \/ AddLinkerFlag \/ ShouldLink \/ Verify

LEMMA CallStep ==
  ASSUME input \in Input, i \in Nat \ {0}, InfoAt(info, i), Calls
  PROVE  InfoAt(info', i + 1) /\ i \in DOMAIN Script /\ i' = i + 1
<1>1. i \in DOMAIN Script /\ i' = i + 1 /\ Operand = Script[i].of /\ i \in 1 .. Len(Script)
  <2>1. i <= Len(Script) /\ i' = i + 1
    BY DEF Calls, AddSourceDir, SetMainFile, SetOutName, SetFlag, AddLinkerFlag, ShouldLink, Verify,
           InScript, Called, Script
  <2> QED BY <2>1, ScriptIs DEF Operand, Script
<1> DEFINE op == Script[i].op
<1>2. /\ HasFields(info) /\ MainAt(info.mainFile, i) /\ TableAt(info.table, i)
      /\ OutAt(info.outName, i) /\ FlagsAt(info.flags, i) /\ LinkAt(info.link, i)
      /\ info.emitPath = None /\ info.native = {} /\ info.live = {}
  BY DEF InfoAt
<1>3. CASE AddSourceDir
  <2>1. op = "addSourceDir" /\ Operand \in Dir
        /\ info' = [info EXCEPT !.table = With(info.table, input.files[Operand], TRUE),
                                !.isMain = (info.isMain \ input.files[Operand])
                                             \cup (input.files[Operand] \cap {info.mainFile})]
    BY <1>3 DEF AddSourceDir, InScript, Script
  <2>2. /\ HasFields(info') /\ info'.table = With(info.table, input.files[Operand], TRUE)
        /\ info'.mainFile = info.mainFile /\ info'.outName = info.outName
        /\ info'.flags = info.flags /\ info'.link = info.link /\ info'.emitPath = info.emitPath
        /\ info'.native = info.native /\ info'.live = info.live
    BY <1>2, <2>1 DEF HasFields
  <2>3. TableAt(info'.table, i + 1)
    <3>1. ListedBefore(i + 1) = ListedBefore(i) \cup input.files[Operand]
      BY <1>1, <2>1, ListedNext
    <3>2. OperandsBefore("setMainFile", i + 1) = OperandsBefore("setMainFile", i)
      BY <1>1, <2>1, SaidNext
    <3> QED BY <1>2, <2>2, <3>1, <3>2 DEF TableAt, With
  <2> QED BY <1>1, <1>2, <2>1, <2>2, <2>3, Uncalled DEF InfoAt
<1>4. CASE SetMainFile
  <2> DEFINE known == Operand \in DOMAIN info.table /\ info.table[Operand]
  <2>1. op = "setMainFile"
        /\ info' = [info EXCEPT !.mainFile = Operand,
                                !.table = IF known THEN info.table ELSE With(info.table, {Operand}, FALSE),
                                !.isMain = IF known THEN info.isMain \cup {Operand} ELSE info.isMain]
    BY <1>4 DEF SetMainFile, InScript, Script
  <2> HIDE DEF known
  <2>2. /\ HasFields(info') /\ info'.mainFile = Operand
        /\ info'.table = IF known THEN info.table ELSE With(info.table, {Operand}, FALSE)
        /\ info'.outName = info.outName /\ info'.flags = info.flags /\ info'.link = info.link
        /\ info'.emitPath = info.emitPath /\ info'.native = info.native /\ info'.live = info.live
    BY <1>2, <2>1 DEF HasFields
  <2>3. /\ ListedBefore(i + 1) = ListedBefore(i)
        /\ OperandsBefore("setMainFile", i + 1) = OperandsBefore("setMainFile", i) \cup {Operand}
    BY <1>1, <2>1, ListedNext, SaidNext
  <2>4. MainAt(info'.mainFile, i + 1)
    BY <2>2, <2>3 DEF MainAt
  <2>5. known <=> Operand \in ListedBefore(i)
    BY <1>2 DEF TableAt, known
  <2>6. TableAt(info'.table, i + 1)
    <3>1. CASE known
      BY <1>2, <2>2, <2>3, <2>5, <3>1 DEF TableAt
    <3>2. CASE ~ known
      <4> DEFINE old == info.table
                 new == With(old, {Operand}, FALSE)
      <4>1. /\ DOMAIN old = ListedBefore(i) \cup OperandsBefore("setMainFile", i)
            /\ \A p \in DOMAIN old : IF p \in ListedBefore(i) THEN old[p] = TRUE ELSE old[p] = FALSE
        BY <1>2 DEF TableAt
      <4>2. info'.table = new /\ Operand \notin ListedBefore(i)
        BY <2>2, <2>5, <3>2
      <4>3. /\ DOMAIN new = DOMAIN old \cup {Operand}
            /\ \A p \in DOMAIN new : new[p] = IF p = Operand THEN FALSE ELSE old[p]
        BY DEF With
      <4> HIDE DEF old, new
      <4>4. DOMAIN new = ListedBefore(i + 1) \cup OperandsBefore("setMainFile", i + 1)
        BY <2>3, <4>1, <4>3
      <4>5. ASSUME NEW p \in DOMAIN new
            PROVE  IF p \in ListedBefore(i + 1) THEN new[p] = TRUE ELSE new[p] = FALSE
        <5>1. CASE p = Operand
          BY <2>3, <4>2, <4>3, <5>1
        <5>2. CASE p # Operand
          BY <2>3, <4>1, <4>3, <5>2
        <5> QED BY <5>1, <5>2
      <4> QED BY <4>2, <4>4, <4>5 DEF TableAt
    <3> QED BY <3>1, <3>2
  <2> QED BY <1>1, <1>2, <2>1, <2>2, <2>4, <2>6, Uncalled DEF InfoAt
<1>5. CASE SetOutName
  <2>1. op = "setOutName" /\ info' = [info EXCEPT !.outName = [kind |-> "word", name |-> Operand]]
    BY <1>5 DEF SetOutName, InScript, Script
  <2>2. /\ HasFields(info') /\ info'.outName = [kind |-> "word", name |-> Operand]
        /\ info'.mainFile = info.mainFile /\ info'.table = info.table /\ info'.flags = info.flags
        /\ info'.link = info.link /\ info'.emitPath = info.emitPath /\ info'.native = info.native
        /\ info'.live = info.live
    BY <1>2, <2>1 DEF HasFields
  <2>3. OutAt(info'.outName, i + 1)
    BY <1>1, <2>1, <2>2, SaidNext DEF OutAt
  <2> QED BY <1>1, <1>2, <2>1, <2>2, <2>3, Uncalled DEF InfoAt
<1>6. CASE SetFlag
  <2>1. op = "setFlag" /\ info' = [info EXCEPT !.flags = {Operand}]
    BY <1>6 DEF SetFlag, InScript, Script
  <2>2. /\ HasFields(info') /\ info'.flags = {Operand} /\ info'.mainFile = info.mainFile
        /\ info'.table = info.table /\ info'.outName = info.outName /\ info'.link = info.link
        /\ info'.emitPath = info.emitPath /\ info'.native = info.native /\ info'.live = info.live
    BY <1>2, <2>1 DEF HasFields
  <2>3. FlagsAt(info'.flags, i + 1)
    BY <1>1, <2>1, <2>2, SaidNext DEF FlagsAt
  <2> QED BY <1>1, <1>2, <2>1, <2>2, <2>3, Uncalled DEF InfoAt
<1>7. CASE ShouldLink
  <2>1. op = "shouldLink" /\ info' = [info EXCEPT !.link = (Operand = "true")]
    BY <1>7 DEF ShouldLink, InScript, Script
  <2>2. /\ HasFields(info') /\ info'.link = (Operand = "true") /\ info'.mainFile = info.mainFile
        /\ info'.table = info.table /\ info'.outName = info.outName /\ info'.flags = info.flags
        /\ info'.emitPath = info.emitPath /\ info'.native = info.native /\ info'.live = info.live
    BY <1>2, <2>1 DEF HasFields
  <2>3. LinkAt(info'.link, i + 1)
    BY <1>1, <2>1, <2>2, SaidNext DEF LinkAt
  <2> QED BY <1>1, <1>2, <2>1, <2>2, <2>3, Uncalled DEF InfoAt
<1>8. CASE AddLinkerFlag
  <2>1. op = "addLinkerFlag"
        /\ info' = [info EXCEPT !.linker = Append(info.linker, [kind |-> "word", name |-> Operand])]
    BY <1>8 DEF AddLinkerFlag, InScript, Script
  <2> DEFINE v == [kind |-> "word", name |-> Operand]
             longer == Append(info.linker, v)
  <2>3. longer \in Seq(Arg)
    <3>1. v \in Arg
      <4>1. Operand \in STRING
        BY <1>1, ScriptIs DEF Call
      <4> QED BY <4>1 DEF Arg
    <3>2. info.linker \in Seq(Arg)
      BY <1>2 DEF HasFields
    <3> HIDE DEF v
    <3> QED BY <3>1, <3>2
  <2>4. info' = [info EXCEPT !.linker = longer]
    BY <2>1
  <2> HIDE DEF v, longer
  <2>2. /\ HasFields(info') /\ info'.mainFile = info.mainFile /\ info'.table = info.table
        /\ info'.outName = info.outName /\ info'.flags = info.flags /\ info'.link = info.link
        /\ info'.emitPath = info.emitPath /\ info'.native = info.native /\ info'.live = info.live
    BY <1>2, <2>3, <2>4 DEF HasFields
  <2> QED BY <1>1, <1>2, <2>1, <2>2, Uncalled DEF InfoAt
<1>9. CASE Verify
  <2>1. op = "verify" /\ info' = info
    BY <1>9 DEF Verify, InScript, Script
  <2> QED BY <1>1, <1>2, <2>1, Uncalled DEF InfoAt
<1> QED BY <1>1, <1>3, <1>4, <1>5, <1>6, <1>7, <1>8, <1>9 DEF Calls

LEMMA InfoBegins ==
  ASSUME input \in Input
  PROVE  InfoAt(NewInfo, 1) /\ RunsTo(1)
<1>1. \A t \in DOMAIN Script : ~ (t < 1)
  BY ScriptIs
<1>2. \A op : SaidBefore(op, 1) = {} /\ OperandsBefore(op, 1) = {}
  BY <1>1 DEF SaidBefore, Said, OperandsBefore, Script
<1>3. ListedBefore(1) = {}
  BY <1>2 DEF ListedBefore
<1>4. HasFields(NewInfo) /\ NewInfo.mainFile = "" /\ NewInfo.table = <<>> /\ NewInfo.outName = None
      /\ NewInfo.flags = {} /\ NewInfo.link = TRUE /\ NewInfo.emitPath = None
      /\ NewInfo.native = {} /\ NewInfo.live = {}
  BY DEF HasFields, NewInfo
<1>5. DOMAIN <<>> = {}
  OBVIOUS
<1>6. TableAt(<<>>, 1)
  BY <1>2, <1>3, <1>5 DEF TableAt
<1>7. MainAt("", 1) /\ OutAt(None, 1) /\ FlagsAt({}, 1) /\ LinkAt(TRUE, 1)
  BY <1>2 DEF MainAt, OutAt, FlagsAt, LinkAt
<1>8. RunsTo(1)
  BY <1>1 DEF RunsTo
<1> QED BY <1>4, <1>6, <1>7, <1>8 DEF InfoAt

LEMMA CallRuns ==
  ASSUME input \in Input, i \in Nat \ {0}, InfoAt(info, i), RunsTo(i), Calls
  PROVE  RunsTo(i + 1)
<1>1. i \in DOMAIN Script /\ Operand = Script[i].of
  BY CallStep DEF Operand, Script
<1>2. ASSUME Script[i].op = "addSourceDir" PROVE Script[i].of \in Dir
  BY <1>1, <1>2 DEF Calls, AddSourceDir, SetMainFile, SetOutName, SetFlag, AddLinkerFlag, ShouldLink, Verify,
                    InScript, Script
<1>3. ASSUME Script[i].op = "verify" PROVE \E j \in 1 .. i - 1 : Script[j].op = "setMainFile"
  <2>1. info.mainFile # ""
    BY <1>3 DEF Calls, AddSourceDir, SetMainFile, SetOutName, SetFlag, AddLinkerFlag, ShouldLink, Verify,
                InScript, Script
  <2>2. OperandsBefore("setMainFile", i) # {}
    BY <2>1 DEF InfoAt, MainAt
  <2>3. PICK t \in SaidBefore("setMainFile", i) : TRUE
    BY <2>2 DEF OperandsBefore
  <2>4. t \in DOMAIN Script /\ Script[t].op = "setMainFile" /\ t < i
    BY <2>3 DEF SaidBefore, Said, Script
  <2>5. t \in 1 .. i - 1
    BY <2>4, ScriptIs
  <2> QED BY <2>4, <2>5
<1>4. \A t \in DOMAIN Script : t < i + 1 => t < i \/ t = i
  BY ScriptIs
<1> QED BY <1>2, <1>3, <1>4 DEF RunsTo

\* A call that fails is one that no accepted script makes.
LEMMA CallFails ==
  ASSUME input \in Input, i \in Nat \ {0}, InfoAt(info, i), NoBuild \/ NoSuchDir \/ VerifyFails
  PROVE  ~ (ScriptRuns /\ MainsListed)
<1>1. CASE NoBuild
  BY <1>1 DEF NoBuild, ScriptRuns
<1>2. CASE NoSuchDir
  <2>1. i \in DOMAIN Script /\ Script[i].op = "addSourceDir" /\ Script[i].of \notin Dir
    BY <1>2, ScriptIs DEF NoSuchDir, InScript, Operand, Script
  <2> QED BY <2>1 DEF ScriptRuns, Script
<1>3. CASE VerifyFails
  <2>0. Script[i].op = "verify" /\ info.mainFile = ""
    BY <1>3 DEF VerifyFails, InScript, Script
  <2>1. i \in DOMAIN Script /\ i \in 1 .. Len(Script) /\ Len(Script) \in Nat
    <3>1. Len(Script) \in Nat /\ DOMAIN Script = 1 .. Len(Script)
      BY ScriptIs
    <3>2. i <= Len(Script)
      BY <1>3 DEF VerifyFails, InScript, Script
    <3> HIDE DEF Script
    <3>3. i \in 1 .. Len(Script)
      BY <3>1, <3>2
    <3> QED BY <3>1, <3>3
  <2>2. OperandsBefore("setMainFile", i) = {} \/ "" \in OperandsBefore("setMainFile", i)
    BY <2>0 DEF InfoAt, MainAt
  <2>3. CASE OperandsBefore("setMainFile", i) = {}
    <3>1. SaidBefore("setMainFile", i) = {}
      BY <2>3 DEF OperandsBefore
    <3>2. ASSUME NEW j \in 1 .. i - 1 PROVE Script[j].op # "setMainFile"
      <4>1. j \in DOMAIN Script /\ j < i
        BY <2>1, ScriptIs
      <4> QED BY <3>1, <4>1 DEF SaidBefore, Said, Script
    <3> QED BY <2>0, <2>1, <3>2 DEF ScriptRuns, Script
  <2>4. CASE "" \in OperandsBefore("setMainFile", i)
    <3>1. "" \in Operands("setMainFile")
      BY <2>4 DEF OperandsBefore, SaidBefore, Operands, Said, Script
    <3>2. Listed \subseteq Path
      BY ScriptIs DEF Listed
    <3> QED BY <3>1, <3>2, PathAssumption DEF MainsListed
  <2> QED BY <2>2, <2>3, <2>4
<1> QED BY <1>1, <1>2, <1>3

\* All calls are made.
LEMMA AllSaid ==
  ASSUME input \in Input, i > Len(Script), i \in Nat
  PROVE  /\ \A op : SaidBefore(op, i) = Said(op) /\ OperandsBefore(op, i) = Operands(op)
         /\ ListedBefore(i) = Listed
         /\ RunsTo(i) /\ input.build => ScriptRuns
<1>1. \A t \in DOMAIN Script : t < i
  BY ScriptIs
<1>2. \A op : SaidBefore(op, i) = Said(op) /\ OperandsBefore(op, i) = Operands(op)
  BY <1>1 DEF SaidBefore, OperandsBefore, Said, Operands, Script
<1>3. ListedBefore(i) = Listed
  BY <1>2 DEF ListedBefore, Listed
<1>4. RunsTo(i) /\ input.build => ScriptRuns
  BY <1>1 DEF RunsTo, ScriptRuns, Script
<1> QED BY <1>2, <1>3, <1>4

LEMMA TableComplete ==
  ASSUME input \in Input, i > Len(Script), i \in Nat, InfoAt(info, i)
  PROVE  /\ (\A p \in DOMAIN info.table : info.table[p]) <=> MainsListed
         /\ MainsListed => DOMAIN info.table = Listed
<1>1. ListedBefore(i) = Listed /\ OperandsBefore("setMainFile", i) = Operands("setMainFile")
  BY AllSaid
<1>2. /\ DOMAIN info.table = Listed \cup Operands("setMainFile")
      /\ \A p \in DOMAIN info.table : IF p \in Listed THEN info.table[p] = TRUE ELSE info.table[p] = FALSE
  BY <1>1 DEF InfoAt, TableAt
<1>3. \A p \in DOMAIN info.table : info.table[p] <=> p \in Listed
  BY <1>2
<1> QED BY <1>2, <1>3 DEF MainsListed

-----------------------------------------------------------------------------
(***************************************************************************)
(* What the script leaves, and the options of the command line, applied to *)
(* it in their order.                                                      *)
(***************************************************************************)
ScriptOut ==
  IF LastSaid("setOutName") = <<>> THEN None ELSE [kind |-> "word", name |-> LastSaid("setOutName")[1]]
ScriptFlags == IF LastSaid("setFlag") = <<>> THEN {} ELSE {LastSaid("setFlag")[1]}
ScriptLinks == LastSaid("shouldLink") \in {<<>>, <<"true">>}
ScriptNative == IF HasScript THEN Listed \ Live ELSE {}
Lists(paths) == {Obj("list", p, 0) : p \in paths}

Starts(in) ==
  /\ HasFields(in)
  /\ in.outName = ScriptOut /\ in.flags = ScriptFlags /\ in.link = ScriptLinks /\ in.emitPath = None
  /\ in.native = Lists(ScriptNative) /\ in.live = Lists(LiveFiles)

LEMMA NoScriptStarts ==
  ASSUME ~ HasScript
  PROVE  Starts(NewInfo)
<1>1. \A op : LastSaid(op) = <<>>
  BY DEF LastSaid
<1>2. ScriptOut = None /\ ScriptFlags = {} /\ ScriptLinks = TRUE
  BY <1>1 DEF ScriptOut, ScriptFlags, ScriptLinks
<1>3. ScriptNative = {} /\ LiveFiles = {} /\ Lists({}) = {}
  BY DEF ScriptNative, LiveFiles, Lists
<1>4. HasFields(NewInfo) /\ NewInfo.outName = None /\ NewInfo.flags = {} /\ NewInfo.link = TRUE
      /\ NewInfo.emitPath = None /\ NewInfo.native = {} /\ NewInfo.live = {}
  BY DEF HasFields, NewInfo
<1> QED BY <1>2, <1>3, <1>4 DEF Starts

\* At the end of the script: modify()
LEMMA ScriptStarts ==
  ASSUME input \in Input, HasScript, i \in Nat, InfoAt(info, i), Modify
  PROVE  MainsListed /\ Starts(info')
<1>1. i > Len(Script)
  BY DEF Modify, ScriptEnds, Script
<1>2. MainsListed
  BY <1>1, TableComplete DEF Modify
<1>3. DOMAIN info.table = Listed
  BY <1>1, <1>2, TableComplete
<1>4. /\ HasFields(info) /\ OutAt(info.outName, i) /\ FlagsAt(info.flags, i) /\ LinkAt(info.link, i)
      /\ info.emitPath = None
  BY DEF InfoAt
<1>5. /\ HasFields(info') /\ info'.outName = info.outName /\ info'.flags = info.flags
      /\ info'.link = info.link /\ info'.emitPath = info.emitPath
      /\ info'.native = {Obj("list", p, 0) : p \in Listed \ Live}
      /\ info'.live = {Obj("list", p, 0) : p \in Listed \cap Live}
  BY <1>3, <1>4 DEF Modify, HasFields
<1>6. \A op : SaidBefore(op, i) = Said(op)
  BY <1>1, AllSaid
<1>7. \A op : LastSaid(op) = IF SaidBefore(op, i) = {} THEN <<>> ELSE <<LatestBefore(op, i)>>
  BY <1>6 DEF LastSaid, LatestBefore, Script
<1>8. \A v : <<v>>[1] = v /\ <<v>> # <<>> /\ (<<v>> = <<"true">> <=> v = "true")
  OBVIOUS
<1>9. info.outName = ScriptOut
  BY <1>4, <1>7, <1>8 DEF OutAt, ScriptOut
<1>10. info.flags = ScriptFlags
  BY <1>4, <1>7, <1>8 DEF FlagsAt, ScriptFlags
<1>11. info.link = ScriptLinks
  <2>1. CASE SaidBefore("shouldLink", i) = {}
    <3>1. LastSaid("shouldLink") = <<>> /\ info.link = TRUE
      BY <1>4, <1>7, <2>1 DEF LinkAt
    <3> QED BY <3>1 DEF ScriptLinks
  <2>2. CASE SaidBefore("shouldLink", i) # {}
    <3> DEFINE said == LatestBefore("shouldLink", i)
    <3>1. LastSaid("shouldLink") = <<said>> /\ info.link = (said = "true")
      BY <1>4, <1>7, <2>2 DEF LinkAt
    <3> HIDE DEF said
    <3>2. ScriptLinks <=> said = "true"
      BY <1>8, <3>1 DEF ScriptLinks
    <3>3. ScriptLinks = (said = "true")
      BY <3>2 DEF ScriptLinks
    <3> QED BY <3>1, <3>3
  <2> QED BY <2>1, <2>2
<1>12. info'.native = Lists(ScriptNative) /\ info'.live = Lists(LiveFiles)
  BY <1>5 DEF Lists, ScriptNative, LiveFiles
<1> QED BY <1>2, <1>4, <1>5, <1>9, <1>10, <1>11, <1>12 DEF Starts

Given == OptionsBefore(argc)
GivenTo(j) == {InOrder(Given)[x] : x \in 1 .. j - 1}
GivenOf(letter, j) == {k \in GivenTo(j) : Letter(args[k]) = letter}

AppliedAt(in, j) ==
  /\ j \in 1 .. Cardinality(Given) + 1 /\ HasFields(in)
  /\ in.outName = IF GivenOf("o", j) = {} THEN ScriptOut ELSE args[Max(GivenOf("o", j)) + 1]
  /\ in.link = (GivenOf("c", j) = {} /\ ScriptLinks)
  /\ in.emitPath = None <=> GivenOf("e", j) = {}
  /\ in.flags = ScriptFlags /\ in.native = Lists(ScriptNative) /\ in.live = Lists(LiveFiles)
  /\ \A k \in GivenOf("I", j) : IsDir(args[k + 1])

LEMMA GivenAre ==
  ASSUME input \in Input, ReadTo(argc, files, params, longs)
  PROVE  /\ Cardinality(Given) \in Nat /\ Len(params) = Cardinality(Given)
         /\ InOrder(Given) \in [1 .. Cardinality(Given) -> Given]
         /\ \A j \in 1 .. Cardinality(Given) : params[j] = ParamAt(InOrder(Given)[j])
         /\ \A x, y \in 1 .. Cardinality(Given) : x < y => InOrder(Given)[x] < InOrder(Given)[y]
         /\ \A k \in Given : \E x \in 1 .. Cardinality(Given) : InOrder(Given)[x] = k
         /\ Given = {t \in Read : IsOption(args[t])} /\ Given \in SUBSET Positions
         /\ \A k \in Given : Wants(args[k]) => k + 1 \in Positions /\ args[k + 1] \in Arg /\ args[k + 1] # None
<1> DEFINE n == Cardinality(Given)
           q == InOrder(Given)
<1>1. Sorted(Given) /\ params = Mapped(Pars, Given)
  BY DEF ReadTo, Given
<1>2. n \in Nat /\ Ascends(q, n, Given)
  BY <1>1, FS_CardinalityType DEF Sorted, Enumerated
<1>3. Given = {t \in Read : IsOption(args[t])} /\ Given \in SUBSET Positions
  BY Arguments DEF Given, OptionsBefore, Read
<1>4. params = [j \in 1 .. n |-> Pars[q[j]]]
  BY <1>1 DEF Mapped
<1> HIDE DEF n, q
<1>5. q \in [1 .. n -> Given]
  BY <1>2 DEF Ascends
<1>6. \A j \in 1 .. n : params[j] = ParamAt(q[j])
  BY <1>3, <1>4, <1>5 DEF Pars
<1>7. Len(params) = n
  BY <1>2, <1>4
<1>8. ASSUME NEW k \in Given, Wants(args[k]) PROVE k + 1 \in Positions /\ args[k + 1] \in Arg /\ args[k + 1] # None
  <2>1. k \in WantsValue /\ k \in Read
    BY <1>3, <1>8 DEF WantsValue
  <2>2. k \notin Faulty
    BY SourcesRead
  <2>3. k # Len(args)
    BY <2>1, <2>2 DEF Faulty, AtEnd
  <2>4. k + 1 \in Positions
    BY <1>3, <2>3, Arguments
  <2> QED BY <2>4, Arguments
<1> QED BY <1>2, <1>3, <1>5, <1>6, <1>7, <1>8 DEF n, q, Ascends

LEMMA GivenBegins ==
  ASSUME input \in Input, ReadTo(argc, files, params, longs)
  PROVE  \A letter : GivenOf(letter, 1) = {} /\ GivenOf(letter, Cardinality(Given) + 1) = OptionsAt(letter)
<1>1. GivenTo(1) = {}
  BY DEF GivenTo
<1> DEFINE n == Cardinality(Given)
           q == InOrder(Given)
<1>2. n \in Nat /\ q \in [1 .. n -> Given] /\ (\A k \in Given : \E x \in 1 .. n : q[x] = k)
      /\ Given = {t \in Read : IsOption(args[t])}
  BY GivenAre
<1>3. GivenTo(n + 1) = {q[x] : x \in 1 .. n}
  <2>1. 1 .. (n + 1) - 1 = 1 .. n
    BY <1>2
  <2> QED BY <2>1 DEF GivenTo
<1> HIDE DEF n, q
<1>4. GivenTo(n + 1) = Given
  BY <1>2, <1>3
<1> QED BY <1>1, <1>2, <1>4 DEF GivenOf, OptionsAt, n

LEMMA GivenNext ==
  ASSUME input \in Input, ReadTo(argc, files, params, longs), NEW j \in 1 .. Cardinality(Given), NEW letter
  PROVE  /\ GivenOf(letter, j + 1) = IF Letter(args[InOrder(Given)[j]]) = letter
                                       THEN GivenOf(letter, j) \cup {InOrder(Given)[j]} ELSE GivenOf(letter, j)
         /\ Letter(args[InOrder(Given)[j]]) = letter => Max(GivenOf(letter, j + 1)) = InOrder(Given)[j]
<1> DEFINE n == Cardinality(Given)
           q == InOrder(Given)
           S == GivenOf(letter, j + 1)
<1>1. /\ n \in Nat /\ q \in [1 .. n -> Given] /\ Given \in SUBSET Positions
      /\ \A x, y \in 1 .. n : x < y => q[x] < q[y]
  BY GivenAre
<1>2. j \in 1 .. n /\ GivenTo(j + 1) = {q[x] : x \in 1 .. (j + 1) - 1} /\ GivenTo(j) = {q[x] : x \in 1 .. j - 1}
  BY DEF GivenTo
<1> HIDE DEF n, q
<1>3. GivenTo(j + 1) = GivenTo(j) \cup {q[j]}
  <2>1. 1 .. (j + 1) - 1 = (1 .. j - 1) \cup {j}
    BY <1>1, <1>2
  <2> QED BY <1>2, <2>1
<1>4. S = IF Letter(args[q[j]]) = letter THEN GivenOf(letter, j) \cup {q[j]} ELSE GivenOf(letter, j)
  BY <1>3 DEF GivenOf
<1>5. ASSUME Letter(args[q[j]]) = letter PROVE Max(S) = q[j]
  <2>1. S = GivenOf(letter, j) \cup {q[j]} /\ q[j] \in S
    BY <1>4, <1>5
  <2>2. Given \in SUBSET Int
    BY <1>1, Arguments
  <2>3. ASSUME NEW y \in GivenTo(j + 1) PROVE y \in Int /\ y <= q[j]
    <3>1. PICK x \in 1 .. j : y = q[x]
      BY <1>1, <1>2, <2>3
    <3>0. x \in 1 .. n
      BY <1>1, <1>2
    <3>2. x \in 1 .. n /\ q[x] \in Int /\ q[j] \in Int
      <4>1. q[x] \in Given /\ q[j] \in Given
        BY <1>1, <1>2, <3>0
      <4> QED BY <2>2, <3>0, <4>1
    <3>3. CASE x = j
      BY <3>1, <3>2, <3>3
    <3>4. CASE x # j
      <4>1. q[x] < q[j]
        BY <1>1, <1>2, <3>2, <3>4
      <4> QED BY <3>1, <3>2, <4>1
    <3> QED BY <3>3, <3>4
  <2>4. S \in SUBSET Int /\ \A y \in S : y <= q[j]
    BY <2>3 DEF GivenOf
  <2> HIDE DEF S
  <2> QED BY <2>1, <2>4, MaxIs
<1> QED BY <1>4, <1>5 DEF q

LEMMA Applies ==
  ASSUME input \in Input, ReadTo(argc, files, params, longs), AppliedAt(info, i), ApplyNext
  PROVE  AppliedAt(info', i + 1)
<1> DEFINE n == Cardinality(Given)
           k == InOrder(Given)[i]
           letter == Letter(args[k])
<1>1. i \in 1 .. n /\ n \in Nat
  <2>1. i <= n /\ n \in Nat
    BY GivenAre DEF ApplyNext, InParams
  <2> QED BY <2>1 DEF AppliedAt
<1>2. k \in Given /\ k \in Positions /\ params[i] = <<letter, IF Wants(args[k]) THEN args[k + 1] ELSE None>>
  BY <1>1, GivenAre DEF ParamAt
<1>3. params[i][1] = letter /\ params[i][2] = IF Wants(args[k]) THEN args[k + 1] ELSE None
  BY <1>2
<1>4. Wants(args[k]) <=> letter \in {"o", "L", "I", "e"}
  BY DEF Wants, TakesValue
<1>5. Wants(args[k]) => args[k + 1] # None
  BY <1>2, GivenAre
<1>6. \A l : GivenOf(l, i + 1) = IF letter = l THEN GivenOf(l, i) \cup {k} ELSE GivenOf(l, i)
  BY <1>1, GivenNext
<1>7. Max(GivenOf(letter, i + 1)) = k
  BY <1>1, GivenNext
<1>8. info' = ApplyParam(info, params[i]) /\ (letter = "I" => IsDir(params[i][2]))
  BY <1>3 DEF ApplyNext, BadInclude
<1>16. letter = "L" => params[i][2] \in Arg
  BY <1>2, <1>3, <1>4, GivenAre
<1> HIDE DEF k, letter, n
<1>17. letter = "L" => Append(info.linker, params[i][2]) \in Seq(Arg)
  <2>1. info.linker \in Seq(Arg)
    BY DEF AppliedAt, HasFields
  <2> QED BY <1>16, <2>1
<1>9. /\ HasFields(info)
      /\ info.outName = IF GivenOf("o", i) = {} THEN ScriptOut ELSE args[Max(GivenOf("o", i)) + 1]
      /\ info.link = (GivenOf("c", i) = {} /\ ScriptLinks)
      /\ info.emitPath = None <=> GivenOf("e", i) = {}
      /\ info.flags = ScriptFlags /\ info.native = Lists(ScriptNative) /\ info.live = Lists(LiveFiles)
      /\ \A t \in GivenOf("I", i) : IsDir(args[t + 1])
  BY DEF AppliedAt
<1>10. /\ HasFields(info') /\ info'.flags = info.flags /\ info'.native = info.native /\ info'.live = info.live
       /\ info'.outName = IF letter = "o" THEN params[i][2] ELSE info.outName
       /\ info'.link = IF letter = "c" THEN FALSE ELSE info.link
       /\ info'.emitPath = IF letter = "e" THEN params[i][2] ELSE info.emitPath
  BY <1>3, <1>8, <1>9, <1>17 DEF ApplyParam, HasFields
<1>11. info'.outName = IF GivenOf("o", i + 1) = {} THEN ScriptOut ELSE args[Max(GivenOf("o", i + 1)) + 1]
  BY <1>3, <1>4, <1>6, <1>7, <1>9, <1>10
<1>12. info'.link = (GivenOf("c", i + 1) = {} /\ ScriptLinks)
  BY <1>6, <1>9, <1>10
<1>13. info'.emitPath = None <=> GivenOf("e", i + 1) = {}
  BY <1>3, <1>4, <1>5, <1>6, <1>9, <1>10
<1>14. \A t \in GivenOf("I", i + 1) : IsDir(args[t + 1])
  BY <1>3, <1>4, <1>6, <1>8, <1>9
<1>15. i + 1 \in 1 .. n + 1
  BY <1>1
<1> QED BY <1>9, <1>10, <1>11, <1>12, <1>13, <1>14, <1>15 DEF AppliedAt, n

LEMMA ApplyBegins ==
  ASSUME input \in Input, ReadTo(argc, files, params, longs), Starts(info), EnterFiles
  PROVE  AppliedAt(info', 1)
<1>1. /\ HasFields(info) /\ info.outName = ScriptOut /\ info.flags = ScriptFlags /\ info.link = ScriptLinks
      /\ info.emitPath = None /\ info.native = Lists(ScriptNative) /\ info.live = Lists(LiveFiles)
  BY DEF Starts
<1>2. PICK t : info' = [info EXCEPT !.table = t]
  BY DEF EnterFiles
<1>3. /\ HasFields(info') /\ info'.outName = info.outName /\ info'.flags = info.flags /\ info'.link = info.link
      /\ info'.emitPath = info.emitPath /\ info'.native = info.native /\ info'.live = info.live
  BY <1>1, <1>2 DEF HasFields
<1>4. \A letter : GivenOf(letter, 1) = {}
  BY GivenBegins
<1>5. Cardinality(Given) \in Nat
  BY GivenAre
<1>6. info'.link = (GivenOf("c", 1) = {} /\ ScriptLinks)
  BY <1>1, <1>3, <1>4 DEF ScriptLinks
<1>7. 1 \in 1 .. Cardinality(Given) + 1
  BY <1>5
<1> QED BY <1>1, <1>3, <1>4, <1>6, <1>7 DEF AppliedAt

\* A directory to include that does not exist
LEMMA IncludeMissing ==
  ASSUME input \in Input, ReadTo(argc, files, params, longs), AppliedAt(info, i), ApplyFails
  PROVE  ~ IncludesExist
<1> DEFINE k == InOrder(Given)[i]
<1>1. i \in 1 .. Cardinality(Given)
  <2>1. i <= Cardinality(Given) /\ Cardinality(Given) \in Nat
    BY GivenAre DEF ApplyFails, InParams
  <2> QED BY <2>1 DEF AppliedAt
<1>2. k \in Given /\ k \in Read /\ IsOption(args[k]) /\ params[i] = ParamAt(k)
  BY <1>1, GivenAre
<1> HIDE DEF k
<1>3. Letter(args[k]) = "I" /\ ~ IsDir(params[i][2])
  BY <1>2 DEF ApplyFails, BadInclude, ParamAt
<1>4. params[i][2] = args[k + 1]
  BY <1>2, <1>3 DEF ParamAt, Wants, TakesValue
<1>5. k \in OptionsAt("I")
  BY <1>2, <1>3 DEF OptionsAt
<1> QED BY <1>3, <1>4, <1>5 DEF IncludesExist

-----------------------------------------------------------------------------
(***************************************************************************)
(* The files that are compiled.                                            *)
(***************************************************************************)
LEMMA ToSetFinite ==
  ASSUME AreSources(files)
  PROVE  /\ IsFiniteSet(ToSet(files)) /\ ToSet(files) = {files[j] : j \in 1 .. Len(files)}
         /\ IsFiniteSet(file_table) /\ file_table \subseteq ToSet(files)
<1> DEFINE N == Len(files)
<1>1. N \in Nat /\ DOMAIN files = 1 .. N
  BY DEF AreSources
<1>2. ToSet(files) = {files[j] : j \in 1 .. N}
  BY <1>1 DEF ToSet
<1> HIDE DEF N
<1>3. files \in Surjection(1 .. N, ToSet(files))
  BY <1>1, <1>2 DEF Surjection, AreSources, N
<1>4. IsFiniteSet(1 .. N)
  BY <1>1, FS_Interval
<1>5. IsFiniteSet(ToSet(files))
  BY <1>3, <1>4, FS_Surjection
<1>6. file_table \in SUBSET ToSet(files)
  BY DEF file_table
<1>7. IsFiniteSet(file_table)
  BY <1>5, <1>6, FS_Subset
<1> QED BY <1>2, <1>5, <1>6, <1>7 DEF N

\* The table has an object of every path.
LEMMA TableHasAll ==
  ASSUME AreSources(files), SourcesFit
  PROVE  {o.path : o \in file_table} = {args[Sources[j]].name : j \in DOMAIN Sources}
<1> DEFINE N == Len(files)
<1>1. /\ N \in Nat /\ DOMAIN Sources = 1 .. N /\ Len(Sources) = N
      /\ \A j \in 1 .. N : files[j].path = args[Sources[j]].name /\ files[j].n \in Nat
  BY DEF AreSources, Object
<1>2. ToSet(files) = {files[j] : j \in 1 .. N} /\ file_table \subseteq ToSet(files)
  BY ToSetFinite
<1>3. N \in 0 .. 2
  BY <1>1 DEF SourcesFit
<1> HIDE DEF N
<1>4. ASSUME NEW j \in 1 .. N PROVE \E o \in file_table : o.path = files[j].path
  <2>1. ASSUME NEW k \in 1 .. N, files[k].path = files[j].path, files[k].n >= files[j].n,
               k = j => \A l \in 1 .. N : files[l].path = files[j].path => files[l].n <= files[j].n
        PROVE  files[k] \in file_table
    <3>1. ASSUME NEW l \in 1 .. N, files[l].path = files[k].path PROVE files[l].n <= files[k].n
      <4>1. CASE l = j
        BY <1>1, <2>1, <4>1
      <4>2. CASE l = k
        BY <1>1, <4>2
      <4>3. CASE l # j /\ l # k
        <5>1. k = j
          BY <1>3, <4>3
        <5> QED BY <2>1, <3>1, <5>1
      <4> QED BY <4>1, <4>2, <4>3
    <3> QED BY <1>2, <3>1 DEF file_table
  <2>2. CASE \A l \in 1 .. N : files[l].path = files[j].path => files[l].n <= files[j].n
    <3>1. files[j] \in file_table
      BY <1>1, <2>1, <2>2
    <3> QED BY <3>1
  <2>3. CASE \E l \in 1 .. N : files[l].path = files[j].path /\ ~ (files[l].n <= files[j].n)
    <3>1. PICK l \in 1 .. N : files[l].path = files[j].path /\ ~ (files[l].n <= files[j].n)
      BY <2>3
    <3>2. files[l].n >= files[j].n /\ l # j
      BY <1>1, <3>1
    <3>3. files[l] \in file_table
      BY <2>1, <3>1, <3>2
    <3> QED BY <3>1, <3>3
  <2> QED BY <2>2, <2>3
<1>5. ASSUME NEW o \in file_table PROVE \E j \in 1 .. N : o.path = args[Sources[j]].name
  BY <1>1, <1>2
<1>6. ASSUME NEW j \in 1 .. N PROVE \E o \in file_table : o.path = args[Sources[j]].name
  BY <1>1, <1>4
<1>7. DOMAIN Sources = 1 .. N
  BY <1>1
<1>8. {o.path : o \in file_table} \subseteq {args[Sources[j]].name : j \in 1 .. N}
  BY <1>5
<1>9. {args[Sources[j]].name : j \in 1 .. N} \subseteq {o.path : o \in file_table}
  BY <1>6
<1> QED BY <1>7, <1>8, <1>9

LEMMA ListsFinite ==
  ASSUME NEW P \in SUBSET Path
  PROVE  /\ IsFiniteSet(Lists(P)) /\ Cardinality(Lists(P)) = Cardinality(P) /\ Cardinality(P) \in Nat
         /\ {o.path : o \in Lists(P)} = P
<1> DEFINE f == [p \in P |-> Obj("list", p, 0)]
<1>1. IsFiniteSet(P) /\ Cardinality(P) \in Nat
  BY PathAssumption, FS_Subset, FS_CardinalityType
<1>2. \A p \in P : f[p].path = p /\ f[p] \in Lists(P)
  BY DEF Lists, Obj
<1>3. \A o \in Lists(P) : \E p \in P : o = f[p]
  BY DEF Lists
<1>4. f \in [P -> Lists(P)]
  BY DEF Lists
<1> HIDE DEF f
<1>5. f \in Bijection(P, Lists(P))
  BY <1>2, <1>3, <1>4 DEF Bijection, Injection, Surjection, IsInjective
<1>6. ExistsBijection(P, Lists(P))
  BY <1>5 DEF ExistsBijection
<1>7. IsFiniteSet(Lists(P)) /\ Cardinality(Lists(P)) = Cardinality(P)
  BY <1>1, <1>6, FS_Bijection
<1>8. {o.path : o \in Lists(P)} = P
  BY <1>2, <1>3
<1> QED BY <1>1, <1>7, <1>8

\* What LangMain::compile is given
ToCompile(in) ==
  /\ OutName = IF in.outName = None THEN <<>> ELSE <<in.outName>>
  /\ in.link = Linking
  /\ HeadersFail <=> "DEBUG_FLAG" \in in.flags /\ in.emitPath = None
  /\ IsFiniteSet(in.native) /\ {o.path : o \in in.native} = NativeFiles
  /\ in.live = Lists(LiveFiles)
  /\ in.linker \in Seq(Arg)

LEMMA OutGiven ==
  ASSUME input \in Input, ReadTo(argc, files, params, longs), NEW out,
         out = IF OptionsAt("o") = {} THEN ScriptOut ELSE args[Max(OptionsAt("o")) + 1]
  PROVE  OutName = IF out = None THEN <<>> ELSE <<out>>
<1>1. CASE OptionsAt("o") # {}
  <2> DEFINE k == Max(OptionsAt("o"))
  <2>1. k \in OptionsAt("o")
    <3>1. OptionsAt("o") \in SUBSET (1 .. Len(args)) /\ Len(args) \in Nat
      BY Arguments DEF OptionsAt, Read
    <3> QED BY <1>1, <3>1, MaxExists
  <2>2. k \in Given /\ Letter(args[k]) = "o"
    BY <2>1, GivenAre DEF OptionsAt
  <2>3. args[k + 1] # None
    BY <2>2, GivenAre DEF Wants, TakesValue
  <2> QED BY <1>1, <2>3 DEF OutName, LastOf
<1>2. CASE OptionsAt("o") = {}
  <2>1. out = ScriptOut
    BY <1>2
  <2>2. CASE LastSaid("setOutName") = <<>>
    BY <1>2, <2>1, <2>2 DEF OutName, ScriptOut
  <2>3. CASE LastSaid("setOutName") # <<>>
    <3> DEFINE w == [kind |-> "word", name |-> LastSaid("setOutName")[1]]
    <3>1. out = w /\ OutName = <<w>>
      BY <1>2, <2>1, <2>3 DEF OutName, ScriptOut
    <3>2. w # None
      BY DEF None
    <3> QED BY <3>1, <3>2
  <2> QED BY <2>2, <2>3
<1> QED BY <1>1, <1>2

LEMMA FilesAdded ==
  ASSUME input \in Input, ReadTo(argc, files, params, longs), SourcesFit, AppliedAt(info, i), AddFiles
  PROVE  IncludesExist /\ ToCompile(info')
<1>1. AreSources(files)
  BY SourcesRead
<1>2. i = Cardinality(Given) + 1
  <2>1. i > Cardinality(Given) /\ Cardinality(Given) \in Nat
    BY GivenAre DEF AddFiles
  <2> QED BY <2>1 DEF AppliedAt
<1>3. \A letter : GivenOf(letter, i) = OptionsAt(letter)
  BY <1>2, GivenBegins
<1>4. /\ HasFields(info)
      /\ info.outName = IF OptionsAt("o") = {} THEN ScriptOut ELSE args[Max(OptionsAt("o")) + 1]
      /\ info.link = (OptionsAt("c") = {} /\ ScriptLinks)
      /\ info.emitPath = None <=> OptionsAt("e") = {}
      /\ info.flags = ScriptFlags /\ info.native = Lists(ScriptNative) /\ info.live = Lists(LiveFiles)
      /\ \A t \in OptionsAt("I") : IsDir(args[t + 1])
  BY <1>3 DEF AppliedAt
<1> DEFINE given == {o \in file_table : ~ IsInfo(o)}
<1>5. info' = [info EXCEPT !.flags = info.flags \cup ToSet(longs), !.native = info.native \cup given]
  BY DEF AddFiles
<1> HIDE DEF given
<1>6. /\ info'.outName = info.outName /\ info'.link = info.link /\ info'.emitPath = info.emitPath
      /\ info'.live = info.live /\ info'.linker = info.linker /\ info'.linker \in Seq(Arg)
      /\ info'.flags = info.flags \cup ToSet(longs)
      /\ info'.native = info.native \cup given
  BY <1>4, <1>5 DEF HasFields
<1>7. IncludesExist
  BY <1>4 DEF IncludesExist
<1>8. OutName = IF info'.outName = None THEN <<>> ELSE <<info'.outName>>
  BY <1>4, <1>6, OutGiven
<1>9. info'.link = Linking
  BY <1>4, <1>6 DEF Linking, ScriptLinks
<1>10. "DEBUG_FLAG" \in info'.flags <=> LastSaid("setFlag") = <<"DEBUG_FLAG">>
  <2>1. "DEBUG_FLAG" \notin ToSet(longs)
    <3>1. longs \in Seq(LongOptions)
      BY DEF ReadTo
    <3>2. \A x \in ToSet(longs) : x \in LongOptions
      BY <3>1 DEF ToSet
    <3> QED BY <3>2 DEF LongOptions
  <2>2. "DEBUG_FLAG" \in ScriptFlags <=> LastSaid("setFlag") = <<"DEBUG_FLAG">>
    BY DEF ScriptFlags, LastSaid
  <2> QED BY <1>4, <1>6, <2>1, <2>2
<1>11. HeadersFail <=> "DEBUG_FLAG" \in info'.flags /\ info'.emitPath = None
  BY <1>4, <1>6, <1>10 DEF HeadersFail
<1>12. /\ IsFiniteSet(file_table) /\ file_table \subseteq ToSet(files)
       /\ ToSet(files) = {files[j] : j \in 1 .. Len(files)} /\ IsFiniteSet(given)
  <2>1. IsFiniteSet(file_table) /\ given \in SUBSET file_table
    BY <1>1, ToSetFinite DEF given
  <2>2. IsFiniteSet(given)
    BY <2>1, FS_Subset
  <2> QED BY <1>1, <2>2, ToSetFinite
<1>13. ScriptNative \in SUBSET Path
  BY ScriptIs DEF ScriptNative, Listed
<1>14. IsFiniteSet(Lists(ScriptNative)) /\ {o.path : o \in Lists(ScriptNative)} = ScriptNative
  BY <1>13, ListsFinite
<1>15. IsFiniteSet(info'.native)
  <2> DEFINE L == Lists(ScriptNative)
  <2>1. IsFiniteSet(L) /\ IsFiniteSet(given) /\ info'.native = L \cup given
    BY <1>4, <1>6, <1>12, <1>14
  <2> HIDE DEF L
  <2>2. IsFiniteSet(L \cup given)
    BY <2>1, FS_Union
  <2> QED BY <2>1, <2>2
<1>16. {o.path : o \in info'.native} = ScriptNative \cup {o.path : o \in given}
  BY <1>4, <1>6, <1>14
<1>17. CASE HasScript
  <2>1. given = {}
    <3>1. Len(files) = 1 /\ SourceHead(1) = "info"
      <4>1. Len(files) \in Nat /\ Len(Sources) = Len(files) /\ DOMAIN Sources = 1 .. Len(files)
        BY <1>1 DEF AreSources
      <4>2. ~ IsPlain(1) /\ Len(Sources) # 0
        BY <1>17, <4>1 DEF HasScript, IsPlain
      <4> QED BY <1>17, <4>1, <4>2 DEF SourcesFit, HasScript
    <3>2. HeadOf(files[1]) = "info"
      BY <1>1, <3>1 DEF AreSources
    <3>3. \A o \in file_table : o = files[1]
      BY <1>12, <3>1
    <3> QED BY <3>2, <3>3 DEF given, IsInfo
  <2>2. {o.path : o \in given} = {}
    BY <2>1
  <2>3. NativeFiles = ScriptNative
    BY <1>17 DEF NativeFiles, ScriptNative
  <2>4. {o.path : o \in info'.native} = NativeFiles
    BY <1>16, <2>2, <2>3
  <2> QED BY <1>4, <1>6, <1>7, <1>8, <1>9, <1>11, <1>15, <2>4 DEF ToCompile
<1>18. CASE ~ HasScript
  <2>1. given = file_table
    <3>1. \A j \in 1 .. Len(files) : HeadOf(files[j]) = SourceHead(j) /\ Len(files) \in Nat
          /\ Len(Sources) = Len(files)
      BY <1>1 DEF AreSources
    <3>2. ASSUME NEW j \in 1 .. Len(files) PROVE SourceHead(j) # "info"
      <4>1. CASE Len(Sources) <= 1
        <5>1. j = 1 /\ Sources # <<>>
          BY <3>1, <4>1
        <5> QED BY <1>18, <5>1 DEF HasScript
      <4>2. CASE Len(Sources) = 2 /\ IsPlain(1) /\ IsPlain(2)
        <5>1. j \in {1, 2}
          BY <3>1, <4>2
        <5> QED BY <4>2, <5>1 DEF IsPlain
      <4> QED BY <4>1, <4>2 DEF SourcesFit
    <3>3. \A o \in file_table : ~ IsInfo(o)
      BY <1>12, <3>1, <3>2 DEF IsInfo
    <3> QED BY <3>3 DEF given
  <2>2. {o.path : o \in given} = {args[Sources[j]].name : j \in DOMAIN Sources}
    BY <1>1, <2>1, TableHasAll
  <2>3. NativeFiles = {args[Sources[j]].name : j \in DOMAIN Sources} /\ ScriptNative = {}
    BY <1>18 DEF NativeFiles, ScriptNative
  <2>4. {o.path : o \in info'.native} = NativeFiles
    BY <1>16, <2>2, <2>3
  <2> QED BY <1>4, <1>6, <1>7, <1>8, <1>9, <1>11, <1>15, <2>4 DEF ToCompile
<1> QED BY <1>17, <1>18

LEMMA IdleIs ==
  ASSUME ToCompile(info)
  PROVE  Idle <=> info.native = {} /\ info.link
<1>1. NativeFiles = {} <=> info.native = {}
  <2>1. {o.path : o \in info.native} = NativeFiles
    BY DEF ToCompile
  <2> QED BY <2>1
<1>2. info.link = Linking
  BY DEF ToCompile
<1>3. info.link <=> Linking
  BY <1>2
<1> QED BY <1>1, <1>3 DEF Idle

(***************************************************************************)
(* The words for clang++: what follows the second does not change it.      *)
(***************************************************************************)
LEMMA ConcatIs ==
  ASSUME NEW V, NEW s \in Seq(V), NEW t \in Seq(V)
  PROVE  /\ s \o t \in Seq(V) /\ Len(s) \in Nat /\ Len(t) \in Nat /\ Len(s \o t) = Len(s) + Len(t)
         /\ \A k \in 1 .. Len(s) + Len(t) : (s \o t)[k] = IF k <= Len(s) THEN s[k] ELSE t[k - Len(s)]
OBVIOUS

LEMMA SecondKept ==
  ASSUME NEW V, NEW s \in Seq(V), NEW t \in Seq(V), Len(s) >= 2
  PROVE  s \o t \in Seq(V) /\ (s \o t)[2] = s[2] /\ Len(s \o t) >= 2
<1>1. Len(s) \in Nat /\ Len(t) \in Nat /\ Len(s \o t) = Len(s) + Len(t) /\ s \o t \in Seq(V)
  OBVIOUS
<1>2. (s \o t)[2] = s[2]
  OBVIOUS
<1> QED BY <1>1, <1>2

LEMMA SecondAdded ==
  ASSUME NEW V, NEW s \in Seq(V), NEW t \in Seq(V), Len(s) = 1, Len(t) >= 1
  PROVE  s \o t \in Seq(V) /\ (s \o t)[2] = t[1] /\ Len(s \o t) >= 2
<1> DEFINE w == s \o t
           l == Len(s)
<1>3. l = 1 /\ Len(t) >= 1
  OBVIOUS
<1>4. /\ w \in Seq(V) /\ Len(t) \in Nat /\ Len(w) = l + Len(t)
      /\ \A k \in 1 .. l + Len(t) : w[k] = IF k <= l THEN s[k] ELSE t[k - l]
  BY ConcatIs
<1> HIDE DEF w, l
<1>1. /\ w \in Seq(V) /\ Len(t) \in Nat /\ Len(w) = 1 + Len(t)
      /\ \A k \in 1 .. 1 + Len(t) : w[k] = IF k <= 1 THEN s[k] ELSE t[k - 1]
  BY <1>3, <1>4
<1>2. 2 \in 1 .. 1 + Len(t) /\ 2 - 1 = 1
  BY <1>1
<1> QED BY <1>1, <1>2 DEF w

Chain(a, b, c, d, e) == a \o b \o c \o d \o e

LEMMA SecondIs ==
  ASSUME NEW V, NEW a \in Seq(V), NEW b \in Seq(V), NEW c \in Seq(V), NEW d \in Seq(V), NEW e \in Seq(V),
         Len(a) = 1, Len(b) >= 1 \/ (b = <<>> /\ (Len(c) >= 1 \/ (c = <<>> /\ Len(d) >= 1)))
  PROVE  /\ Chain(a, b, c, d, e)[2] = (IF b # <<>> THEN b[1] ELSE IF c # <<>> THEN c[1] ELSE d[1])
         /\ Chain(a, b, c, d, e) # <<>>
<1> DEFINE v == Chain(a, b, c, d, e)
<1>0. v = a \o b \o c \o d \o e
  BY DEF Chain
<1> SUFFICES v[2] = (IF b # <<>> THEN b[1] ELSE IF c # <<>> THEN c[1] ELSE d[1]) /\ v # <<>>
  OBVIOUS
<1> HIDE DEF v
<1>1. CASE Len(b) >= 1
  <2> DEFINE ab == a \o b
             abc == ab \o c
             abcd == abc \o d
  <2>1. b # <<>>
    BY <1>1
  <2>2. ab \in Seq(V) /\ ab[2] = b[1] /\ Len(ab) >= 2
    BY <1>1, SecondAdded
  <2> HIDE DEF ab
  <2>3. abc \in Seq(V) /\ abc[2] = ab[2] /\ Len(abc) >= 2
    BY <2>2, SecondKept
  <2> HIDE DEF abc
  <2>4. abcd \in Seq(V) /\ abcd[2] = abc[2] /\ Len(abcd) >= 2
    BY <2>3, SecondKept
  <2> HIDE DEF abcd
  <2>5. (abcd \o e)[2] = abcd[2] /\ abcd \o e # <<>>
    BY <2>4, SecondKept
  <2>6. v = abcd \o e
    BY <1>0 DEF abcd, abc, ab
  <2> QED BY <2>1, <2>2, <2>3, <2>4, <2>5, <2>6
<1>2. CASE b = <<>> /\ Len(c) >= 1
  <2> DEFINE ac == a \o c
             acd == ac \o d
  <2>1. c # <<>> /\ a \o b = a
    BY <1>2
  <2>2. ac \in Seq(V) /\ ac[2] = c[1] /\ Len(ac) >= 2
    BY <1>2, SecondAdded
  <2> HIDE DEF ac
  <2>3. acd \in Seq(V) /\ acd[2] = ac[2] /\ Len(acd) >= 2
    BY <2>2, SecondKept
  <2> HIDE DEF acd
  <2>4. (acd \o e)[2] = acd[2] /\ acd \o e # <<>>
    BY <2>3, SecondKept
  <2>5. v = acd \o e
    BY <1>0, <2>1 DEF acd, ac
  <2> QED BY <1>2, <2>1, <2>2, <2>3, <2>4, <2>5
<1>3. CASE b = <<>> /\ c = <<>> /\ Len(d) >= 1
  <2> DEFINE ad == a \o d
  <2>1. a \o b = a /\ a \o c = a
    BY <1>3
  <2>2. ad \in Seq(V) /\ ad[2] = d[1] /\ Len(ad) >= 2
    BY <1>3, SecondAdded
  <2> HIDE DEF ad
  <2>3. (ad \o e)[2] = ad[2] /\ ad \o e # <<>>
    BY <2>2, SecondKept
  <2>4. v = ad \o e
    BY <1>0, <2>1 DEF ad
  <2> QED BY <1>3, <2>2, <2>3, <2>4
<1> QED BY <1>1, <1>2, <1>3

Output(w) ==
  IF OutName # <<>> THEN w[2] = OutName[1]
  ELSE IF ~ Linking THEN w[2] = [kind |-> "short", name |-> "c"]
  ELSE w[2].kind = "bitcode" /\ w[2].name \in NativeFiles

Command(order) ==
  <<[kind |-> "short", name |-> "o"]>> \o OutWord \o LinkWord
    \o [k \in DOMAIN order |-> Bitcode(order[k])] \o info.linker

LEMMA OutputIs ==
  ASSUME ToCompile(info), ~ Idle, NEW order \in SetToSeqs(info.native)
  PROVE  Output(Command(order)) /\ Command(order) # <<>>
<1> DEFINE w == Command(order)
           n == Cardinality(info.native)
           out == info.outName
           V == Arg \cup {out, [kind |-> "short", name |-> "o"], [kind |-> "short", name |-> "c"]}
                  \cup {Bitcode(o) : o \in info.native}
           a == <<[kind |-> "short", name |-> "o"]>>
           d == [k \in DOMAIN order |-> Bitcode(order[k])]
<1>1. n \in Nat /\ (n = 0 <=> info.native = {})
  <2>1. IsFiniteSet(info.native)
    BY DEF ToCompile
  <2> QED BY <2>1, FS_CardinalityType, FS_EmptySet
<1>2. order \in [1 .. n -> info.native]
  BY DEF SetToSeqs
<1> HIDE DEF n
<1>3. d \in Seq(V) /\ Len(d) = n /\ \A k \in 1 .. n : d[k] = Bitcode(order[k])
  <2>1. d = [k \in 1 .. n |-> Bitcode(order[k])]
    BY <1>2
  <2>2. \A k \in 1 .. n : Bitcode(order[k]) \in V
    BY <1>2
  <2> HIDE DEF V, d
  <2> QED BY <1>1, <2>1, <2>2
<1>4. OutWord = IF out = None THEN <<>> ELSE <<out>>
  BY DEF OutWord
<1>5. LinkWord = IF info.link THEN <<>> ELSE <<[kind |-> "short", name |-> "c"]>>
  BY DEF LinkWord
<1>6. a \in Seq(V) /\ Len(a) = 1 /\ OutWord \in Seq(V) /\ LinkWord \in Seq(V)
  <2>1. [kind |-> "short", name |-> "o"] \in V /\ out \in V /\ [kind |-> "short", name |-> "c"] \in V
    OBVIOUS
  <2> HIDE DEF V, out
  <2> QED BY <1>4, <1>5, <2>1
<1>7. info.linker \in Seq(V)
  <2>1. info.linker \in Seq(Arg) /\ Arg \subseteq V
    BY DEF ToCompile
  <2> HIDE DEF V
  <2> QED BY <2>1
<1>8. /\ OutName = OutWord /\ (info.link <=> Linking) /\ {o.path : o \in info.native} = NativeFiles
  <2>1. info.link = Linking
    BY DEF ToCompile
  <2> QED BY <1>4, <2>1 DEF ToCompile
<1>9. info.link => n >= 1
  BY <1>1, IdleIs
<1>10. /\ Len(OutWord) >= 1 \/ OutWord = <<>>
       /\ IF info.link THEN LinkWord = <<>> ELSE Len(LinkWord) >= 1 /\ LinkWord # <<>>
                                                  /\ LinkWord[1] = [kind |-> "short", name |-> "c"]
  BY <1>4, <1>5
<1> HIDE DEF V, a, d, out
<1> DEFINE e == info.linker
<1>11. w = a \o OutWord \o LinkWord \o d \o e
  BY DEF a, d, Command
<1> SUFFICES Output(w) /\ w # <<>>
  OBVIOUS
<1> HIDE DEF e, w
<1>12. e \in Seq(V)
  BY <1>7 DEF e
<1>13. /\ w[2] = IF OutWord # <<>> THEN OutWord[1] ELSE IF LinkWord # <<>> THEN LinkWord[1] ELSE d[1]
       /\ w # <<>>
  <2> DEFINE b == OutWord
             c == LinkWord
             v == Chain(a, b, c, d, e)
  <2>1. a \in Seq(V) /\ b \in Seq(V) /\ c \in Seq(V) /\ d \in Seq(V) /\ e \in Seq(V) /\ Len(a) = 1
    BY <1>3, <1>6, <1>12
  <2>2. Len(d) >= 1 \/ Len(c) >= 1
    BY <1>3, <1>9, <1>10
  <2>3. (Len(c) >= 1 \/ c = <<>>) /\ (Len(b) >= 1 \/ b = <<>>)
    BY <1>10
  <2>4. w = v
    BY <1>11 DEF Chain
  <2> HIDE DEF b, c
  <2>6. Len(b) >= 1 \/ (b = <<>> /\ (Len(c) >= 1 \/ (c = <<>> /\ Len(d) >= 1)))
    BY <2>2, <2>3
  <2>5. v[2] = (IF b # <<>> THEN b[1] ELSE IF c # <<>> THEN c[1] ELSE d[1]) /\ v # <<>>
    BY <2>1, <2>6, SecondIs
  <2> HIDE DEF v
  <2> QED BY <2>4, <2>5 DEF b, c
<1>14. CASE OutWord # <<>>
  BY <1>8, <1>13, <1>14 DEF Output
<1>15. CASE OutWord = <<>> /\ ~ info.link
  BY <1>8, <1>10, <1>13, <1>15 DEF Output
<1>16. CASE OutWord = <<>> /\ info.link
  <2>1. w[2] = d[1]
    BY <1>10, <1>13, <1>16
  <2>4. 1 \in 1 .. n
    BY <1>1, <1>9, <1>16
  <2>2. w[2] = Bitcode(order[1]) /\ order[1] \in info.native
    BY <1>2, <1>3, <2>1, <2>4
  <2> DEFINE x == order[1]
  <2> HIDE DEF x
  <2>5. w[2] = [kind |-> "bitcode", name |-> x.path]
    BY <2>2 DEF Bitcode, x
  <2>6. w[2].kind = "bitcode" /\ w[2].name = x.path
    BY <2>5
  <2>3. w[2].kind = "bitcode" /\ w[2].name = order[1].path
    BY <2>6 DEF x
  <2> QED BY <1>8, <1>13, <1>16, <2>2, <2>3 DEF Output
<1> QED BY <1>13, <1>14, <1>15, <1>16

LEMMA WordsGiven ==
  ASSUME ToCompile(info), GenNonLive
  PROVE  \/ pc' = "refused" /\ ~ Acceptable
         \/ pc' = "clang" /\ ~ Idle /\ ~ HeadersFail /\ words' # <<>> /\ Output(words')
<1>1. ~ Idle
  BY IdleIs DEF GenNonLive
<1>2. HeadersFail <=> Emits /\ info.emitPath = None
  BY DEF ToCompile, Emits
<1>3. CASE HeadersFail
  <2>1. pc' = "refused"
    BY <1>2, <1>3 DEF GenNonLive
  <2> QED BY <1>1, <1>3, <2>1 DEF Acceptable
<1>4. CASE ~ HeadersFail
  <2>1. PICK order \in SetToSeqs(info.native) :
           words' = Command(order)
    BY <1>2, <1>4 DEF GenNonLive, Command
  <2>2. pc' = "clang"
    BY <1>2, <1>4 DEF GenNonLive, Go
  <2>3. Output(words') /\ words' # <<>>
    BY <1>1, <2>1, OutputIs
  <2> QED BY <1>1, <1>4, <2>2, <2>3
<1> QED BY <1>3, <1>4

LEMMA LiveFits ==
  ASSUME input \in Input, ToCompile(info)
  PROVE  JobCrashes(info.native \cup info.live, Cardinality(info.live)) <=> ~ (Cardinality(LiveFiles) <= 1)
<1>1. LiveFiles \in SUBSET Path
  BY ScriptIs DEF LiveFiles, Listed
<1>2. info.live = Lists(LiveFiles)
  BY DEF ToCompile
<1>3. Cardinality(info.live) = Cardinality(LiveFiles) /\ Cardinality(info.live) \in Nat /\ IsFiniteSet(info.live)
  <2>1. Cardinality(Lists(LiveFiles)) = Cardinality(LiveFiles) /\ Cardinality(LiveFiles) \in Nat
        /\ IsFiniteSet(Lists(LiveFiles))
    BY <1>1, ListsFinite
  <2> QED BY <1>2, <2>1
<1>4. info.live = {} => Cardinality(info.live) = 0
  BY FS_EmptySet
<1> QED BY <1>3, <1>4 DEF JobCrashes

-----------------------------------------------------------------------------
(***************************************************************************)
(* What is said of the input stays said: no step changes the input.        *)
(***************************************************************************)
LEMMA SameSources ==
  ASSUME input' = input
  PROVE  /\ Sources' = Sources /\ (HasScript' <=> HasScript) /\ (SourcesFit' <=> SourcesFit) /\ Plains' = Plains
         /\ (Readable' <=> Readable) /\ (IncludesExist' <=> IncludesExist) /\ Script' = Script
         /\ \A l : OptionsAt(l)' = OptionsAt(l) /\ LastOf(l)' = LastOf(l)
<1>1. args' = args /\ Read' = Read /\ Faulty' = Faulty
  BY SameArguments
<1>2. Sources' = Sources
  BY <1>1 DEF Sources
<1>3. \A j : SourceHead(j)' = SourceHead(j)
  BY <1>1, <1>2 DEF SourceHead
<1>4. \A j : IsPlain(j)' <=> IsPlain(j)
  BY <1>3 DEF IsPlain
<1>5. Plains' = Plains
  BY <1>2, <1>4 DEF Plains
<1>6. HasScript' <=> HasScript
  BY <1>2, <1>3 DEF HasScript
<1>7. SourcesFit' <=> SourcesFit
  BY <1>2, <1>4 DEF SourcesFit
<1>8. \A l : OptionsAt(l)' = OptionsAt(l)
  BY <1>1 DEF OptionsAt
<1>9. \A l : LastOf(l)' = LastOf(l)
  BY <1>1, <1>8 DEF LastOf
<1>10. IncludesExist' <=> IncludesExist
  BY <1>1, <1>8 DEF IncludesExist
<1>11. Readable' <=> Readable
  BY <1>1 DEF Readable
<1>12. Script' = Script
  BY DEF Script
<1> QED BY <1>2, <1>5, <1>6, <1>7, <1>8, <1>9, <1>10, <1>11, <1>12

LEMMA SameScript ==
  ASSUME input' = input
  PROVE  /\ Listed' = Listed /\ (ScriptRuns' <=> ScriptRuns) /\ (MainsListed' <=> MainsListed)
         /\ \A op : LastSaid(op)' = LastSaid(op)
         /\ \A k : RunsTo(k)' <=> RunsTo(k)
         /\ \A in, k : InfoAt(in, k)' <=> InfoAt(in, k)
<1>1. Script' = Script /\ (HasScript' <=> HasScript)
  BY SameSources
<1>2. \A op : Said(op)' = Said(op)
  BY DEF Said
<1>3. \A op : Operands(op)' = Operands(op)
  BY <1>2 DEF Operands
<1>4. Listed' = Listed
  BY <1>3 DEF Listed
<1>5. ScriptRuns' <=> ScriptRuns
  BY DEF ScriptRuns
<1>6. MainsListed' <=> MainsListed
  BY <1>3, <1>4 DEF MainsListed
<1>7. \A op : LastSaid(op)' = LastSaid(op)
  BY <1>1, <1>2 DEF LastSaid
<1>8. \A op, k : SaidBefore(op, k)' = SaidBefore(op, k)
  BY <1>2 DEF SaidBefore
<1>9. \A op, k : OperandsBefore(op, k)' = OperandsBefore(op, k)
  BY <1>1, <1>8 DEF OperandsBefore
<1>10. \A k : ListedBefore(k)' = ListedBefore(k)
  BY <1>9 DEF ListedBefore
<1>11. \A op, k : LatestBefore(op, k)' = LatestBefore(op, k)
  BY <1>1, <1>8 DEF LatestBefore
<1>12. \A k : RunsTo(k)' <=> RunsTo(k)
  BY <1>1 DEF RunsTo
<1>13. \A v, k : (TableAt(v, k)' <=> TableAt(v, k)) /\ (MainAt(v, k)' <=> MainAt(v, k))
  BY <1>9, <1>10 DEF TableAt, MainAt
<1>14. \A v, k : /\ OutAt(v, k)' <=> OutAt(v, k)
                 /\ FlagsAt(v, k)' <=> FlagsAt(v, k)
                 /\ LinkAt(v, k)' <=> LinkAt(v, k)
  BY <1>8, <1>11 DEF OutAt, FlagsAt, LinkAt
<1>15. \A in, k : InfoAt(in, k)' <=> InfoAt(in, k)
  BY <1>13, <1>14 DEF InfoAt
<1> QED BY <1>4, <1>5, <1>6, <1>7, <1>12, <1>15

LEMMA SameRules ==
  ASSUME input' = input
  PROVE  /\ (Acceptable' <=> Acceptable) /\ (Scripted' <=> Scripted) /\ (Idle' <=> Idle)
         /\ (HeadersFail' <=> HeadersFail)
         /\ \A in : (Starts(in)' <=> Starts(in)) /\ (ToCompile(in)' <=> ToCompile(in))
         /\ \A in, k : AppliedAt(in, k)' <=> AppliedAt(in, k)
         /\ \A w : Output(w)' <=> Output(w)
<1>1. /\ Sources' = Sources /\ (HasScript' <=> HasScript) /\ (SourcesFit' <=> SourcesFit)
      /\ (Readable' <=> Readable) /\ (IncludesExist' <=> IncludesExist)
      /\ \A l : OptionsAt(l)' = OptionsAt(l) /\ LastOf(l)' = LastOf(l)
  BY SameSources
<1>2. /\ Listed' = Listed /\ (ScriptRuns' <=> ScriptRuns) /\ (MainsListed' <=> MainsListed)
      /\ \A op : LastSaid(op)' = LastSaid(op)
  BY SameScript
<1>3. args' = args /\ argc' = argc /\ \A k : OptionsBefore(k)' = OptionsBefore(k)
  BY SameArguments
<1>4. Scripted' <=> Scripted
  BY <1>1, <1>2 DEF Scripted
<1>5. Linking' <=> Linking
  BY <1>1, <1>2 DEF Linking
<1>6. NativeFiles' = NativeFiles /\ LiveFiles' = LiveFiles
  BY <1>1, <1>2, <1>3 DEF NativeFiles, LiveFiles
<1>7. Idle' <=> Idle
  BY <1>5, <1>6 DEF Idle
<1>8. HeadersFail' <=> HeadersFail
  BY <1>1, <1>2 DEF HeadersFail
<1>9. Acceptable' <=> Acceptable
  BY <1>1, <1>4, <1>6, <1>7, <1>8 DEF Acceptable
<1>10. OutName' = OutName
  BY <1>1, <1>2 DEF OutName
<1>11. ScriptOut' = ScriptOut /\ ScriptFlags' = ScriptFlags /\ ScriptNative' = ScriptNative
  BY <1>1, <1>2 DEF ScriptOut, ScriptFlags, ScriptNative
<1>12. ScriptLinks' = ScriptLinks
  BY <1>2 DEF ScriptLinks
<1>13. \A in : Starts(in)' <=> Starts(in)
  BY <1>6, <1>11, <1>12 DEF Starts
<1>14. Given' = Given
  <2>1. \A k : OptionsBefore(k)' = OptionsBefore(k)
    BY <1>3
  <2> QED BY <1>3, <2>1 DEF Given, OptionsBefore, argc
<1>15. \A k : GivenTo(k)' = GivenTo(k)
  BY <1>14 DEF GivenTo
<1>16. \A l, k : GivenOf(l, k)' = GivenOf(l, k)
  BY <1>3, <1>15 DEF GivenOf
<1>17. \A in, k : AppliedAt(in, k)' <=> AppliedAt(in, k)
  BY <1>3, <1>6, <1>11, <1>12, <1>14, <1>16 DEF AppliedAt
<1>18. Linking' = Linking
  BY <1>5 DEF Linking
<1>19. \A in : ToCompile(in)' <=> ToCompile(in)
  BY <1>6, <1>8, <1>10, <1>18 DEF ToCompile
<1>20. \A w : Output(w)' <=> Output(w)
  BY <1>5, <1>6, <1>10 DEF Output
<1> QED BY <1>4, <1>7, <1>8, <1>9, <1>13, <1>17, <1>19, <1>20

-----------------------------------------------------------------------------
(***************************************************************************)
(* The invariant, one part per phase.  Of every phase it says what the     *)
(* input alone determines about what was collected so far, and that what   *)
(* the earlier phases would have refused did not occur.                    *)
(***************************************************************************)
Collected == ReadTo(argc, files, params, longs)

AtArgs == ReadTo(i, files, params, longs) /\ extFiles = <<>> /\ info = NewInfo
AtSeparate ==
  /\ Collected /\ Separating(i, store, size, extFiles) /\ extFiles \in Seq(Object) /\ info = NewInfo
  /\ hasInfo <=> \E o \in ToSet(files) : IsInfo(o)
AtScript == Collected /\ SourcesFit /\ HasScript /\ i \in Nat \ {0} /\ InfoAt(info, i) /\ RunsTo(i)
AtEnter == Collected /\ SourcesFit /\ Scripted /\ Starts(info)
AtApply == Collected /\ SourcesFit /\ Scripted /\ AppliedAt(info, i)
AtCompile == Readable /\ SourcesFit /\ Scripted /\ IncludesExist /\ ToCompile(info)
AtClang == AtCompile /\ ~ Idle /\ ~ HeadersFail /\ words # <<>>

OptInv ==
  /\ input \in Input
  /\ pc \in {"args", "separate", "script", "enter", "apply", "compile", "clang", "link", "exec"} \cup Ended
  /\ pc = "args" => AtArgs
  /\ pc = "separate" => AtSeparate
  /\ pc = "script" => AtScript
  /\ pc = "enter" => AtEnter
  /\ pc = "apply" => AtApply
  /\ pc = "compile" => AtCompile
  /\ pc \in {"clang", "link"} => AtClang
  /\ pc = "clang" => Output(words)
  /\ pc = "exec" => Acceptable
  /\ EndByRule

\* The process ends for a reason.
LEMMA EndsFor ==
  ASSUME input \in Input, input' = input, pc' \in {"refused", "crashed"},
         ~ Acceptable \/ (pc' = "refused" /\ words' # <<>>)
  PROVE  OptInv'
<1>1. Acceptable' <=> Acceptable
  BY SameRules
<1>2. EndByRule'
  BY <1>1 DEF EndByRule, Ended
<1> QED BY <1>2 DEF OptInv, Ended

LEMMA OptInit == Init => OptInv
<1> SUFFICES ASSUME Init PROVE OptInv
  OBVIOUS
<1>1. input \in Input /\ pc = "args" /\ i = 1 /\ files = <<>> /\ params = <<>> /\ longs = <<>>
      /\ extFiles = <<>> /\ info = NewInfo
  BY InputsAssumption DEF Init
<1>2. Len(args) \in Nat /\ Positions = 1 .. Len(args) /\ argc = Len(args) + 1
  BY <1>1, Arguments
<1>3. Read \subseteq Positions /\ Faulty \subseteq Positions
  BY DEF Read, Faulty
<1>4. WordsBefore(1) = {} /\ OptionsBefore(1) = {} /\ \A t \in Faulty : t >= 1
  <2>1. \A t \in Positions : t >= 1 /\ ~ (t < 1)
    BY <1>2
  <2> QED BY <1>3, <2>1 DEF WordsBefore, OptionsBefore
<1>5. Sorted({}) /\ \A g : Mapped(g, {}) = <<>>
  <2>1. IsFiniteSet({})
    BY FS_EmptySet
  <2>2. \A g : Mapped(g, {}) = [j \in 1 .. 0 |-> g[InOrder({})[j]]]
    BY OrderEmpty DEF Mapped
  <2>3. 1 .. 0 = {}
    OBVIOUS
  <2> QED BY <2>1, <2>2, <2>3, OrderEmpty DEF Sorted
<1>6. ReadTo(1, <<>>, <<>>, <<>>)
  BY <1>2, <1>4, <1>5, SecondFirst DEF ReadTo
<1> QED BY <1>1, <1>6 DEF OptInv, AtArgs, EndByRule, Ended

(***************************************************************************)
(* The steps, phase by phase                                               *)
(***************************************************************************)
LEMMA ArgumentStep ==
  ASSUME OptInv, ReadOption \/ ReadFlag \/ ReadFile
  PROVE  OptInv'
<1>1. input \in Input /\ pc = "args" /\ ReadTo(i, files, params, longs) /\ extFiles = <<>> /\ info = NewInfo
  BY DEF OptInv, AtArgs, ReadOption, ReadFlag, ReadFile, InArgs
<1>2. input' = input /\ pc' = "args" /\ extFiles' = <<>> /\ info' = NewInfo
  BY <1>1 DEF ReadOption, ReadFlag, ReadFile, cmpVars
<1>3. i \in Int
  BY <1>1, Arguments DEF ReadTo
<1>4. /\ i \in Positions /\ arg = args[i] /\ i \notin Faulty
      /\ i' = (IF i \in WantsValue THEN i + 2 ELSE i + 1) /\ i' <= argc
  BY <1>1, <1>3, Advances
<1>5. \A ls : ReadTo(i, files, params, ls) =>
        ReadTo(i', IF arg.kind = "word" THEN Append(files, ObjAt(i)) ELSE files,
                   IF IsOption(arg) THEN Append(params, ParamAt(i)) ELSE params, ls)
  <2> SUFFICES ASSUME NEW ls, ReadTo(i, files, params, ls)
               PROVE  ReadTo(i', IF arg.kind = "word" THEN Append(files, ObjAt(i)) ELSE files,
                                 IF IsOption(arg) THEN Append(params, ParamAt(i)) ELSE params, ls)
    OBVIOUS
  <2> DEFINE e == i'
  <2>1. e = (IF i \in WantsValue THEN i + 2 ELSE i + 1) /\ e <= argc
    BY <1>4
  <2> HIDE DEF e
  <2>2. ReadTo(e, IF args[i].kind = "word" THEN Append(files, ObjAt(i)) ELSE files,
                  IF IsOption(args[i]) THEN Append(params, ParamAt(i)) ELSE params, ls)
    BY <1>1, <1>4, <2>1, ReadAhead
  <2> QED BY <1>4, <2>2 DEF e
<1>6. ReadTo(i', files', params', longs')
  <2>1. CASE ReadOption
    <3>1. IsOption(arg) /\ arg.kind # "word" /\ files' = files /\ longs' = longs
      BY <2>1 DEF ReadOption, IsOption
    <3>2. params' = Append(params, ParamAt(i))
      <4>1. params' = Append(params, <<Letter(arg), IF Wants(arg) THEN NextArg ELSE None>>)
        BY <2>1 DEF ReadOption
      <4>2. Wants(arg) => NextArg = args[i + 1]
        <5> SUFFICES ASSUME Wants(arg) PROVE NextArg = args[i + 1]
          OBVIOUS
        <5>1. NextArg # None
          BY <2>1 DEF ReadOption, TakesNull
        <5> QED BY <5>1 DEF NextArg, args
      <4> QED BY <1>4, <4>1, <4>2 DEF ParamAt
    <3> QED BY <1>1, <1>5, <3>1, <3>2
  <2>2. CASE ReadFlag
    <3>1. arg.kind = "long" /\ arg.name \in LongOptions /\ files' = files /\ params' = params
          /\ longs' = Append(longs, arg.name)
      BY <2>2 DEF ReadFlag, IsFlag
    <3>2. ~ IsOption(arg)
      BY <3>1 DEF IsOption, LongOptions, LongToShort
    <3>3. longs' \in Seq(LongOptions)
      <4>1. longs \in Seq(LongOptions)
        BY <1>1 DEF ReadTo
      <4> QED BY <3>1, <4>1
    <3>4. ReadTo(i, files, params, longs')
      BY <1>1, <3>3 DEF ReadTo
    <3>5. arg.kind # "word"
      BY <3>1
    <3> QED BY <1>5, <3>1, <3>2, <3>4, <3>5
  <2>3. CASE ReadFile
    <3>1. arg.kind = "word" /\ longs' = longs /\ params' = params
          /\ files' = Append(files, Obj("arg", arg.name, i))
      BY <2>3 DEF ReadFile
    <3>2. ~ IsOption(arg) /\ Obj("arg", arg.name, i) = ObjAt(i)
      BY <1>4, <3>1 DEF IsOption, ObjAt
    <3> QED BY <1>1, <1>5, <3>1, <3>2
  <2> QED BY <2>1, <2>2, <2>3
<1>7. ReadTo(i, files, params, longs)'
  BY <1>2, <1>6, SameArguments
<1> QED BY <1>1, <1>2, <1>7 DEF OptInv, AtArgs, EndByRule, Ended

LEMMA ArgumentsFail ==
  ASSUME OptInv, OptionRefused \/ OptionCrashes \/ UnknownOption \/ UnknownFile
  PROVE  OptInv'
<1>1. input \in Input /\ ReadTo(i, files, params, longs)
  BY DEF OptInv, AtArgs, OptionRefused, OptionCrashes, UnknownOption, UnknownFile, InArgs
<1>2. i \in Faulty
  BY <1>1, Stopped
<1>3. ~ Acceptable
  BY <1>2 DEF Acceptable, Readable
<1>4. input' = input /\ pc' \in {"refused", "crashed"}
  BY DEF OptionRefused, OptionCrashes, UnknownOption, UnknownFile, End
<1> QED BY <1>1, <1>3, <1>4, EndsFor

LEMMA SameCollected ==
  ASSUME input' = input, UNCHANGED argVars
  PROVE  Collected' <=> Collected
<1>1. files' = files /\ params' = params /\ longs' = longs
  BY DEF argVars
<1>2. argc' = argc /\ \A k, fs, ps, ls : ReadTo(k, fs, ps, ls)' <=> ReadTo(k, fs, ps, ls)
  BY SameArguments
<1> QED BY <1>1, <1>2 DEF Collected

LEMMA SameSeparating ==
  ASSUME input' = input, files' = files
  PROVE  \A at, st, sz, ext : Separating(at, st, sz, ext)' <=> Separating(at, st, sz, ext)
BY SameSources DEF Separating

LEMMA SeparateSteps ==
  ASSUME OptInv, Tokenize \/ Separate
  PROVE  OptInv'
<1>1. CASE Tokenize
  <2>1. /\ input \in Input /\ Collected /\ info = NewInfo /\ extFiles = <<>>
    BY <1>1 DEF OptInv, AtArgs, Tokenize, Collected
  <2>2. /\ input' = input /\ UNCHANGED argVars /\ files' = files /\ pc' = "separate" /\ i' = 1
        /\ store' = files /\ size' = Len(files) /\ extFiles' = <<>> /\ info' = NewInfo
        /\ (hasInfo' <=> \E o \in ToSet(files) : IsInfo(o))
    BY <1>1, <2>1 DEF Tokenize, Go, argVars
  <2>3. Separating(i', store', size', extFiles')
    BY <2>1, <2>2, SourcesRead, SeparatingBegins DEF Collected
  <2>4. Separating(i, store, size, extFiles)'
    BY <2>2, <2>3, SameSeparating
  <2>5. Collected'
    BY <2>1, <2>2, SameCollected
  <2>6. (\E o \in ToSet(files) : IsInfo(o))' <=> (\E o \in ToSet(files) : IsInfo(o))
    BY <2>2 DEF IsInfo, HeadOf
  <2>7. extFiles' \in Seq(Object)
    BY <2>2
  <2> QED BY <2>1, <2>2, <2>4, <2>5, <2>6, <2>7 DEF OptInv, AtSeparate, EndByRule, Ended
<1>2. CASE Separate
  <2>1. input \in Input /\ AtSeparate
    BY <1>2 DEF OptInv, Separate
  <2>2. /\ input' = input /\ UNCHANGED argVars /\ files' = files /\ pc' = "separate"
        /\ info' = NewInfo /\ hasInfo' = hasInfo
    BY <1>2, <2>1 DEF Separate, argVars, AtSeparate
  <2>3. AreSources(files)
    BY <2>1, SourcesRead DEF AtSeparate, Collected
  <2>4. Separating(i', store', size', extFiles') /\ extFiles' \in Seq(Object)
    BY <1>2, <2>1, <2>3, SeparateStep DEF AtSeparate
  <2>5. Separating(i, store, size, extFiles)'
    BY <2>2, <2>4, SameSeparating
  <2>6. Collected'
    BY <2>1, <2>2, SameCollected DEF AtSeparate
  <2>7. (\E o \in ToSet(files) : IsInfo(o))' <=> (\E o \in ToSet(files) : IsInfo(o))
    BY <2>2 DEF IsInfo, HeadOf
  <2> QED BY <2>1, <2>2, <2>4, <2>5, <2>6, <2>7 DEF OptInv, AtSeparate, EndByRule, Ended
<1> QED BY <1>1, <1>2

LEMMA JitSteps ==
  ASSUME OptInv, Jit \/ JitCrashes
  PROVE  OptInv'
<1>1. input \in Input /\ AtSeparate /\ i > Len(store) /\ input' = input
  BY DEF OptInv, Jit, JitCrashes, End
<1>2. AreSources(files) /\ Faulty = {}
  BY <1>1, SourcesRead DEF AtSeparate, Collected
<1>3. BuildFiles = {SourceObj(j) : j \in {k \in DOMAIN Sources : StaysBuildFile(k)}}
  BY <1>1, <1>2, Separated DEF AtSeparate
<1>4. /\ JobCrashes(BuildFiles, Len(files)) <=> ~ SourcesFit
      /\ SourcesFit => ((\E o \in ToSet(files) : IsInfo(o)) <=> HasScript)
  BY <1>2, <1>3, FitsExactly
<1>5. CASE JitCrashes
  <2>1. ~ Acceptable /\ pc' = "crashed"
    BY <1>4, <1>5 DEF JitCrashes, Acceptable, End
  <2> QED BY <1>1, <2>1, EndsFor
<1>6. CASE Jit
  <2>1. /\ SourcesFit /\ (hasInfo <=> HasScript) /\ i' = 1 /\ UNCHANGED argVars /\ info' = NewInfo
        /\ pc' = IF hasInfo THEN "script" ELSE "enter"
    BY <1>1, <1>4, <1>6 DEF Jit, Go, AtSeparate
  <2>2. Collected' /\ SourcesFit'
    BY <1>1, <2>1, SameCollected, SameSources DEF AtSeparate
  <2>3. CASE hasInfo
    <3>1. InfoAt(NewInfo, 1) /\ RunsTo(1)
      BY <1>1, InfoBegins
    <3>2. InfoAt(info, i)' /\ RunsTo(i)'
      BY <1>1, <2>1, <3>1, SameScript
    <3>3. HasScript'
      BY <1>1, <2>1, <2>3, SameSources
    <3> QED BY <1>1, <2>1, <2>2, <2>3, <3>2, <3>3 DEF OptInv, AtScript, EndByRule, Ended
  <2>4. CASE ~ hasInfo
    <3>1. Starts(NewInfo) /\ Scripted
      BY <2>1, <2>4, NoScriptStarts DEF Scripted
    <3>2. Starts(info)' /\ Scripted'
      BY <1>1, <2>1, <3>1, SameRules
    <3> QED BY <1>1, <2>1, <2>2, <2>4, <3>2 DEF OptInv, AtEnter, EndByRule, Ended
  <2> QED BY <2>3, <2>4
<1> QED BY <1>5, <1>6

LEMMA ScriptSteps ==
  ASSUME OptInv, Calls
  PROVE  OptInv'
<1>1. input \in Input /\ AtScript
  BY DEF OptInv, Calls, AddSourceDir, SetMainFile, SetOutName, SetFlag, AddLinkerFlag, ShouldLink, Verify, InScript
<1>2. input' = input /\ pc' = "script" /\ UNCHANGED argVars
  <2>1. pc = "script" /\ Called
    BY DEF Calls, AddSourceDir, SetMainFile, SetOutName, SetFlag, AddLinkerFlag, ShouldLink, Verify, InScript
  <2> QED BY <2>1 DEF Called
<1>3. InfoAt(info', i + 1) /\ i' = i + 1 /\ RunsTo(i + 1)
  BY <1>1, CallStep, CallRuns DEF AtScript
<1>4. Collected' /\ SourcesFit' /\ HasScript' /\ i' \in Nat \ {0}
  BY <1>1, <1>2, <1>3, SameCollected, SameSources DEF AtScript
<1>5. InfoAt(info, i)' /\ RunsTo(i)'
  BY <1>2, <1>3, SameScript
<1> QED BY <1>1, <1>2, <1>4, <1>5 DEF OptInv, AtScript, EndByRule, Ended

LEMMA ScriptFails ==
  ASSUME OptInv, NoBuild \/ NoSuchDir \/ VerifyFails
  PROVE  OptInv'
<1>1. input \in Input /\ AtScript
  BY DEF OptInv, NoBuild, NoSuchDir, VerifyFails, InScript
<1>2. ~ (ScriptRuns /\ MainsListed)
  BY <1>1, CallFails DEF AtScript
<1>3. ~ Acceptable
  BY <1>1, <1>2 DEF AtScript, Acceptable, Scripted
<1>4. input' = input /\ pc' = "refused"
  BY DEF NoBuild, NoSuchDir, VerifyFails, End
<1> QED BY <1>1, <1>3, <1>4, EndsFor

LEMMA ModifySteps ==
  ASSUME OptInv, Modify \/ ModifyCrashes
  PROVE  OptInv'
<1>1. input \in Input /\ AtScript /\ input.build /\ i > Len(Script) /\ i \in Nat /\ InfoAt(info, i)
  BY DEF OptInv, Modify, ModifyCrashes, ScriptEnds, Script, AtScript
<1>2. ScriptRuns
  BY <1>1, AllSaid DEF AtScript
<1>3. CASE ModifyCrashes
  <2>1. ~ MainsListed
    BY <1>1, <1>3, TableComplete DEF ModifyCrashes
  <2>2. ~ Acceptable
    BY <1>1, <2>1 DEF AtScript, Acceptable, Scripted
  <2>3. input' = input /\ pc' = "crashed"
    BY <1>3 DEF ModifyCrashes, End
  <2> QED BY <1>1, <2>2, <2>3, EndsFor
<1>4. CASE Modify
  <2>1. MainsListed /\ Starts(info')
    BY <1>1, <1>4, ScriptStarts DEF AtScript
  <2>2. input' = input /\ UNCHANGED argVars
    BY <1>4 DEF Modify
  <2>3. CASE input.ret = 0
    <3>1. Scripted /\ pc' = "enter"
      BY <1>2, <1>4, <2>1, <2>3 DEF Scripted, Modify, Go
    <3>2. Starts(info)' /\ Scripted'
      BY <2>1, <2>2, <3>1, SameRules
    <3>3. Collected' /\ SourcesFit'
      BY <1>1, <2>2, SameCollected, SameSources DEF AtScript
    <3> QED BY <1>1, <2>2, <3>1, <3>2, <3>3 DEF OptInv, AtEnter, EndByRule, Ended
  <2>4. CASE input.ret # 0
    <3>1. ~ Acceptable /\ pc' = "refused"
      BY <1>1, <1>4, <2>4 DEF AtScript, Acceptable, Scripted, Modify
    <3> QED BY <1>1, <2>2, <3>1, EndsFor
  <2> QED BY <2>3, <2>4
<1> QED BY <1>3, <1>4

LEMMA ApplySteps ==
  ASSUME OptInv, EnterFiles \/ ApplyNext \/ ApplyFails
  PROVE  OptInv'
<1>1. CASE EnterFiles
  <2>1. input \in Input /\ AtEnter /\ input' = input /\ UNCHANGED argVars /\ pc' = "apply" /\ i' = 1
    BY <1>1 DEF OptInv, EnterFiles, Go
  <2>2. AppliedAt(info', 1)
    BY <1>1, <2>1, ApplyBegins DEF AtEnter, Collected
  <2>3. AppliedAt(info, i)' /\ Scripted'
    BY <2>1, <2>2, SameRules DEF AtEnter
  <2>4. Collected' /\ SourcesFit'
    BY <2>1, SameCollected, SameSources DEF AtEnter
  <2> QED BY <2>1, <2>3, <2>4 DEF OptInv, AtApply, EndByRule, Ended
<1>2. CASE ApplyNext
  <2>1. input \in Input /\ AtApply /\ input' = input /\ UNCHANGED argVars /\ pc' = "apply" /\ i' = i + 1
    BY <1>2 DEF OptInv, ApplyNext, InParams
  <2>2. AppliedAt(info', i + 1)
    BY <1>2, <2>1, Applies DEF AtApply, Collected
  <2>3. AppliedAt(info, i)' /\ Scripted'
    BY <2>1, <2>2, SameRules DEF AtApply
  <2>4. Collected' /\ SourcesFit'
    BY <2>1, SameCollected, SameSources DEF AtApply
  <2> QED BY <2>1, <2>3, <2>4 DEF OptInv, AtApply, EndByRule, Ended
<1>3. CASE ApplyFails
  <2>1. input \in Input /\ AtApply /\ input' = input /\ pc' = "refused"
    BY <1>3 DEF OptInv, ApplyFails, InParams, End
  <2>2. ~ IncludesExist
    BY <1>3, <2>1, IncludeMissing DEF AtApply, Collected
  <2>3. ~ Acceptable
    BY <2>2 DEF Acceptable
  <2> QED BY <2>1, <2>3, EndsFor
<1> QED BY <1>1, <1>2, <1>3

LEMMA SameCompile ==
  ASSUME input' = input, Readable, SourcesFit, Scripted, IncludesExist, ToCompile(info')
  PROVE  AtCompile'
<1>1. Readable' /\ SourcesFit' /\ IncludesExist'
  BY SameSources
<1>2. Scripted' /\ ToCompile(info)'
  BY SameRules
<1> QED BY <1>1, <1>2 DEF AtCompile

LEMMA CompileSteps ==
  ASSUME OptInv, AddFiles \/ NothingToDo \/ GenNonLive
  PROVE  OptInv'
<1>1. CASE AddFiles
  <2>1. input \in Input /\ AtApply /\ input' = input /\ pc' = "compile"
    BY <1>1 DEF OptInv, AddFiles, Go
  <2>2. IncludesExist /\ ToCompile(info')
    BY <1>1, <2>1, FilesAdded DEF AtApply, Collected
  <2>3. Readable
    BY <2>1, SourcesRead DEF AtApply, Collected, Readable
  <2>4. AtCompile'
    BY <2>1, <2>2, <2>3, SameCompile DEF AtApply
  <2> QED BY <2>1, <2>4 DEF OptInv, EndByRule, Ended
<1>2. CASE NothingToDo
  <2>1. input \in Input /\ AtCompile /\ input' = input /\ pc' = "exec"
    BY <1>2 DEF OptInv, NothingToDo, Go
  <2>2. Idle
    BY <1>2, <2>1, IdleIs DEF NothingToDo, AtCompile
  <2>3. Acceptable'
    BY <2>1, <2>2, SameRules DEF AtCompile, Acceptable
  <2> QED BY <2>1, <2>3 DEF OptInv, EndByRule, Ended
<1>3. CASE GenNonLive
  <2>1. input \in Input /\ AtCompile /\ input' = input /\ info' = info
    BY <1>3 DEF OptInv, GenNonLive
  <2>2. \/ pc' = "refused" /\ ~ Acceptable
        \/ pc' = "clang" /\ ~ Idle /\ ~ HeadersFail /\ words' # <<>> /\ Output(words')
    BY <1>3, <2>1, WordsGiven DEF AtCompile
  <2>3. CASE pc' = "refused" /\ ~ Acceptable
    BY <2>1, <2>3, EndsFor
  <2>4. CASE pc' = "clang" /\ ~ Idle /\ ~ HeadersFail /\ words' # <<>> /\ Output(words')
    <3>1. AtCompile'
      BY <2>1, SameCompile DEF AtCompile
    <3>2. ~ Idle' /\ ~ HeadersFail' /\ Output(words)'
      BY <2>1, <2>4, SameRules
    <3> QED BY <2>1, <2>4, <3>1, <3>2 DEF OptInv, AtClang, EndByRule, Ended
  <2> QED BY <2>2, <2>3, <2>4
<1> QED BY <1>1, <1>2, <1>3

LEMMA LastSteps ==
  ASSUME OptInv, Clang \/ LinkLive \/ Exec
  PROVE  OptInv'
<1>1. CASE Clang
  <2>1. input \in Input /\ AtClang /\ input' = input /\ info' = info /\ words' = words
    BY <1>1 DEF OptInv, Clang, Go, End
  <2>2. pc' = "link" \/ pc' = "refused"
    BY <1>1 DEF Clang, Go, End
  <2>3. CASE pc' = "refused"
    BY <2>1, <2>3, EndsFor DEF AtClang
  <2>4. CASE pc' = "link"
    <3>1. AtCompile'
      BY <2>1, SameCompile DEF AtClang, AtCompile
    <3>2. ~ Idle' /\ ~ HeadersFail'
      BY <2>1, SameRules DEF AtClang
    <3>3. words' # <<>>
      BY <2>1 DEF AtClang
    <3> QED BY <2>1, <2>4, <3>1, <3>2, <3>3 DEF OptInv, AtClang, EndByRule, Ended
  <2> QED BY <2>2, <2>3, <2>4
<1>2. CASE LinkLive
  <2>1. input \in Input /\ AtClang /\ input' = input
    BY <1>2 DEF OptInv, LinkLive
  <2>2. JobCrashes(info.native \cup info.live, Cardinality(info.live)) <=> ~ (Cardinality(LiveFiles) <= 1)
    BY <2>1, LiveFits DEF AtClang, AtCompile
  <2>3. CASE Cardinality(LiveFiles) <= 1
    <3>1. pc' = "exec"
      BY <1>2, <2>2, <2>3 DEF LinkLive, Go
    <3>2. Acceptable
      BY <2>1, <2>3 DEF AtClang, AtCompile, Acceptable
    <3>3. Acceptable'
      BY <2>1, <3>2, SameRules
    <3> QED BY <2>1, <3>1, <3>3 DEF OptInv, EndByRule, Ended
  <2>4. CASE ~ (Cardinality(LiveFiles) <= 1)
    <3>1. pc' = "crashed"
      BY <1>2, <2>2, <2>4 DEF LinkLive
    <3>2. ~ Acceptable
      BY <2>1, <2>4 DEF AtClang, Acceptable
    <3> QED BY <2>1, <3>1, <3>2, EndsFor
  <2> QED BY <2>3, <2>4
<1>3. CASE Exec
  <2>1. input \in Input /\ Acceptable /\ input' = input /\ pc' = "done"
    BY <1>3 DEF OptInv, Exec, End
  <2>2. Acceptable'
    BY <2>1, SameRules
  <2> QED BY <2>1, <2>2 DEF OptInv, EndByRule, Ended
<1> QED BY <1>1, <1>2, <1>3

LEMMA OptStutter ==
  ASSUME OptInv, UNCHANGED vars
  PROVE  OptInv'
<1>1. /\ input' = input /\ pc' = pc /\ i' = i /\ UNCHANGED argVars /\ files' = files /\ params' = params
      /\ longs' = longs /\ store' = store /\ size' = size /\ extFiles' = extFiles /\ hasInfo' = hasInfo
      /\ info' = info /\ words' = words
  BY DEF vars, argVars, cmpVars
<1>2. Collected' <=> Collected
  BY <1>1, SameCollected
<1>3. /\ (SourcesFit' <=> SourcesFit) /\ (HasScript' <=> HasScript) /\ (Readable' <=> Readable)
      /\ (IncludesExist' <=> IncludesExist)
  BY <1>1, SameSources
<1>4. /\ (Acceptable' <=> Acceptable) /\ (Scripted' <=> Scripted)
      /\ (Idle' <=> Idle) /\ (HeadersFail' <=> HeadersFail)
  BY <1>1, SameRules
<1>5. AtArgs => AtArgs'
  <2>1. ReadTo(i, files, params, longs)' <=> ReadTo(i, files, params, longs)
    BY <1>1, SameArguments
  <2> QED BY <1>1, <2>1 DEF AtArgs
<1>6. AtSeparate => AtSeparate'
  <2>1. Separating(i, store, size, extFiles)' <=> Separating(i, store, size, extFiles)
    BY <1>1, SameSeparating
  <2>2. (\E o \in ToSet(files) : IsInfo(o))' <=> (\E o \in ToSet(files) : IsInfo(o))
    BY <1>1 DEF IsInfo, HeadOf
  <2> QED BY <1>1, <1>2, <2>1, <2>2 DEF AtSeparate
<1>7. AtScript => AtScript'
  <2>1. (InfoAt(info, i)' <=> InfoAt(info, i)) /\ (RunsTo(i)' <=> RunsTo(i))
    BY <1>1, SameScript
  <2> QED BY <1>1, <1>2, <1>3, <2>1 DEF AtScript
<1>8. AtEnter => AtEnter'
  <2>1. Starts(info)' <=> Starts(info)
    BY <1>1, SameRules
  <2> QED BY <1>2, <1>3, <1>4, <2>1 DEF AtEnter
<1>9. AtApply => AtApply'
  <2>1. AppliedAt(info, i)' <=> AppliedAt(info, i)
    BY <1>1, SameRules
  <2> QED BY <1>2, <1>3, <1>4, <2>1 DEF AtApply
<1>10. AtCompile => AtCompile'
  <2>1. ToCompile(info)' <=> ToCompile(info)
    BY <1>1, SameRules
  <2> QED BY <1>3, <1>4, <2>1 DEF AtCompile
<1>11. AtClang => AtClang'
  BY <1>1, <1>4, <1>10 DEF AtClang
<1>12. Output(words)' <=> Output(words)
  BY <1>1, SameRules
<1>13. EndByRule => EndByRule'
  BY <1>1, <1>4 DEF EndByRule
<1> QED BY <1>1, <1>4, <1>5, <1>6, <1>7, <1>8, <1>9, <1>10, <1>11, <1>12, <1>13 DEF OptInv

LEMMA OptNext == OptInv /\ [Next]_vars => OptInv'
<1> SUFFICES ASSUME OptInv, [Next]_vars PROVE OptInv'
  OBVIOUS
<1>1. CASE ReadOption \/ ReadFlag \/ ReadFile
  BY <1>1, ArgumentStep
<1>2. CASE OptionRefused \/ OptionCrashes \/ UnknownOption \/ UnknownFile
  BY <1>2, ArgumentsFail
<1>3. CASE Tokenize \/ Separate
  BY <1>3, SeparateSteps
<1>4. CASE Jit \/ JitCrashes
  BY <1>4, JitSteps
<1>5. CASE AddSourceDir \/ SetMainFile \/ SetOutName \/ SetFlag \/ AddLinkerFlag \/ ShouldLink \/ Verify
  BY <1>5, ScriptSteps DEF Calls
<1>6. CASE NoBuild \/ NoSuchDir \/ VerifyFails
  BY <1>6, ScriptFails
<1>7. CASE Modify \/ ModifyCrashes
  BY <1>7, ModifySteps
<1>8. CASE EnterFiles \/ ApplyNext \/ ApplyFails
  BY <1>8, ApplySteps
<1>9. CASE AddFiles \/ NothingToDo \/ GenNonLive
  BY <1>9, CompileSteps
<1>10. CASE Clang \/ LinkLive \/ Exec
  BY <1>10, LastSteps
<1>11. CASE Terminating \/ UNCHANGED vars
  BY <1>11, OptStutter DEF Terminating
<1> QED BY <1>1, <1>2, <1>3, <1>4, <1>5, <1>6, <1>7, <1>8, <1>9, <1>10, <1>11 DEF Next

LEMMA OptAlways == Spec => []OptInv
<1>1. QED BY OptInit, OptNext, PTL DEF Spec

-----------------------------------------------------------------------------
\* The range-for that erases from the list it walks (LangMain, the separation of build files and
\* sources): on every command line it leaves every second of the plain files that follow one another,
\* the last one excepted, among the build files, and takes out exactly the others.
THEOREM SeparatedCorrect == Spec => []SeparatedByRule
<1>1. OptInv => SeparatedByRule
  <2> SUFFICES ASSUME OptInv, pc = "separate", i > Len(store)
               PROVE  /\ BuildFiles = {SourceObj(j) : j \in {k \in DOMAIN Sources : StaysBuildFile(k)}}
                      /\ ToSet(extFiles) = {SourceObj(j) : j \in {k \in DOMAIN Sources : ~ StaysBuildFile(k)}}
    BY DEF SeparatedByRule
  <2>1. input \in Input /\ AtSeparate
    BY DEF OptInv
  <2>2. AreSources(files)
    BY <2>1, SourcesRead DEF AtSeparate, Collected
  <2> QED BY <2>1, <2>2, Separated DEF AtSeparate
<1> QED BY <1>1, OptAlways, PTL

\* From main() to the end of the process, for every command line and every build script: it gets
\* through exactly if what Acceptable says of the two holds; then only clang++ can still refuse.
THEOREM EndCorrect == Spec => []EndByRule
<1>1. OptInv => EndByRule
  BY DEF OptInv
<1> QED BY <1>1, OptAlways, PTL

\* The words LangMain::compile puts together for clang++: behind -o stands the last name the command
\* line gives, or else the last of the script; without a name, -c or the bitcode of a source.
THEOREM OutputCorrect == Spec => []OutputByRule
<1>1. OptInv => OutputByRule
  BY DEF OptInv, OutputByRule, Output
<1> QED BY <1>1, OptAlways, PTL
=============================================================================
