-------------------------- MODULE TypeIndexProofs --------------------------
(***************************************************************************)
(* Proofs about the front end's tables of types, for every project.        *)
(*                                                                         *)
(* Four of the rules of TypeIndexRules are proved: TypeOK, EveryTypeReset, *)
(* NamesSettled and SharedByName.  The inductive invariant IInv says,      *)
(* beside what the variables hold (Shape), how the tables agree with each  *)
(* other (Named, Usable, Known, Fresh, Apart, Unqualified, Taken, Filled), *)
(* with the text (Deep, Stacked) and with the containers (InPlace,         *)
(* NoStructs, Rooted).  SharedInv adds, in terms of the text, which object *)
(* a plain name stands for and what was read into it (Counted, Popped,     *)
(* Based, Gathered).                                                       *)
(*                                                                         *)
(* First what the proofs need of the operators: mangleTypeName goes up     *)
(* from a type to its containers, by a recursive function.  NatMin is the  *)
(* induction these facts are proved by: of the numbers for which a         *)
(* statement fails take the least.                                         *)
(***************************************************************************)
EXTENDS TypeIndexRules, FiniteSetTheorems, NaturalsInduction, TLAPS

(* Some number of a set of numbers is the least.                           *)
LEMMA NatMin ==
  ASSUME NEW T \in SUBSET Nat, T # {}
  PROVE  \E x \in T : \A y \in T : ~ (y < x)
<1>1. IsWellFoundedOn(OpToRel(<, Nat), Nat)
  BY NatLessThanWellFounded
<1>2. \E x \in T : \A y \in T : ~ (<<y, x>> \in OpToRel(<, Nat))
  BY <1>1, WFMin
<1>3. QED
  BY <1>2 DEF OpToRel

(* The function that Containers defines by recursion exists.               *)
Climbs(up, m, objects, o) ==
  up = [n \in 0 .. m |->
          IF n = 0 THEN o ELSE IF up[n - 1] = Null THEN Null ELSE objects[up[n - 1]].cont]

LEMMA ClimbExists ==
  ASSUME NEW objects, NEW o, NEW k \in Nat
  PROVE  \E up : Climbs(up, k, objects, o)
<1> DEFINE Step(a) == IF a = Null THEN Null ELSE objects[a].cont
           T == {m \in Nat : ~ \E up : Climbs(up, m, objects, o)}
<1> SUFFICES ASSUME T # {} PROVE FALSE
  OBVIOUS
<1>1. PICK m \in T : \A y \in T : ~ (y < m)
  <2> HIDE DEF T
  <2> T \in SUBSET Nat
    BY DEF T
  <2> QED BY NatMin
<1>2. CASE m = 0
  <2>1. Climbs([n \in 0 .. 0 |-> o], 0, objects, o)
    BY DEF Climbs
  <2> QED BY <2>1, <1>2
<1>3. CASE m # 0
  <2>1. m - 1 \in Nat /\ m - 1 < m /\ m - 1 \notin T
    BY <1>1, <1>3
  <2>2. PICK up : Climbs(up, m - 1, objects, o)
    BY <2>1
  <2> DEFINE w == [n \in 0 .. m |-> IF n < m THEN up[n] ELSE Step(up[m - 1])]
  <2>3. w = [n \in 0 .. m |-> IF n = 0 THEN o ELSE Step(w[n - 1])]
    <3>1. \A n \in 0 .. m - 1 : up[n] = IF n = 0 THEN o ELSE Step(up[n - 1])
      BY <2>2 DEF Climbs
    <3>2. \A n \in 0 .. m : w[n] = IF n = 0 THEN o ELSE Step(w[n - 1])
      <4> SUFFICES ASSUME NEW n \in 0 .. m PROVE w[n] = IF n = 0 THEN o ELSE Step(w[n - 1])
        OBVIOUS
      <4> HIDE DEF Step
      <4>1. CASE n < m
        <5>1. w[n] = up[n] /\ n \in 0 .. m - 1 /\ m \in Nat
          BY <4>1, <1>1
        <5>2. n # 0 => w[n - 1] = up[n - 1]
          BY <4>1, <1>1
        <5> QED BY <5>1, <5>2, <3>1
      <4>2. CASE n = m
        <5>1. w[m] = Step(up[m - 1]) /\ w[m - 1] = up[m - 1]
          BY <1>1, <1>3
        <5> QED BY <5>1, <4>2, <1>3
      <4> QED BY <4>1, <4>2, <1>1
    <3> HIDE DEF Step
    <3> QED BY <3>2
  <2>4. Climbs(w, m, objects, o)
    BY <2>3 DEF Climbs
  <2> QED BY <2>4, <1>1
<1> QED BY <1>2, <1>3

LEMMA ContainersClimb ==
  ASSUME NEW objects, NEW o, Len(objects) \in Nat
  PROVE  Climbs(Containers(objects, o), Len(objects), objects, o)
<1>1. \E up : Climbs(up, Len(objects), objects, o)
  BY ClimbExists
<1>2. Containers(objects, o) = CHOOSE up : Climbs(up, Len(objects), objects, o)
  BY DEF Containers, Climbs
<1> QED BY <1>1, <1>2

LEMMA ContainersStep ==
  ASSUME NEW objects, NEW o, Len(objects) \in Nat
  PROVE  LET up == Containers(objects, o)
         IN /\ DOMAIN up = 0 .. Len(objects)
            /\ up[0] = o
            /\ \A n \in 1 .. Len(objects) :
                 up[n] = IF up[n - 1] = Null THEN Null ELSE objects[up[n - 1]].cont
<1> DEFINE up == Containers(objects, o)
<1>1. Climbs(up, Len(objects), objects, o)
  BY ContainersClimb
<1> HIDE DEF up
<1>2. QED BY <1>1 DEF Climbs, up

(* Above the last container there is nothing.                              *)
LEMMA UpToTheTop ==
  ASSUME NEW objects, NEW o, Len(objects) \in Nat
  PROVE  \E d \in Nat : \A n : n \in DOMAIN Containers(objects, o) /\ Containers(objects, o)[n] # Null
                               <=> n \in 0 .. d - 1
<1> DEFINE up == Containers(objects, o)
           L == Len(objects)
           Ends == {n \in 0 .. L : up[n] = Null} \cup {L + 1}
<1>1. /\ DOMAIN up = 0 .. L
      /\ \A n \in 1 .. L : up[n - 1] = Null => up[n] = Null
  BY ContainersStep
<1> HIDE DEF up
<1>2. L \in Nat /\ Ends \in SUBSET Nat /\ Ends # {}
  OBVIOUS
<1>3. PICK d \in Ends : \A y \in Ends : ~ (y < d)
  <2> HIDE DEF Ends
  <2> QED BY <1>2, NatMin
<1> DEFINE Back == {n \in d .. L : up[n] # Null}
<1>4. Back = {}
  <2> SUFFICES ASSUME Back # {} PROVE FALSE
    OBVIOUS
  <2>1. PICK k \in Back : \A y \in Back : ~ (y < k)
    <3>1. Back \in SUBSET Nat
      BY <1>2
    <3> HIDE DEF Back
    <3> QED BY <3>1, NatMin
  <2>2. k # d
    BY <1>2
  <2>3. k - 1 \in d .. L /\ k - 1 < k /\ k \in 1 .. L
    BY <2>2, <1>2
  <2>4. up[k - 1] = Null
    BY <2>1, <2>3
  <2> QED BY <2>3, <2>4, <1>1
<1>5. \A n : n \in DOMAIN up /\ up[n] # Null <=> n \in 0 .. d - 1
  <2>1. d \in Nat /\ d <= L + 1
    BY <1>2, <1>3
  <2>2. ASSUME NEW n \in 0 .. L, up[n] # Null PROVE n \in 0 .. d - 1
    BY <2>1, <2>2, <1>2, <1>4
  <2>3. ASSUME NEW n \in 0 .. d - 1 PROVE n \in 0 .. L /\ up[n] # Null
    BY <2>1, <1>2, <1>3
  <2> QED BY <2>2, <2>3, <1>1
<1> QED BY <1>2, <1>5 DEF up

(* A full name ends in the name of the type and has one part only where    *)
(* nothing contains it.                                                    *)
LEMMA MangledShape ==
  ASSUME NEW objects, Len(objects) \in Nat, NEW o \in 1 .. Len(objects)
  PROVE  LET key == Mangled(objects, o)
         IN /\ Len(key) \in Nat \ {0}
            /\ key[Len(key)] = objects[o].name
            /\ Len(key) = 1 => objects[o].cont = Null /\ key = <<objects[o].name>>
<1> DEFINE up == Containers(objects, o)
           above == {n \in DOMAIN up : up[n] # Null}
           depth == Cardinality(above)
           key == [i \in 1 .. depth |-> objects[up[depth - i]].name]
<1>1. /\ DOMAIN up = 0 .. Len(objects)
      /\ up[0] = o
      /\ up[1] = objects[o].cont
  <2>1. 1 \in 1 .. Len(objects) /\ o # Null
    BY DEF Null
  <2> HIDE DEF up
  <2>2. QED BY <2>1, ContainersStep DEF up
<1>2. Mangled(objects, o) = key
  BY DEF Mangled
<1> HIDE DEF up
<1>3. IsFiniteSet(above) /\ depth \in Nat
  <2>1. IsFiniteSet(0 .. Len(objects))
    BY FS_Interval
  <2>2. above \subseteq 0 .. Len(objects)
    BY <1>1
  <2> HIDE DEF above
  <2>3. QED BY <2>1, <2>2, FS_Subset, FS_CardinalityType
<1>4. depth # 0
  <2>1. 0 \in above
    BY <1>1 DEF Null
  <2> HIDE DEF above
  <2>2. QED BY <2>1, <1>3, FS_EmptySet
<1>5. objects[o].cont # Null => depth # 1
  <2> SUFFICES ASSUME objects[o].cont # Null PROVE depth # 1
    OBVIOUS
  <2>1. 0 \in above /\ 1 \in above
    BY <1>1 DEF Null
  <2> HIDE DEF above
  <2>2. QED BY <2>1, <1>3, FS_Singleton
<1> HIDE DEF depth
<1>6. Len(key) = depth
  <2> DEFINE S == {objects[up[depth - i]].name : i \in 1 .. depth}
  <2>1. key \in Seq(S)
    <3>1. \A i \in 1 .. depth : key[i] \in S
      OBVIOUS
    <3>2. key = [i \in 1 .. depth |-> key[i]]
      OBVIOUS
    <3> HIDE DEF S, key
    <3>3. QED BY <1>3, <3>1, <3>2
  <2>2. DOMAIN key = 1 .. depth
    OBVIOUS
  <2> HIDE DEF key
  <2>3. QED BY <2>1, <2>2, <1>3
<1>7. key[depth] = objects[o].name
  BY <1>1, <1>3, <1>4
<1>8. depth = 1 => key = <<objects[o].name>>
  <2>1. depth = 1 => key = [i \in 1 .. 1 |-> objects[o].name]
    BY <1>1
  <2> QED BY <2>1
<1> QED BY <1>2, <1>3, <1>4, <1>5, <1>6, <1>7, <1>8

-----------------------------------------------------------------------------
(* Who contains an object, and who contains that: the way up to Null.      *)
Contained(objects) ==
  /\ Len(objects) \in Nat
  /\ \A a \in 1 .. Len(objects) : objects[a].cont \in 0 .. Len(objects)
WayUp(way, n, objects, o) ==
  /\ way[0] = o
  /\ way[n] = Null
  /\ \A i \in 0 .. n - 1 : way[i] \in 1 .. Len(objects) /\ way[i + 1] = objects[way[i]].cont
EndsAfter(n, objects, o) == \E way : WayUp(way, n, objects, o)
Grounded(objects, o) == \E n \in Nat : EndsAfter(n, objects, o)

(* If there is a way up there is a shortest one, through no more objects   *)
(* than there are.                                                         *)
LEMMA ShortestWay ==
  ASSUME NEW objects, NEW o, Grounded(objects, o)
  PROVE  \E n \in Nat : EndsAfter(n, objects, o) /\ \A m \in Nat : m < n => ~ EndsAfter(m, objects, o)
<1> DEFINE T == {n \in Nat : EndsAfter(n, objects, o)}
<1>1. T \in SUBSET Nat /\ T # {}
  BY DEF Grounded
<1>2. PICK n \in T : \A m \in T : ~ (m < n)
  <2> HIDE DEF T
  <2> QED BY <1>1, NatMin
<1> QED BY <1>2

(* The shortest way up meets no object twice.                              *)
LEMMA ShortestIsSimple ==
  ASSUME NEW objects, NEW o, NEW n \in Nat, NEW way, WayUp(way, n, objects, o),
         \A m \in Nat : m < n => ~ EndsAfter(m, objects, o),
         NEW i \in 0 .. n - 1, NEW j \in 0 .. n - 1, i < j, way[i] = way[j]
  PROVE  FALSE
<1> DEFINE m == n - (j - i)
           short == [k \in 0 .. m |-> IF k <= i THEN way[k] ELSE way[k + (j - i)]]
<1>1. m \in Nat /\ m < n /\ i < m + 1 /\ i \in Nat /\ j \in Nat
  OBVIOUS
<1>2. WayUp(short, m, objects, o)
  <2>1. short[0] = o
    BY <1>1 DEF WayUp
  <2>2. short[m] = Null
    <3>1. CASE m <= i
      <4>1. m = i /\ n = j /\ FALSE
        BY <3>1, <1>1
      <4> QED BY <4>1
    <3>2. CASE ~ (m <= i)
      BY <3>2, <1>1 DEF WayUp
    <3> QED BY <3>1, <3>2
  <2>3. ASSUME NEW k \in 0 .. m - 1
        PROVE  short[k] \in 1 .. Len(objects) /\ short[k + 1] = objects[short[k]].cont
    <3> DEFINE d == j - i
    <3>1. d \in Nat /\ k \in Nat /\ k + 1 \in 0 .. m /\ k \in 0 .. m /\ k + d \in 0 .. n - 1
          /\ k + 1 + d = (k + d) + 1 /\ m = n - d
      BY <1>1
    <3>2. CASE k < i
      <4>1. short[k] = way[k] /\ short[k + 1] = way[k + 1] /\ k \in 0 .. n - 1
        BY <3>1, <3>2, <1>1
      <4> QED BY <4>1 DEF WayUp
    <3>3. CASE k = i
      <4>1. short[k] = way[j] /\ short[k + 1] = way[(k + d) + 1] /\ k + d = j
        BY <3>1, <3>3, <1>1
      <4> QED BY <4>1 DEF WayUp
    <3>4. CASE k > i
      <4>1. short[k] = way[k + d] /\ short[k + 1] = way[(k + d) + 1]
        BY <3>1, <3>4, <1>1
      <4> QED BY <4>1, <3>1 DEF WayUp
    <3> QED BY <3>1, <3>2, <3>3, <3>4
  <2> HIDE DEF short, m
  <2> QED BY <2>1, <2>2, <2>3 DEF WayUp
<1> QED BY <1>1, <1>2 DEF EndsAfter

LEMMA ShortestIsShort ==
  ASSUME NEW objects, Len(objects) \in Nat, NEW o, NEW n \in Nat, EndsAfter(n, objects, o),
         \A m \in Nat : m < n => ~ EndsAfter(m, objects, o)
  PROVE  n <= Len(objects)
<1>1. PICK way : WayUp(way, n, objects, o)
  BY DEF EndsAfter
<1> SUFFICES ASSUME n > Len(objects) PROVE FALSE
  OBVIOUS
<1> DEFINE S == 0 .. n - 1
           T == 1 .. Len(objects)
           f == [i \in S |-> way[i]]
<1>2. IsFiniteSet(S) /\ IsFiniteSet(T) /\ Cardinality(S) = n /\ Cardinality(T) = Len(objects)
  <2>1. IsFiniteSet(S) /\ Cardinality(S) = IF 0 > n - 1 THEN 0 ELSE (n - 1) - 0 + 1
    <3>1. 0 \in Int /\ n - 1 \in Int
      OBVIOUS
    <3> QED BY <3>1, FS_Interval, Zenon
  <2>2. IsFiniteSet(T) /\ Cardinality(T) = IF 1 > Len(objects) THEN 0 ELSE Len(objects) - 1 + 1
    <3>1. 1 \in Int /\ Len(objects) \in Int
      OBVIOUS
    <3> QED BY <3>1, FS_Interval, Zenon
  <2> HIDE DEF S, T
  <2> QED BY <2>1, <2>2
<1>3. f \in [S -> T]
  BY <1>1 DEF WayUp
<1>4. PICK i, j \in S : i # j /\ f[i] = f[j]
  <2> HIDE DEF f, S, T
  <2>1. Cardinality(T) < Cardinality(S)
    BY <1>2
  <2> QED BY <1>2, <1>3, <2>1, FS_PigeonHole
<1>5. i < j \/ j < i
  BY <1>4
<1>6. way[i] = way[j]
  BY <1>4
<1> QED BY <1>1, <1>4, <1>5, <1>6, ShortestIsSimple

(* A type has a full name exactly if the way up from it ends.              *)
LEMMA EndlessIsUngrounded ==
  ASSUME NEW objects, Contained(objects), NEW o \in 0 .. Len(objects)
  PROVE  Grounded(objects, o) <=> ~ Endless(objects, o)
<1> DEFINE up == Containers(objects, o)
           L == Len(objects)
<1>1. L \in Nat /\ \A a \in 1 .. L : objects[a].cont \in 0 .. L
  BY DEF Contained
<1>2. /\ up[0] = o
      /\ \A n \in 1 .. L : up[n] = IF up[n - 1] = Null THEN Null ELSE objects[up[n - 1]].cont
  BY <1>1, ContainersStep
<1>3. Endless(objects, o) <=> up[L] # Null
  BY DEF Endless
<1> HIDE DEF up
<1>4. ASSUME Grounded(objects, o) PROVE up[L] = Null
  <2>1. PICK n \in Nat : EndsAfter(n, objects, o) /\ \A m \in Nat : m < n => ~ EndsAfter(m, objects, o)
    BY <1>4, ShortestWay
  <2>2. n <= L
    BY <2>1, <1>1, ShortestIsShort
  <2>3. PICK way : WayUp(way, n, objects, o)
    BY <2>1 DEF EndsAfter
  <2> DEFINE Off == {i \in 0 .. L : up[i] # IF i <= n THEN way[i] ELSE Null}
  <2> SUFFICES ASSUME Off # {} PROVE FALSE
    BY <2>2, <2>3, <1>1 DEF WayUp
  <2>4. PICK k \in Off : \A y \in Off : ~ (y < k)
    <3>1. Off \in SUBSET Nat
      OBVIOUS
    <3> HIDE DEF Off
    <3> QED BY <3>1, NatMin
  <2>5. k \in 0 .. L /\ k # 0
    BY <1>2, <2>3 DEF WayUp
  <2>6. k - 1 \in 0 .. L /\ k - 1 < k /\ k \in 1 .. L
    BY <2>5, <1>1
  <2>7. up[k - 1] = IF k - 1 <= n THEN way[k - 1] ELSE Null
    BY <2>4, <2>6
  <2>8. up[k] = IF up[k - 1] = Null THEN Null ELSE objects[up[k - 1]].cont
    BY <1>2, <2>6
  <2>9. CASE k <= n
    <3>1. k - 1 \in 0 .. n - 1 /\ (k - 1) + 1 = k
      BY <2>5, <2>9, <1>1
    <3>2. way[k - 1] \in 1 .. L /\ way[k] = objects[way[k - 1]].cont
      BY <3>1, <2>3 DEF WayUp
    <3>3. up[k - 1] = way[k - 1] /\ up[k - 1] # Null
      BY <2>7, <3>1, <3>2, <1>1 DEF Null
    <3>4. up[k] = way[k]
      BY <2>8, <3>2, <3>3
    <3> QED BY <3>4, <2>9
  <2>10. CASE k = n + 1
    <3>1. up[k - 1] = Null
      BY <2>7, <2>10, <2>3 DEF WayUp
    <3> QED BY <3>1, <2>8, <2>10
  <2>11. CASE k > n + 1
    <3>1. up[k - 1] = Null
      BY <2>7, <2>11, <2>5
    <3> QED BY <3>1, <2>8, <2>11
  <2> QED BY <2>9, <2>10, <2>11, <2>5
<1>5. ASSUME up[L] = Null PROVE Grounded(objects, o)
  <2> DEFINE T == {n \in 0 .. L : up[n] = Null}
             Off == {i \in 0 .. L : up[i] \notin 0 .. L}
  <2>1. PICK n \in T : \A m \in T : ~ (m < n)
    <3>1. T \in SUBSET Nat /\ T # {}
      BY <1>5, <1>1
    <3> HIDE DEF T
    <3> QED BY <3>1, NatMin
  <2>2. Off = {}
    <3> SUFFICES ASSUME Off # {} PROVE FALSE
      OBVIOUS
    <3>1. PICK k \in Off : \A y \in Off : ~ (y < k)
      <4>1. Off \in SUBSET Nat
        OBVIOUS
      <4> HIDE DEF Off
      <4> QED BY <4>1, NatMin
    <3>2. k \in 0 .. L /\ k # 0
      BY <1>2
    <3>3. k - 1 \in 0 .. L /\ k - 1 < k /\ k \in 1 .. L
      BY <3>2, <1>1
    <3>4. up[k - 1] \in 0 .. L
      BY <3>1, <3>3
    <3>5. up[k] = IF up[k - 1] = Null THEN Null ELSE objects[up[k - 1]].cont
      BY <3>3, <1>2
    <3>6. up[k - 1] = Null \/ up[k - 1] \in 1 .. L
      BY <3>4, <1>1 DEF Null
    <3>7. up[k] \in 0 .. L
      <4> HIDE DEF L
      <4> QED BY <3>5, <3>6, <1>1 DEF Null
    <3> QED BY <3>7
  <2>3. WayUp(up, n, objects, o)
    <3>1. up[0] = o /\ up[n] = Null
      BY <1>2
    <3>2. ASSUME NEW i \in 0 .. n - 1
          PROVE  up[i] \in 1 .. L /\ up[i + 1] = objects[up[i]].cont
      <4>1. i \in 0 .. L /\ i < n /\ i + 1 \in 1 .. L /\ (i + 1) - 1 = i
        BY <1>1
      <4>2. up[i] # Null /\ up[i] \in 0 .. L
        BY <4>1, <2>1, <2>2
      <4>3. up[i] \in 1 .. L
        BY <4>2, <1>1 DEF Null
      <4> QED BY <4>1, <4>2, <4>3, <1>2
    <3> QED BY <3>1, <3>2 DEF WayUp
  <2>4. n \in Nat
    OBVIOUS
  <2> QED BY <2>3, <2>4 DEF Grounded, EndsAfter
<1> QED BY <1>3, <1>4, <1>5

-----------------------------------------------------------------------------
(* What a change of the containers does to the ways up.                    *)
LEMMA GroundedTop ==
  ASSUME NEW objects
  PROVE  Grounded(objects, Null)
<1> DEFINE way == [i \in 0 .. 0 |-> Null]
<1>1. WayUp(way, 0, objects, Null)
  BY DEF WayUp
<1> QED BY <1>1 DEF Grounded, EndsAfter

(* A way up stays one where the containers stay, the object gets a way up, *)
(* or an object is appended.                                               *)
LEMMA GroundedStays ==
  ASSUME NEW objects, NEW after, Len(after) = Len(objects),
         \A a \in 1 .. Len(objects) : after[a].cont = objects[a].cont,
         NEW x, Grounded(objects, x)
  PROVE  Grounded(after, x)
<1>ends. PICK n \in Nat : EndsAfter(n, objects, x)
  BY DEF Grounded
<1>1. PICK way : WayUp(way, n, objects, x)
  BY <1>ends DEF EndsAfter
<1>2. WayUp(way, n, after, x)
  BY <1>1 DEF WayUp
<1> QED BY <1>2 DEF Grounded, EndsAfter

LEMMA GroundedBelow ==
  ASSUME NEW objects, NEW a \in 1 .. Len(objects), Grounded(objects, objects[a].cont)
  PROVE  Grounded(objects, a)
<1>ends. PICK n \in Nat : EndsAfter(n, objects, objects[a].cont)
  BY DEF Grounded
<1>1. PICK way : WayUp(way, n, objects, objects[a].cont)
  BY <1>ends DEF EndsAfter
<1> DEFINE longer == [i \in 0 .. n + 1 |-> IF i = 0 THEN a ELSE way[i - 1]]
<1>2. longer[0] = a /\ longer[n + 1] = Null
  BY <1>1 DEF WayUp
<1>3. ASSUME NEW i \in 0 .. n
      PROVE  longer[i] \in 1 .. Len(objects) /\ longer[i + 1] = objects[longer[i]].cont
  <2>1. CASE i = 0
    <3>1. longer[i] = a /\ longer[i + 1] = way[0]
      BY <2>1
    <3> QED BY <3>1, <1>1 DEF WayUp
  <2>2. CASE i # 0
    <3>1. i - 1 \in 0 .. n - 1 /\ longer[i] = way[i - 1] /\ longer[i + 1] = way[(i - 1) + 1]
      BY <2>2
    <3> QED BY <3>1, <1>1 DEF WayUp
  <2> QED BY <2>1, <2>2
<1>4. n + 1 \in Nat /\ (n + 1) - 1 = n
  OBVIOUS
<1> HIDE DEF longer
<1>5. WayUp(longer, n + 1, objects, a)
  BY <1>2, <1>3, <1>4 DEF WayUp
<1> QED BY <1>4, <1>5 DEF Grounded, EndsAfter

LEMMA GroundedAppend ==
  ASSUME NEW R, NEW objects \in Seq(R), NEW new \in R, NEW x, Grounded(objects, x)
  PROVE  Grounded(Append(objects, new), x)
<1>ends. PICK n \in Nat : EndsAfter(n, objects, x)
  BY DEF Grounded
<1>1. PICK way : WayUp(way, n, objects, x)
  BY <1>ends DEF EndsAfter
<1>2. \A a \in 1 .. Len(objects) : a \in 1 .. Len(Append(objects, new)) /\ Append(objects, new)[a] = objects[a]
  OBVIOUS
<1>3. WayUp(way, n, Append(objects, new), x)
  BY <1>1, <1>2 DEF WayUp
<1> QED BY <1>3 DEF Grounded, EndsAfter

(* A change of the container of an object that contains nothing leaves the *)
(* others their ways.                                                      *)
LEMMA GroundedElsewhere ==
  ASSUME NEW objects, NEW after, Len(after) = Len(objects), NEW o,
         \A a \in 1 .. Len(objects) : a # o => after[a].cont = objects[a].cont,
         \A a \in 1 .. Len(objects) : objects[a].cont # o,
         NEW x, x # o, Grounded(objects, x)
  PROVE  Grounded(after, x)
<1>ends. PICK n \in Nat : EndsAfter(n, objects, x)
  BY DEF Grounded
<1>1. PICK way : WayUp(way, n, objects, x)
  BY <1>ends DEF EndsAfter
<1>2. ASSUME NEW i \in 0 .. n - 1 PROVE way[i] # o
  <2>1. CASE i = 0
    BY <2>1, <1>1 DEF WayUp
  <2>2. CASE i # 0
    <3>1. i - 1 \in 0 .. n - 1 /\ (i - 1) + 1 = i
      BY <2>2
    <3>2. way[i - 1] \in 1 .. Len(objects) /\ way[i] = objects[way[i - 1]].cont
      BY <3>1, <1>1 DEF WayUp
    <3> QED BY <3>2
  <2> QED BY <2>1, <2>2
<1>3. WayUp(way, n, after, x)
  BY <1>1, <1>2 DEF WayUp
<1> QED BY <1>3 DEF Grounded, EndsAfter

(* A change that gives an object a way up leaves every other object one.   *)
LEMMA GroundedRerouted ==
  ASSUME NEW objects, NEW after, Len(after) = Len(objects), NEW o,
         \A a \in 1 .. Len(objects) : a # o => after[a].cont = objects[a].cont,
         Grounded(after, o), NEW x, Grounded(objects, x)
  PROVE  Grounded(after, x)
<1>ends. PICK n \in Nat : EndsAfter(n, objects, x)
  BY DEF Grounded
<1>1. PICK way : WayUp(way, n, objects, x)
  BY <1>ends DEF EndsAfter
<1> DEFINE T == {i \in 0 .. n - 1 : way[i] = o}
<1>2. CASE T = {}
  <2>1. \A i \in 0 .. n - 1 : way[i] # o
    BY <1>2
  <2>2. WayUp(way, n, after, x)
    BY <1>1, <2>1 DEF WayUp
  <2> QED BY <2>2 DEF Grounded, EndsAfter
<1>3. CASE T # {}
  <2>1. PICK k \in T : \A y \in T : ~ (y < k)
    <3>1. T \in SUBSET Nat
      OBVIOUS
    <3> HIDE DEF T
    <3> QED BY <3>1, <1>3, NatMin
  <2>ends. PICK m \in Nat : EndsAfter(m, after, o)
    BY DEF Grounded
  <2>2. PICK rest : WayUp(rest, m, after, o)
    BY <2>ends DEF EndsAfter
  <2> DEFINE joined == [i \in 0 .. k + m |-> IF i < k THEN way[i] ELSE rest[i - k]]
  <2>3. k \in Nat /\ k \in 0 .. n - 1 /\ k + m \in Nat /\ way[k] = o
    OBVIOUS
  <2>4. joined[0] = x
    <3>1. CASE k = 0
      <4>1. joined[0] = rest[0] /\ way[0] = o
        BY <3>1, <2>3
      <4> QED BY <4>1, <1>1, <2>2 DEF WayUp
    <3>2. CASE k # 0
      <4>1. joined[0] = way[0]
        BY <3>2, <2>3
      <4> QED BY <4>1, <1>1 DEF WayUp
    <3> QED BY <3>1, <3>2
  <2>5. joined[k + m] = Null
    <3>1. joined[k + m] = rest[m]
      BY <2>3
    <3> QED BY <3>1, <2>2 DEF WayUp
  <2>6. ASSUME NEW i \in 0 .. (k + m) - 1
        PROVE  joined[i] \in 1 .. Len(after) /\ joined[i + 1] = after[joined[i]].cont
    <3>1. i \in Nat /\ i \in 0 .. k + m /\ i + 1 \in 0 .. k + m
      BY <2>3
    <3>2. CASE i < k
      <4>1. i \in 0 .. n - 1 /\ i \notin T
        BY <2>1, <2>3, <3>1, <3>2
      <4>2. way[i] \in 1 .. Len(objects) /\ way[i] # o /\ way[i + 1] = objects[way[i]].cont
        BY <4>1, <1>1 DEF WayUp
      <4>3. joined[i] = way[i]
        BY <3>1, <3>2
      <4>4. joined[i + 1] = way[i + 1]
        <5>1. CASE i + 1 < k
          BY <5>1, <3>1
        <5>2. CASE i + 1 = k
          <6>1. joined[i + 1] = rest[0]
            BY <5>2, <3>1, <2>3
          <6> QED BY <6>1, <5>2, <2>2, <2>3 DEF WayUp
        <5> QED BY <5>1, <5>2, <3>1, <3>2, <2>3
      <4> QED BY <4>2, <4>3, <4>4
    <3>3. CASE ~ (i < k)
      <4>1. i - k \in 0 .. m - 1 /\ (i + 1) - k = (i - k) + 1
        BY <3>1, <3>3, <2>3
      <4>2. joined[i] = rest[i - k] /\ joined[i + 1] = rest[(i - k) + 1]
        BY <3>1, <3>3, <2>3, <4>1
      <4> QED BY <4>1, <4>2, <2>2 DEF WayUp
    <3> QED BY <3>2, <3>3
  <2> HIDE DEF joined
  <2>7. WayUp(joined, k + m, after, x)
    BY <2>4, <2>5, <2>6 DEF WayUp
  <2> QED BY <2>3, <2>7 DEF Grounded, EndsAfter
<1> QED BY <1>2, <1>3

-----------------------------------------------------------------------------
(* A full name is made of the containers above: it stays when they do.     *)
LEMMA MangledStays ==
  ASSUME NEW objects, Contained(objects), NEW after, Len(after) = Len(objects),
         \A a \in 1 .. Len(objects) : after[a].name = objects[a].name,
         NEW S \in SUBSET (1 .. Len(objects)), NEW o \in S,
         \A a \in S : objects[a].cont \in S \cup {Null} /\ after[a].cont = objects[a].cont
  PROVE  Mangled(after, o) = Mangled(objects, o)
<1> DEFINE L == Len(objects)
           up == Containers(objects, o)
           up2 == Containers(after, o)
<1>1. L \in Nat
  BY DEF Contained
<1>2. /\ DOMAIN up = 0 .. L
      /\ up[0] = o
      /\ \A n \in 1 .. L : up[n] = IF up[n - 1] = Null THEN Null ELSE objects[up[n - 1]].cont
  BY <1>1, ContainersStep
<1>3. /\ DOMAIN up2 = 0 .. L
      /\ up2[0] = o
      /\ \A n \in 1 .. L : up2[n] = IF up2[n - 1] = Null THEN Null ELSE after[up2[n - 1]].cont
  BY <1>1, ContainersStep
<1>4. up = [n \in DOMAIN up |-> up[n]] /\ up2 = [n \in DOMAIN up2 |-> up2[n]]
  <2>1. Climbs(up, L, objects, o) /\ Climbs(up2, L, after, o)
    BY <1>1, ContainersClimb
  <2> HIDE DEF up, up2
  <2> QED BY <2>1 DEF Climbs
<1> HIDE DEF up, up2
<1> DEFINE Off == {n \in 0 .. L : ~ (up[n] \in S \cup {Null} /\ up2[n] = up[n])}
<1>5. Off = {}
  <2> SUFFICES ASSUME Off # {} PROVE FALSE
    OBVIOUS
  <2>1. PICK k \in Off : \A y \in Off : ~ (y < k)
    <3>1. Off \in SUBSET Nat
      OBVIOUS
    <3> HIDE DEF Off
    <3> QED BY <3>1, NatMin
  <2>2. k # 0
    BY <1>2, <1>3
  <2>3. k - 1 \in 0 .. L /\ k - 1 < k /\ k \in 1 .. L
    BY <2>2, <1>1
  <2>4. up[k - 1] \in S \cup {Null} /\ up2[k - 1] = up[k - 1]
    BY <2>1, <2>3
  <2>5. up[k] = IF up[k - 1] = Null THEN Null ELSE objects[up[k - 1]].cont
    BY <1>2, <2>3
  <2>6. up2[k] = IF up2[k - 1] = Null THEN Null ELSE after[up2[k - 1]].cont
    BY <1>3, <2>3
  <2>7. up[k] \in S \cup {Null} /\ up2[k] = up[k]
    <3> HIDE DEF L
    <3> QED BY <2>4, <2>5, <2>6
  <2> QED BY <2>7
<1>6. up2 = up
  BY <1>2, <1>3, <1>4, <1>5
<1>7. \A n \in 0 .. L : up[n] # Null => after[up[n]].name = objects[up[n]].name
  BY <1>5
<1> DEFINE above == {n \in DOMAIN up : up[n] # Null}
           depth == Cardinality(above)
<1>8. Mangled(objects, o) = [i \in 1 .. depth |-> objects[up[depth - i]].name]
  BY DEF Mangled, up
<1>9. Mangled(after, o) = [i \in 1 .. depth |-> after[up[depth - i]].name]
  BY <1>6 DEF Mangled, up2
<1>10. PICK d \in Nat : above = 0 .. d - 1
  <2>1. Len(objects) \in Nat
    BY DEF Contained
  <2>2. \E d \in Nat : \A n : n \in DOMAIN up /\ up[n] # Null <=> n \in 0 .. d - 1
    BY <2>1, UpToTheTop, Zenon DEF up
  <2>3. PICK d \in Nat : \A n : n \in DOMAIN up /\ up[n] # Null <=> n \in 0 .. d - 1
    BY <2>2
  <2>4. above = 0 .. d - 1
    BY <2>3
  <2> QED BY <2>4
<1>11. depth = d
  <2>1. Cardinality(0 .. d - 1) = IF 0 > d - 1 THEN 0 ELSE (d - 1) - 0 + 1
    <3>1. 0 \in Int /\ d - 1 \in Int
      OBVIOUS
    <3> QED BY <3>1, FS_Interval, Zenon
  <2> HIDE DEF above
  <2> QED BY <2>1, <1>10
<1>12. ASSUME NEW i \in 1 .. depth PROVE depth - i \in 0 .. L /\ up[depth - i] # Null
  <2>1. depth - i \in 0 .. d - 1
    BY <1>11
  <2> QED BY <2>1, <1>10, <1>2
<1> HIDE DEF depth
<1>13. \A i \in 1 .. depth : after[up[depth - i]].name = objects[up[depth - i]].name
  BY <1>7, <1>12
<1> QED BY <1>8, <1>9, <1>13
-----------------------------------------------------------------------------
(* The depth of a place in a text changes with the token in front of it.   *)
LEMMA LevelStep ==
  ASSUME NEW text \in Seq(TypeHead \cup {Close}), NEW p \in DOMAIN text
  PROVE  /\ Level(text, p) \in Int
         /\ Level(text, p + 1) = Level(text, p) + (IF Opens(text[p]) THEN 1 ELSE IF IsHead(text[p]) THEN 0 ELSE -1)
<1> DEFINE O(k) == {q \in 1 .. k - 1 : Opens(text[q])}
           C(k) == {q \in 1 .. k - 1 : ~ IsHead(text[q])}
<1>1. p \in Nat \ {0} /\ Opens(text[p]) => IsHead(text[p])
  BY DEF Opens, IsHead, Kind
<1>2. IsFiniteSet(O(p)) /\ IsFiniteSet(C(p)) /\ Cardinality(O(p)) \in Nat /\ Cardinality(C(p)) \in Nat
  <2>1. IsFiniteSet(1 .. p - 1)
    BY <1>1, FS_Interval
  <2>2. O(p) \subseteq 1 .. p - 1 /\ C(p) \subseteq 1 .. p - 1
    OBVIOUS
  <2> HIDE DEF O, C
  <2>3. QED BY <2>1, <2>2, FS_Subset, FS_CardinalityType
<1>3. O(p + 1) = IF Opens(text[p]) THEN O(p) \cup {p} ELSE O(p)
  BY <1>1
<1>4. C(p + 1) = IF IsHead(text[p]) THEN C(p) ELSE C(p) \cup {p}
  BY <1>1
<1>5. p \notin O(p) /\ p \notin C(p)
  BY <1>1
<1>6. Level(text, p) = Cardinality(O(p)) - Cardinality(C(p))
      /\ Level(text, p + 1) = Cardinality(O(p + 1)) - Cardinality(C(p + 1))
  BY DEF Level
<1> HIDE DEF O, C
<1>7. Cardinality(O(p + 1)) = IF Opens(text[p]) THEN Cardinality(O(p)) + 1 ELSE Cardinality(O(p))
  BY <1>2, <1>3, <1>5, FS_AddElement
<1>8. Cardinality(C(p + 1)) = IF IsHead(text[p]) THEN Cardinality(C(p)) ELSE Cardinality(C(p)) + 1
  BY <1>2, <1>4, <1>5, FS_AddElement
<1> QED BY <1>1, <1>2, <1>6, <1>7, <1>8

LEMMA LevelAtStart == ASSUME NEW text PROVE Level(text, 1) = 0
<1>1. \A S : S \in SUBSET (1 .. 0) => S = {}
  OBVIOUS
<1>2. {q \in 1 .. 1 - 1 : Opens(text[q])} = {} /\ {q \in 1 .. 1 - 1 : ~ IsHead(text[q])} = {}
  BY <1>1
<1> QED BY <1>2, FS_EmptySet DEF Level

-----------------------------------------------------------------------------
(***************************************************************************)
(* The tables.                                                             *)
(***************************************************************************)
Passes == {"index", "preparse", "parse", "accepted", "error", "crash", "endless"}
FirstPasses == {"index", "preparse"}
Failed == {"error", "crash", "endless"}

(* What the variables hold: numbers of objects, null where the code stores *)
(* a null pointer, and no pointer to an object that was not made.          *)
Record == [kind : Kind, name : Name, cont : Nat, extending : Nat, implementing : Seq(Nat), parsed : Seq(Nat \X Nat)]

Shape ==
  /\ project \in Projects
  /\ pass \in Passes
  /\ file \in Files /\ at \in 0 .. Len(Text(file)) + 1
  /\ object \in Seq(Record) /\ Contained(object)
  /\ \A o \in Object : object[o].extending \in {Null} \cup Object
  /\ nameTypeMap = [f \in Files |-> nameTypeMap[f]]
  /\ \A f \in Files : \A k \in DOMAIN nameTypeMap[f] : nameTypeMap[f][k] \in {Null} \cup Object
  /\ unmangledTypeMap = [f \in Files |-> unmangledTypeMap[f]]
  /\ \A f \in Files : \A n \in DOMAIN unmangledTypeMap[f] : unmangledTypeMap[f][n] \in {Null} \cup Object
  /\ types \in [Files -> Seq(Nat)]
  /\ indexSuper \in Seq(Nat) /\ preSuper \in Seq(Nat) /\ parserSuper \in Seq(Nat)
  /\ \A i \in DOMAIN indexSuper : indexSuper[i] \in Object /\ object[indexSuper[i]].kind = "enum"
  /\ \A i \in DOMAIN preSuper : preSuper[i] \in {Null} \cup Object

Under(names, n) == IF <<n>> \in DOMAIN names THEN names[<<n>>] ELSE Null
Plain(f, n) == Under(nameTypeMap[f], n)

(* What the assumption on the projects gives for a project that is read.   *)
LEMMA ProjectFacts ==
  ASSUME project \in Projects
  PROVE  /\ Len(project.files) \in Nat \ {0} /\ Files = 1 .. Len(project.files)
         /\ \A f \in Files : Text(f) \in Seq(TypeHead \cup {Close}) /\ Balanced(Text(f))
BY ProjectsAssumption DEF IsProject, IsFile, Files, Text

(* The reader stands on a token of its text, a head or a closing bracket.  *)
LEMMA TokenFacts ==
  ASSUME Shape, NEW thePass, Reading(thePass)
  PROVE  /\ pass = thePass /\ at \in DOMAIN Text(file) /\ at \in Nat \ {0} /\ at <= Len(Text(file))
         /\ Token \in TypeHead \cup {Close}
         /\ IsHead(Token) => Token \in TypeHead /\ at \in Decls(file)
<1>1. Text(file) \in Seq(TypeHead \cup {Close})
  BY ProjectFacts DEF Shape
<1>2. at \in 1 .. Len(Text(file)) /\ pass = thePass
  BY DEF Reading
<1>3. Token \in TypeHead \cup {Close}
  BY <1>1, <1>2 DEF Token
<1>4. ~ IsHead(Close)
  BY DEF IsHead, Close, Kind, Containable
<1> QED BY <1>1, <1>2, <1>3, <1>4 DEF Decls, Token

(* What each of the three readers does with the head of a type.            *)
LEMMA IndexFacts ==
  ASSUME Shape, IndexType
  PROVE  LET o == Len(object) + 1
             new == NewType(Token, Innermost(indexSuper))
             key == Mangled(object', o)
         IN /\ new \in Record /\ new.cont \in {Null} \cup Object /\ new.extending = Null
            /\ new.cont # Null => object[new.cont].kind = "enum"
            /\ object' = Append(object, new) /\ object' \in Seq(Record) /\ Len(object') = o /\ o # Null
            /\ \A a \in Object : a \in DOMAIN object' /\ a # o /\ object'[a] = object[a]
            /\ object'[o] = new /\ DOMAIN object' = Object \cup {o}
            /\ Len(key) \in Nat \ {0} /\ key[Len(key)] = Token.name
            /\ Len(key) = 1 => new.cont = Null /\ key = <<Token.name>>
            /\ nameTypeMap' = [nameTypeMap EXCEPT ![file] = Bind(@, key, o)]
<1> DEFINE o == Len(object) + 1
           new == NewType(Token, Innermost(indexSuper))
<1>1. Token \in TypeHead
  BY TokenFacts DEF IndexType
<1>2. Innermost(indexSuper) \in {Null} \cup Object
      /\ (Innermost(indexSuper) # Null => object[Innermost(indexSuper)].kind = "enum")
  <2>1. CASE indexSuper = <<>>
    BY <2>1 DEF Innermost
  <2>2. CASE indexSuper # <<>>
    <3>1. indexSuper \in Seq(Nat)
      BY DEF Shape
    <3>2. Len(indexSuper) \in DOMAIN indexSuper
      BY <2>2, <3>1
    <3> QED BY <2>2, <3>2 DEF Innermost, Last, Shape
  <2> QED BY <2>1, <2>2
<1>3. object \in Seq(Record) /\ Len(object) \in Nat /\ Object = 1 .. Len(object)
  BY DEF Shape, Object
<1>4. new.cont = Innermost(indexSuper) /\ new.name = Token.name /\ new.extending = Null
  BY DEF NewType
<1>5. new \in Record
  <2>1. Token.kind \in Kind /\ Token.name \in Name
    BY <1>1 DEF TypeHead
  <2>2. Innermost(indexSuper) \in Nat
    BY <1>2, <1>3 DEF Null
  <2>3. <<>> \in Seq(Nat) /\ <<>> \in Seq(Nat \X Nat)
    OBVIOUS
  <2> QED BY <2>1, <2>2, <2>3 DEF NewType, Record, Null
<1>6. object' = Append(object, new)
      /\ nameTypeMap' = [nameTypeMap EXCEPT ![file] = Bind(@, Mangled(object', o), o)]
  BY DEF IndexType
<1> HIDE DEF new
<1>7. /\ object' \in Seq(Record) /\ Len(object') = o /\ object'[o] = new
      /\ \A a \in Object : a \in DOMAIN object' /\ a # o /\ object'[a] = object[a]
      /\ DOMAIN object' = Object \cup {o}
  BY <1>3, <1>5, <1>6
<1>8. o \in 1 .. Len(object') /\ Len(object') \in Nat /\ o # Null
  BY <1>3, <1>7 DEF Null
<1>9. LET key == Mangled(object', o)
      IN Len(key) \in Nat \ {0} /\ key[Len(key)] = new.name
         /\ (Len(key) = 1 => new.cont = Null /\ key = <<new.name>>)
  BY <1>7, <1>8, MangledShape
<1> QED BY <1>2, <1>4, <1>5, <1>6, <1>7, <1>8, <1>9 DEF new

(* An entry of a file's table under one key takes the place of another.    *)
Reentered(map, after, old, key, o) ==
  /\ DOMAIN after = (DOMAIN map \ {old}) \cup {key}
  /\ after[key] = o
  /\ \A k \in DOMAIN map : k # old /\ k # key => after[k] = map[k]

LEMMA MovedEntry ==
  ASSUME NEW map, NEW n, NEW o, NEW key
  PROVE  /\ Reentered(map, Bind(map, <<n>>, o), <<n>>, <<n>>, o)
         /\ Reentered(map, Bind(Unbind(Bind(map, <<n>>, o), <<n>>), key, o), <<n>>, key, o)
<1>1. Reentered(map, Bind(map, <<n>>, o), <<n>>, <<n>>, o)
  BY DEF Reentered, Bind
<1> DEFINE bound == Bind(map, <<n>>, o)
           gone == Unbind(bound, <<n>>)
<1>2. DOMAIN bound = DOMAIN map \cup {<<n>>} /\ \A k \in DOMAIN map : k # <<n>> => bound[k] = map[k]
  BY DEF Bind
<1> HIDE DEF bound
<1>3. DOMAIN gone = DOMAIN map \ {<<n>>} /\ \A k \in DOMAIN map : k # <<n>> => gone[k] = map[k]
  BY <1>2 DEF Unbind
<1> HIDE DEF gone
<1>4. Reentered(map, Bind(gone, key, o), <<n>>, key, o)
  BY <1>3 DEF Bind, Reentered
<1> QED BY <1>1, <1>4 DEF gone, bound

(* The key that the PreParser enters what it finds under.                  *)
ToMove == IsMoved(PlainType(Token))
EntryKey == IF ToMove /\ pass' # "endless" THEN Mangled(object', PlainType(Token)) ELSE <<Token.name>>

(* PreParseType moves one object at most, to the top of its stack.         *)
LEMMA PreParseFacts ==
  ASSUME Shape, PreParseType
  PROVE  LET n == Token.name
             o == PlainType(Token)
         IN /\ o = Plain(file, n) /\ o \in {Null} \cup Object
            /\ ToMove => /\ o \in Object /\ object[o].kind \in Containable /\ preSuper # <<>>
                        /\ Last(preSuper) \in {Null} \cup Object /\ object'[o].cont = Last(preSuper)
            /\ ~ ToMove => object' = object
            /\ object' \in Seq(Record) /\ Len(object') = Len(object) /\ DOMAIN object' = Object
            /\ \A a \in Object :
                 /\ object'[a].name = object[a].name /\ object'[a].kind = object[a].kind
                 /\ object'[a].extending = object[a].extending
                 /\ a # o => object'[a].cont = object[a].cont
            /\ unmangledTypeMap' = [unmangledTypeMap EXCEPT ![file] = Bind(@, n, o)]
<1> DEFINE n == Token.name
           o == PlainType(Token)
           t == Last(preSuper)
<1>1. o = Plain(file, n)
  BY DEF PlainType, Plain, Under
<1>2. o \in {Null} \cup Object
  BY <1>1 DEF Plain, Under, Shape
<1>3. object \in Seq(Record) /\ Len(object) \in Nat /\ Object = 1 .. Len(object) /\ Object = DOMAIN object
  BY DEF Shape, Object
<1>4. /\ object' = IF ToMove THEN [object EXCEPT ![o].cont = t] ELSE object
      /\ unmangledTypeMap' = [unmangledTypeMap EXCEPT ![file] = Bind(@, n, o)]
  BY DEF PreParseType, ToMove
<1>5. ASSUME ToMove
      PROVE  o \in Object /\ object[o].kind \in Containable /\ preSuper # <<>> /\ t \in {Null} \cup Object
  <2>1. KindOf(object, o) \in Containable /\ preSuper # <<>>
    BY <1>5 DEF ToMove, IsMoved
  <2>2. o # Null
    BY <2>1 DEF KindOf, Containable
  <2>3. preSuper \in Seq(Nat) /\ \A i \in DOMAIN preSuper : preSuper[i] \in {Null} \cup Object
    BY DEF Shape
  <2>4. Len(preSuper) \in DOMAIN preSuper
    BY <2>1, <2>3
  <2> QED BY <1>2, <2>1, <2>2, <2>3, <2>4 DEF KindOf, Last
<1> HIDE DEF o, t, n
<1>6. CASE ~ ToMove
  BY <1>1, <1>2, <1>3, <1>4, <1>6 DEF o, t, n
<1>7. CASE ToMove
  <2>1. object' = [object EXCEPT ![o] = [object[o] EXCEPT !.cont = t]]
    BY <1>4, <1>7
  <2>2. object[o] \in Record /\ t \in Nat
    BY <1>3, <1>5, <1>7 DEF Null
  <2> DEFINE r == [object[o] EXCEPT !.cont = t]
  <2>3. r \in Record /\ r.name = object[o].name /\ r.kind = object[o].kind
        /\ r.extending = object[o].extending /\ r.cont = t
    BY <2>2 DEF Record
  <2> HIDE DEF r
  <2>4. object' = [object EXCEPT ![o] = r]
    BY <2>1 DEF r
  <2>5. object' \in Seq(Record) /\ Len(object') = Len(object) /\ DOMAIN object' = Object
        /\ object'[o] = r /\ \A a \in Object : a # o => object'[a] = object[a]
    BY <1>3, <1>5, <1>7, <2>3, <2>4
  <2>6. \A a \in Object : object'[a].name = object[a].name /\ object'[a].kind = object[a].kind
                          /\ object'[a].extending = object[a].extending
    BY <2>3, <2>5
  <2> QED BY <1>1, <1>2, <1>3, <1>4, <1>5, <1>7, <2>3, <2>5, <2>6 DEF o, t, n
<1> QED BY <1>6, <1>7

(* It goes on to the next token, or the pass ends.                         *)
LEMMA PreParseSteps ==
  ASSUME Shape, PreParseType
  PROVE  LET o == PlainType(Token)
         IN \/ /\ pass' = pass /\ at' = at + 1
               /\ preSuper' = IF Opens(Token) THEN Push(preSuper, o) ELSE preSuper
            \/ pass' \in Failed /\ at' = at /\ preSuper' = preSuper
<1>1. pass = "preparse"
  BY DEF PreParseType, Reading
<1>2. pass' \in Failed \cup {pass} /\ pass \notin Failed
  BY <1>1 DEF PreParseType, PreParseEnds, Failed
<1>3. /\ at' = IF pass' = pass THEN at + 1 ELSE at
      /\ preSuper' = IF Opens(Token) /\ pass' = pass THEN Push(preSuper, PlainType(Token)) ELSE preSuper
  BY DEF PreParseType
<1> QED BY <1>2, <1>3

(* One entry of the file's table is taken out and one put in.              *)
LEMMA PreParseEntry ==
  ASSUME Shape, PreParseType
  PROVE  LET n == Token.name
             o == PlainType(Token)
             key == EntryKey
         IN /\ nameTypeMap' = [nameTypeMap EXCEPT ![file] = nameTypeMap'[file]]
            /\ Reentered(nameTypeMap[file], nameTypeMap'[file], <<n>>, key, o)
            /\ \/ key = <<n>> /\ (ToMove => pass' = "endless")
               \/ /\ ToMove /\ Len(key) \in Nat \ {0} /\ key[Len(key)] = object[o].name
                  /\ Len(key) = 1 => object'[o].cont = Null /\ key = <<object[o].name>>
<1> DEFINE n == Token.name
           o == PlainType(Token)
           entered == Bind(nameTypeMap[file], <<n>>, o)
<1>1. nameTypeMap' = [nameTypeMap EXCEPT ![file] =
                        IF ToMove /\ pass' # "endless" THEN MovedTo(entered, Token, object', o) ELSE entered]
  BY DEF PreParseType, ToMove
<1>2. file \in Files /\ nameTypeMap = [f \in Files |-> nameTypeMap[f]]
  BY DEF Shape
<1>3. /\ nameTypeMap'[file] = IF ToMove /\ pass' # "endless"
                              THEN Bind(Unbind(entered, <<n>>), Mangled(object', o), o) ELSE entered
      /\ nameTypeMap' = [nameTypeMap EXCEPT ![file] = nameTypeMap'[file]]
  BY <1>1, <1>2 DEF MovedTo
<1>4. CASE ToMove /\ pass' # "endless"
  <2>1. o \in Object /\ Len(object') = Len(object) /\ object'[o].name = object[o].name
    BY <1>4, PreParseFacts
  <2>2. o \in 1 .. Len(object') /\ Len(object') \in Nat
    BY <2>1 DEF Object, Shape
  <2>3. LET key == Mangled(object', o)
        IN Len(key) \in Nat \ {0} /\ key[Len(key)] = object'[o].name
           /\ (Len(key) = 1 => object'[o].cont = Null /\ key = <<object'[o].name>>)
    BY <2>2, MangledShape
  <2>4. EntryKey = Mangled(object', o)
    BY <1>4 DEF EntryKey
  <2>5. Reentered(nameTypeMap[file], nameTypeMap'[file], <<n>>, EntryKey, o)
    BY <1>3, <1>4, <2>4, MovedEntry
  <2> QED BY <1>3, <1>4, <2>1, <2>3, <2>4, <2>5
<1>5. CASE ~ (ToMove /\ pass' # "endless")
  <2>1. EntryKey = <<n>>
    BY <1>5 DEF EntryKey
  <2>2. Reentered(nameTypeMap[file], nameTypeMap'[file], <<n>>, EntryKey, o)
    BY <1>3, <1>5, <2>1, MovedEntry
  <2> QED BY <1>3, <1>5, <2>1, <2>2
<1> QED BY <1>4, <1>5

(* The declarations that the PreParser has entered, and those that the     *)
(* Parser has read.                                                        *)
Registered(f, p) ==
  \/ pass \in {"parse", "accepted"}
  \/ pass \in FirstPasses /\ f < file
  \/ pass = "preparse" /\ f = file /\ p < at
WasParsed(f, p) == pass = "accepted" \/ (pass = "parse" /\ (f < file \/ (f = file /\ p < at)))

(* Every name that was entered is in the table of plain names.             *)
Known ==
  \A f \in Files : \A p \in Decls(f) :
    Registered(f, p) => Text(f)[p].name \in DOMAIN unmangledTypeMap[f]

(* The types of a file, and those that are open in it, are in the table of *)
(* plain names.                                                            *)
TypesOf(f) == {unmangledTypeMap[f][n] : n \in DOMAIN unmangledTypeMap[f]} \ {Null}
Filled ==
   /\ \A f \in Files : Range(types[f]) \subseteq TypesOf(f)
   /\ pass \in FirstPasses => parserSuper = <<>> /\ \A f \in Files : types[f] = <<>>
   /\ pass = "parse" => Range(parserSuper) \subseteq TypesOf(file)

LEMMA TypesAreObjects ==
  ASSUME Shape, NEW f \in Files
  PROVE  TypesOf(f) \subseteq Object
BY DEF Shape, TypesOf

(* What is open is an object.                                              *)
LEMMA ParserSuperFacts ==
  ASSUME Shape, Filled, pass = "parse", parserSuper # <<>>
  PROVE  /\ Last(parserSuper) \in TypesOf(file) /\ Last(parserSuper) \in Object
         /\ Len(parserSuper) \in DOMAIN parserSuper
<1>1. parserSuper \in Seq(Nat) /\ file \in Files
  BY DEF Shape
<1>2. Len(parserSuper) \in DOMAIN parserSuper
  BY <1>1
<1>3. Last(parserSuper) \in Range(parserSuper)
  BY <1>2 DEF Last, Range
<1> QED BY <1>1, <1>2, <1>3, TypesAreObjects DEF Filled

(* ParseType reads one head into the object of that name and kind, or      *)
(* fails.                                                                  *)
LEMMA ParseFacts ==
  ASSUME Shape, Known, Filled, ParseType, pass' = pass
  PROVE  LET o == TypeAt(Token)
         IN /\ Token.name \in DOMAIN unmangledTypeMap[file] /\ o = unmangledTypeMap[file][Token.name]
            /\ o \in Object /\ o \in TypesOf(file) /\ object[o].kind = Token.kind
            /\ object' \in Seq(Record) /\ Len(object') = Len(object) /\ DOMAIN object' = Object
            /\ \A a \in Object :
                 /\ object'[a].name = object[a].name /\ object'[a].kind = object[a].kind
                 /\ a # o => object'[a] = object[a]
            /\ object'[o].cont \in {Null} \cup Object /\ object'[o].extending \in {Null} \cup Object
            /\ object'[o].cont = ContainerOf(object[o], Token)
            /\ parserSuper' = IF Opens(Token) THEN Push(parserSuper, o) ELSE parserSuper
            /\ types' = IF Opens(Token) THEN types ELSE [types EXCEPT ![file] = Append(@, o)]
            /\ at' = at + 1
<1> DEFINE o == TypeAt(Token)
           r == Parsed(object[o], Token)
<1>1. /\ pass = "parse" /\ Token \in TypeHead /\ at \in Decls(file) /\ Token = Text(file)[at]
      /\ at \in DOMAIN Text(file) /\ at \in Nat \ {0}
  BY TokenFacts DEF ParseType, Token
<1>2. Token.name \in DOMAIN unmangledTypeMap[file]
  BY <1>1 DEF Known, Registered, Shape
<1>3. o = unmangledTypeMap[file][Token.name] /\ o \in {Null} \cup Object
  BY <1>2 DEF TypeAt, Shape
<1>4. pass' = ParseEnds(Token)
  BY DEF ParseType
<1>5. KindOf(object, o) = Token.kind /\ ExtendsEnds(Token) = pass /\ ImplementsEnds(Token) = pass
  BY <1>1, <1>4 DEF ParseEnds
<1>6. Token.kind \in Kind
  BY <1>1 DEF TypeHead
<1>7. o # Null /\ object[o].kind = Token.kind
  BY <1>5, <1>6 DEF KindOf, Kind, Containable
<1>8. object \in Seq(Record) /\ Len(object) \in Nat /\ Object = 1 .. Len(object) /\ Object = DOMAIN object
  BY DEF Shape, Object
<1>9. object[o] \in Record /\ object[o].cont \in {Null} \cup Object /\ object[o].extending \in {Null} \cup Object
  BY <1>3, <1>7, <1>8 DEF Shape, Contained, Null
<1>10. Token.extends # <<>> => Superclass(Token) \in Object
  <2> SUFFICES ASSUME Token.extends # <<>> PROVE Superclass(Token) \in Object
    OBVIOUS
  <2>1. KindFound(Superclass(Token)) = "class"
    BY <1>1, <1>5 DEF ExtendsEnds
  <2> QED BY <2>1, <1>8 DEF KindFound
<1>11. Token.implements # <<>> => Extended(Token) \in Object
  <2> SUFFICES ASSUME Token.implements # <<>> PROVE Extended(Token) \in Object
    OBVIOUS
  <2>1. KindFound(Extended(Token)) = "interface"
    BY <1>1, <1>5 DEF ImplementsEnds
  <2> QED BY <2>1, <1>8 DEF KindFound
<1>12. ContainerOf(object[o], Token) \in {Null} \cup Object
  BY <1>1, <1>9, ParserSuperFacts DEF ContainerOf
<1> DEFINE parsed == Append(object[o].parsed, <<file, at>>)
           implementing == IF Token.implements = <<>> THEN object[o].implementing
                           ELSE Append(object[o].implementing, Extended(Token))
           extending == IF Token.extends = <<>> THEN object[o].extending ELSE Superclass(Token)
           cont == ContainerOf(object[o], Token)
<1>13. r = [object[o] EXCEPT !.cont = cont, !.extending = extending, !.implementing = implementing, !.parsed = parsed]
  BY DEF Parsed
<1>14. parsed \in Seq(Nat \X Nat) /\ implementing \in Seq(Nat)
       /\ extending \in {Null} \cup Object /\ cont \in {Null} \cup Object
  <2>1. file \in Nat
    BY ProjectFacts DEF Shape
  <2>2. object[o].parsed \in Seq(Nat \X Nat) /\ object[o].implementing \in Seq(Nat)
    BY <1>9 DEF Record
  <2>3. parsed \in Seq(Nat \X Nat)
    BY <1>1, <2>1, <2>2
  <2>4. implementing \in Seq(Nat)
    BY <1>8, <1>11, <2>2
  <2> QED BY <2>3, <2>4, <1>9, <1>10, <1>12
<1>15. extending \in Nat /\ cont \in Nat
  BY <1>8, <1>14 DEF Null
<1> HIDE DEF parsed, implementing, extending, cont
<1>16. r \in Record /\ r.name = object[o].name /\ r.kind = object[o].kind
       /\ r.cont = cont /\ r.extending = extending
  <2> HIDE DEF r, o
  <2> QED BY <1>9, <1>13, <1>14, <1>15 DEF Record
<1>17. object' = [object EXCEPT ![o] = r]
  BY DEF ParseType
<1> HIDE DEF r, o
<1>18. object' \in Seq(Record) /\ Len(object') = Len(object) /\ DOMAIN object' = Object
       /\ object'[o] = r /\ \A a \in Object : a # o => object'[a] = object[a]
  BY <1>3, <1>7, <1>8, <1>16, <1>17
<1>19. /\ parserSuper' = IF Opens(Token) THEN Push(parserSuper, o) ELSE parserSuper
       /\ types' = IF Opens(Token) THEN types ELSE [types EXCEPT ![file] = Append(@, o)]
       /\ at' = at + 1
  BY DEF ParseType, o
<1>20. o \in Object /\ o \in TypesOf(file)
  BY <1>2, <1>3, <1>7 DEF TypesOf
<1> QED BY <1>2, <1>3, <1>7, <1>14, <1>16, <1>18, <1>19, <1>20 DEF o, cont

LEMMA ParseFails ==
  ASSUME Shape, ParseType, pass' # pass
  PROVE  pass' \in Failed /\ UNCHANGED <<at, object, types, parserSuper>>
<1>1. pass' = ParseEnds(Token)
  BY DEF ParseType
<1>2. pass' \in Failed
  BY <1>1 DEF ParseEnds, ExtendsEnds, ImplementsEnds, Failed
<1> QED BY <1>2 DEF ParseType

(* The stacks are as deep as the text where they read.                     *)
Deep ==
  /\ pass = "index" => preSuper = <<>>
  /\ pass \in {"preparse", "parse"} => at \in Nat \ {0}
  /\ pass = "preparse" => Len(preSuper) = Depth(file, at)
  /\ pass = "parse" => Len(parserSuper) = Depth(file, at)

(* A file that the PreParser has not come to has no plain names.           *)
Fresh ==
  \A f \in Files : pass \in FirstPasses /\ (f > file \/ (pass = "index" /\ f = file)) => DOMAIN unmangledTypeMap[f] = {}

(* An entry under a full name is a type declared in the file, by the last  *)
(* part of that name, or a null that the PreParser has entered.            *)
Declared(f, type) == \E p \in Decls(f) : Text(f)[p].name = type.name /\ Text(f)[p].kind = type.kind
NamedEntry(f, k, o, objects, plain) ==
  /\ Len(k) \in Nat \ {0}
  /\ o # Null => /\ objects[o].name = k[Len(k)] /\ Declared(f, objects[o])
                 /\ Len(k) = 1 => k = <<objects[o].name>>
  /\ o = Null => \E n \in DOMAIN plain : k = <<n>> /\ plain[n] = Null
Named ==
  \A f \in Files : \A k \in DOMAIN nameTypeMap[f] : NamedEntry(f, k, nameTypeMap[f][k], object, unmangledTypeMap[f])

(* An entry under a plain name is a null or a type of that name that the   *)
(* table of full names holds; under the plain name that table holds it or  *)
(* nothing.                                                                *)
UsableEntry(f, n, o, objects, names) ==
  /\ n \in NamesIn(f)
  /\ o # Null => objects[o].name = n /\ \E k \in DOMAIN names : names[k] = o
  /\ Under(names, n) \in {Null, o}
Usable ==
  \A f \in Files : \A n \in DOMAIN unmangledTypeMap[f] :
    UsableEntry(f, n, unmangledTypeMap[f][n], object, nameTypeMap[f])

(* What was read was read into an object.                                  *)
Taken == \A f \in Files : \A p \in Decls(f) : WasParsed(f, p) => unmangledTypeMap[f][Text(f)[p].name] # Null

ResetInv == Shape /\ Deep /\ Known /\ Filled /\ Fresh /\ Named /\ Usable /\ Taken

(* The part of the invariant that EveryTypeReset needs holds at the start. *)
LEMMA InitReset == ASSUME Init PROVE ResetInv
<1>1. project \in Projects /\ Len(project.files) \in Nat \ {0} /\ Files = 1 .. Len(project.files)
  BY ProjectFacts DEF Init
<1>2. 1 \in Files /\ Text(1) \in Seq(TypeHead \cup {Close}) /\ Len(Text(1)) \in Nat
  BY <1>1, ProjectFacts
<1>3. object = <<>> /\ object \in Seq(Record) /\ Object = {}
  BY DEF Init, Object
<1>4. \A f \in Files : DOMAIN nameTypeMap[f] = {} /\ DOMAIN unmangledTypeMap[f] = {} /\ types[f] = <<>>
  BY DEF Init
<1>5. Shape
  <2>1. /\ nameTypeMap = [f \in Files |-> nameTypeMap[f]]
        /\ unmangledTypeMap = [f \in Files |-> unmangledTypeMap[f]]
        /\ types \in [Files -> Seq(Nat)]
    BY DEF Init
  <2>2. Contained(object)
    BY <1>3 DEF Contained
  <2>3. /\ pass \in Passes /\ file \in Files /\ at \in 0 .. Len(Text(file)) + 1
        /\ indexSuper = <<>> /\ preSuper = <<>> /\ parserSuper = <<>>
    BY <1>2 DEF Init, Passes
  <2>4. indexSuper \in Seq(Nat) /\ preSuper \in Seq(Nat) /\ parserSuper \in Seq(Nat)
        /\ DOMAIN indexSuper = {} /\ DOMAIN preSuper = {}
    BY <2>3
  <2> QED BY <1>1, <1>3, <1>4, <2>1, <2>2, <2>3, <2>4, Zenon DEF Shape
<1>6. pass = "index" /\ preSuper = <<>> /\ parserSuper = <<>>
  BY DEF Init
<1>7. Deep /\ Known /\ Fresh /\ Taken /\ Named /\ Usable
  <2>1. Known
    BY <1>1, <1>6 DEF Known, Registered, Init
  <2> QED BY <1>4, <1>6, <2>1 DEF Deep, Fresh, Taken, WasParsed, Named, Usable
<1>8. Filled
  BY <1>4, <1>6 DEF Filled, Range
<1> QED BY <1>5, <1>7, <1>8 DEF ResetInv

-----------------------------------------------------------------------------
(* No step changes the project, so nothing that is said of the text alone. *)
LEMMA SameText ==
  ASSUME [Next]_vars
  PROVE  /\ project' = project /\ Files' = Files
         /\ \A f : Text(f)' = Text(f) /\ Decls(f)' = Decls(f) /\ NamesIn(f)' = NamesIn(f)
         /\ \A f, p : Depth(f, p)' = Depth(f, p)
         /\ \A f, q, p : Encloses(f, q, p)' = Encloses(f, q, p)
         /\ OneKind' = OneKind
<1>1. project' = project
  BY DEF Next, IndexUses, IndexType, IndexOther, EndIndex, PreParseType, PreParseClose, EndPreParse,
         ParseType, ParseClose, EndParse, Stopped, vars
<1>2. Files' = Files /\ \A f : Text(f)' = Text(f)
  BY <1>1 DEF Files, Text
<1>3. \A f : Decls(f)' = Decls(f)
  BY <1>2 DEF Decls
<1>4. \A f : NamesIn(f)' = NamesIn(f)
  BY <1>2, <1>3 DEF NamesIn
<1>5. \A f, p : Depth(f, p)' = Depth(f, p)
  BY <1>2 DEF Depth
<1>6. \A f, q, p : Encloses(f, q, p)' = Encloses(f, q, p)
  BY <1>2, <1>5 DEF Encloses
<1>7. OneKind' = OneKind
  BY <1>2, <1>3 DEF OneKind
<1> QED BY <1>1, <1>2, <1>3, <1>4, <1>5, <1>6, <1>7

(* Behind each token of a text the depth changes by what the token opens   *)
(* or closes; it is above 0 at a close and 0 at the end.                   *)
LEMMA DepthFacts ==
  ASSUME project \in Projects, NEW f \in Files
  PROVE  /\ Depth(f, 1) = 0 /\ Depth(f, Len(Text(f)) + 1) = 0
         /\ \A p \in DOMAIN Text(f) :
              /\ Depth(f, p) \in Int
              /\ Opens(Text(f)[p]) => IsHead(Text(f)[p]) /\ Depth(f, p + 1) = Depth(f, p) + 1
              /\ ~ Opens(Text(f)[p]) /\ IsHead(Text(f)[p]) => Depth(f, p + 1) = Depth(f, p)
              /\ ~ IsHead(Text(f)[p]) => Depth(f, p) > 0 /\ Depth(f, p + 1) = Depth(f, p) - 1
<1>1. Text(f) \in Seq(TypeHead \cup {Close}) /\ Balanced(Text(f))
  BY ProjectFacts
<1>2. \A p : Opens(Text(f)[p]) => IsHead(Text(f)[p])
  BY DEF Opens, IsHead, Kind
<1>3. \A p \in DOMAIN Text(f) :
        /\ Level(Text(f), p) \in Int
        /\ Level(Text(f), p + 1) = Level(Text(f), p) + (IF Opens(Text(f)[p]) THEN 1 ELSE IF IsHead(Text(f)[p]) THEN 0 ELSE -1)
  BY <1>1, LevelStep, Zenon
<1>4. Level(Text(f), 1) = 0
  BY LevelAtStart
<1> QED BY <1>1, <1>2, <1>3, <1>4 DEF Balanced, Depth

(* The depth of a token is never negative.                                 *)
LEMMA DepthNatural ==
  ASSUME project \in Projects, NEW f \in Files, NEW p \in DOMAIN Text(f)
  PROVE  Depth(f, p) \in Nat
<1> DEFINE T == {q \in DOMAIN Text(f) : Depth(f, q) < 0}
<1>1. Len(Text(f)) \in Nat /\ DOMAIN Text(f) = 1 .. Len(Text(f))
  BY ProjectFacts
<1>2. \A q \in DOMAIN Text(f) : Depth(f, q) \in Int
  BY DepthFacts
<1>3. ASSUME T # {} PROVE FALSE
  <2>1. T \in SUBSET Nat
    BY <1>1
  <2> HIDE DEF T
  <2>2. PICK q \in T : \A r \in T : ~ (r < q)
    BY <1>3, <2>1, NatMin
  <2> USE DEF T
  <2>3. q # 1 /\ q \in DOMAIN Text(f) /\ Depth(f, q) < 0
    BY DepthFacts
  <2>4. q - 1 \in DOMAIN Text(f) /\ q - 1 < q /\ (q - 1) + 1 = q
    BY <1>1, <2>3
  <2>5. Depth(f, q - 1) >= 0 /\ Depth(f, q - 1) \in Int
    BY <1>2, <2>2, <2>4
  <2>6. Depth(f, q) >= 0
    <3>1. \/ Depth(f, q) = Depth(f, q - 1) + 1
          \/ Depth(f, q) = Depth(f, q - 1)
          \/ Depth(f, q - 1) > 0 /\ Depth(f, q) = Depth(f, q - 1) - 1
      BY <2>4, DepthFacts
    <3> QED BY <2>5, <3>1
  <2> QED BY <1>2, <2>3, <2>6
<1> QED BY <1>2, <1>3

(* Popping and pushing.                                                    *)
LEMMA FrontFacts ==
  ASSUME NEW S, NEW s \in Seq(S), s # <<>>
  PROVE  Front(s) \in Seq(S) /\ Len(Front(s)) = Len(s) - 1 /\ \A i \in DOMAIN Front(s) : i \in DOMAIN s /\ Front(s)[i] = s[i]
BY DEF Front

LEMMA PushFacts ==
  ASSUME NEW S, NEW s \in Seq(S), NEW e \in S
  PROVE  /\ Push(s, e) \in Seq(S) /\ Len(Push(s, e)) = Len(s) + 1 /\ Push(s, e)[Len(s) + 1] = e
         /\ \A i \in DOMAIN s : i \in DOMAIN Push(s, e) /\ Push(s, e)[i] = s[i]
         /\ \A i \in DOMAIN Push(s, e) :
              \/ i \in DOMAIN s /\ Push(s, e)[i] = s[i]
              \/ i = Len(s) + 1 /\ Push(s, e)[i] = e
<1>1. Push(s, e) \in Seq(S) /\ Len(Push(s, e)) = Len(s) + 1 /\ DOMAIN Push(s, e) = 1 .. Len(s) + 1 /\ DOMAIN s = 1 .. Len(s)
      /\ Len(s) \in Nat
  BY DEF Push
<1>2. Push(s, e)[Len(s) + 1] = e /\ \A i \in DOMAIN s : Push(s, e)[i] = s[i]
  BY DEF Push
<1> QED BY <1>1, <1>2

(* Where a bracket closes, something is open.                              *)
LEMMA CloseFacts ==
  ASSUME Shape, Deep
  PROVE  /\ PreParseClose => preSuper # <<>> /\ pass = "preparse"
         /\ ParseClose => parserSuper # <<>> /\ pass = "parse"
<1>1. \A thePass : Reading(thePass) /\ ~ IsHead(Token) => pass = thePass /\ Depth(file, at) > 0
  BY TokenFacts, DepthFacts DEF Shape, Token
<1> QED BY <1>1 DEF PreParseClose, ParseClose, Deep

(* Each step keeps the parts of the invariant, first those on the place,   *)
(* the objects and the tables.                                             *)
LEMMA DeepStep ==
  ASSUME Shape, Deep, Known, Filled, [Next]_vars
  PROVE  Deep'
<1> USE SameText
<1>1. file \in Files /\ project \in Projects /\ at \in Nat /\ Len(Text(file)) \in Nat
  BY ProjectFacts DEF Shape
<1>2. Depth(file, at)' = Depth(file', at')
  OBVIOUS
<1>3. preSuper \in Seq(Nat) /\ parserSuper \in Seq(Nat)
  BY DEF Shape
<1>4. CASE IndexUses \/ IndexType \/ IndexOther
  BY <1>4 DEF IndexUses, IndexType, IndexOther, Deep, Reading, supers, tables
<1>5. CASE EndIndex
  <2>1. preSuper' = <<>> /\ pass' = "preparse" /\ at' = 1 /\ file' = file
    BY <1>5 DEF EndIndex, Deep, supers
  <2> QED BY <1>1, <2>1, DepthFacts DEF Deep
<1>6. CASE PreParseType
  <2>1. pass = "preparse" /\ at \in DOMAIN Text(file) /\ at \in Nat /\ Token \in TypeHead /\ Token = Text(file)[at] /\ IsHead(Token)
    BY <1>6, TokenFacts DEF PreParseType, Token
  <2>2. file' = file
    BY <1>6 DEF PreParseType
  <2>3. PlainType(Token) \in Nat
    BY <1>6, PreParseFacts, ProjectFacts DEF Null, Object, Shape
  <2>4. CASE pass' \in Failed
    BY <2>4 DEF Failed, Deep
  <2>5. CASE pass' = pass /\ at' = at + 1 /\ preSuper' = IF Opens(Token) THEN Push(preSuper, PlainType(Token)) ELSE preSuper
    <3>1. Len(preSuper') = Depth(file, at + 1)
      <4>1. Depth(file, at) \in Int /\ Depth(file, at + 1) = Depth(file, at) + (IF Opens(Token) THEN 1 ELSE 0)
        BY <1>1, <2>1, DepthFacts
      <4>2. Len(preSuper) = Depth(file, at)
        BY <2>1 DEF Deep
      <4>3. Len(Push(preSuper, PlainType(Token))) = Len(preSuper) + 1
        BY <1>3, <2>3, PushFacts
      <4> QED BY <2>3, <2>5, <4>1, <4>2, <4>3
    <3> QED BY <1>2, <2>1, <2>2, <2>5, <3>1 DEF Deep
  <2> QED BY <1>6, <2>4, <2>5, PreParseSteps
<1>7. CASE PreParseClose
  <2>1. /\ preSuper # <<>> /\ pass = "preparse" /\ pass' = pass /\ at' = at + 1 /\ preSuper' = Front(preSuper) /\ file' = file
        /\ at \in DOMAIN Text(file) /\ ~ IsHead(Text(file)[at])
    BY <1>7, CloseFacts, TokenFacts DEF PreParseClose, Token
  <2>2. Len(preSuper') = Depth(file, at + 1)
    <3>1. Depth(file, at) \in Int /\ Depth(file, at + 1) = Depth(file, at) - 1
      BY <1>1, <2>1, DepthFacts
    <3>2. Len(preSuper) = Depth(file, at)
      BY <2>1 DEF Deep
    <3>3. Len(Front(preSuper)) = Len(preSuper) - 1
      BY <1>3, <2>1, FrontFacts
    <3> QED BY <2>1, <3>1, <3>2, <3>3
  <2> QED BY <1>1, <1>2, <2>1, <2>2 DEF Deep
<1>8. CASE EndPreParse
  <2>1. pass = "preparse" /\ at = Len(Text(file)) + 1 /\ preSuper' = preSuper /\ parserSuper' = parserSuper
    BY <1>8 DEF EndPreParse, supers
  <2>2. preSuper = <<>> /\ parserSuper = <<>>
    BY <1>1, <1>3, <2>1, DepthFacts DEF Deep, Filled, FirstPasses
  <2>3. \/ pass' = "parse" /\ file' = 1 /\ at' = 1
        \/ pass' = "index"
    BY <1>8 DEF EndPreParse
  <2>4. 1 \in Files
    BY ProjectFacts DEF Shape
  <2> QED BY <1>1, <1>2, <2>1, <2>2, <2>3, <2>4, DepthFacts DEF Deep
<1>9. CASE ParseType
  <2>1. pass = "parse" /\ at \in DOMAIN Text(file) /\ at \in Nat /\ Token \in TypeHead /\ Token = Text(file)[at] /\ IsHead(Token)
    BY <1>9, TokenFacts DEF ParseType, Token
  <2>2. file' = file
    BY <1>9 DEF ParseType
  <2>3. CASE pass' # pass
    <3>1. pass' \in Failed
      BY <1>9, <2>3, ParseFails
    <3> QED BY <3>1 DEF Failed, Deep
  <2>4. CASE pass' = pass
    <3>1. /\ TypeAt(Token) \in Nat /\ at' = at + 1
          /\ parserSuper' = IF Opens(Token) THEN Push(parserSuper, TypeAt(Token)) ELSE parserSuper
      BY <1>9, <2>4, ParseFacts DEF Object, Shape
    <3>2. Len(parserSuper') = Depth(file, at + 1)
      <4>1. Depth(file, at) \in Int /\ Depth(file, at + 1) = Depth(file, at) + (IF Opens(Token) THEN 1 ELSE 0)
        BY <1>1, <2>1, DepthFacts
      <4>2. Len(parserSuper) = Depth(file, at)
        BY <2>1 DEF Deep
      <4>3. Len(Push(parserSuper, TypeAt(Token))) = Len(parserSuper) + 1
        BY <1>3, <3>1, PushFacts
      <4> QED BY <2>4, <3>1, <4>1, <4>2, <4>3
    <3> QED BY <1>2, <2>1, <2>2, <2>4, <3>1, <3>2 DEF Deep
  <2> QED BY <2>3, <2>4
<1>10. CASE ParseClose
  <2>1. /\ parserSuper # <<>> /\ pass = "parse" /\ pass' = pass /\ at' = at + 1
        /\ parserSuper' = Front(parserSuper) /\ file' = file
        /\ at \in DOMAIN Text(file) /\ ~ IsHead(Text(file)[at])
    BY <1>10, CloseFacts, TokenFacts DEF ParseClose, Token
  <2>2. Len(parserSuper') = Depth(file, at + 1)
    <3>1. Depth(file, at) \in Int /\ Depth(file, at + 1) = Depth(file, at) - 1
      BY <1>1, <2>1, DepthFacts
    <3>2. Len(parserSuper) = Depth(file, at)
      BY <2>1 DEF Deep
    <3>3. Len(Front(parserSuper)) = Len(parserSuper) - 1
      BY <1>3, <2>1, FrontFacts
    <3> QED BY <2>1, <3>1, <3>2, <3>3
  <2> QED BY <1>1, <1>2, <2>1, <2>2 DEF Deep
<1>11. CASE EndParse
  <2>1. pass = "parse" /\ at = Len(Text(file)) + 1 /\ preSuper' = preSuper /\ parserSuper' = parserSuper
    BY <1>11 DEF EndParse, supers
  <2>2. parserSuper = <<>>
    BY <1>1, <1>3, <2>1, DepthFacts DEF Deep
  <2>3. \/ pass' = "accepted"
        \/ pass' = "parse" /\ file' = file + 1 /\ at' = 1 /\ file # Len(project.files)
    BY <1>11, <2>1 DEF EndParse
  <2>4. file # Len(project.files) => file + 1 \in Files
    BY <1>1, ProjectFacts
  <2> QED BY <1>1, <1>2, <2>1, <2>2, <2>3, <2>4, DepthFacts DEF Deep
<1>12. CASE UNCHANGED vars
  BY <1>12 DEF vars, supers, Deep
<1> QED BY <1>4, <1>5, <1>6, <1>7, <1>8, <1>9, <1>10, <1>11, <1>12 DEF Next, Stopped

(* Shape is about the tables and stacks, and about where the reader is.    *)
Place == pass \in Passes /\ file \in Files /\ at \in 0 .. Len(Text(file)) + 1
Objects == object \in Seq(Record) /\ Contained(object) /\ \A o \in Object : object[o].extending \in {Null} \cup Object
Maps ==
  /\ nameTypeMap = [f \in Files |-> nameTypeMap[f]]
  /\ \A f \in Files : \A k \in DOMAIN nameTypeMap[f] : nameTypeMap[f][k] \in {Null} \cup Object
  /\ unmangledTypeMap = [f \in Files |-> unmangledTypeMap[f]]
  /\ \A f \in Files : \A n \in DOMAIN unmangledTypeMap[f] : unmangledTypeMap[f][n] \in {Null} \cup Object
  /\ types \in [Files -> Seq(Nat)]
Supers ==
  /\ indexSuper \in Seq(Nat) /\ preSuper \in Seq(Nat) /\ parserSuper \in Seq(Nat)
  /\ \A i \in DOMAIN indexSuper : indexSuper[i] \in Object /\ object[indexSuper[i]].kind = "enum"
  /\ \A i \in DOMAIN preSuper : preSuper[i] \in {Null} \cup Object

LEMMA PlaceStep ==
  ASSUME Shape, [Next]_vars
  PROVE  Place'
<1> USE SameText
<1>1. /\ file \in Files /\ project \in Projects /\ pass \in Passes /\ at \in 0 .. Len(Text(file)) + 1
      /\ Len(Text(file)) \in Nat
  BY ProjectFacts DEF Shape
<1>2. Len(project.files) \in Nat \ {0} /\ Files = 1 .. Len(project.files)
      /\ \A f \in Files : Len(Text(f)) \in Nat
  BY <1>1, ProjectFacts
<1>3. CASE IndexUses \/ EndIndex \/ UNCHANGED vars
  BY <1>1, <1>3 DEF IndexUses, EndIndex, vars, Place, Passes
<1>4. CASE IndexType \/ IndexOther \/ PreParseClose \/ ParseClose
  BY <1>1, <1>4 DEF IndexType, IndexOther, PreParseClose, ParseClose, Reading, Place
<1>5. CASE PreParseType
  <2>1. file' = file /\ Reading("preparse")
    BY <1>5 DEF PreParseType
  <2>2. \/ pass' \in Failed /\ at' = at
        \/ pass' = pass /\ at' = at + 1
    BY <1>5, PreParseSteps
  <2> QED BY <1>1, <2>1, <2>2 DEF Place, Passes, Failed, Reading
<1>6. CASE ParseType
  <2>1. file' = file /\ Reading("parse") /\ (pass' = pass => at' = at + 1)
    BY <1>6 DEF ParseType
  <2>2. \/ pass' \in Failed /\ at' = at
        \/ pass' = pass
    BY <1>6, ParseFails
  <2> QED BY <1>1, <2>1, <2>2 DEF Place, Passes, Failed, Reading
<1>7. CASE EndPreParse \/ EndParse
  <2>1. pass' \in Passes /\ at' \in {0, 1, at}
        /\ (file' = 1 \/ file' = file \/ (file' = file + 1 /\ file # Len(project.files)))
        /\ (at' = at => file' = file \/ at' \in {0, 1})
    BY <1>1, <1>7 DEF EndPreParse, EndParse, Passes
  <2>2. file' \in Files
    BY <1>1, <1>2, <2>1
  <2> QED BY <1>1, <1>2, <2>1, <2>2 DEF Place
<1> QED BY <1>3, <1>4, <1>5, <1>6, <1>7 DEF Next, Stopped

LEMMA ObjectFacts ==
  ASSUME Shape
  PROVE  /\ object \in Seq(Record) /\ Len(object) \in Nat /\ Object = 1 .. Len(object) /\ Object = DOMAIN object
         /\ \A o \in Object : object[o].cont \in {Null} \cup Object /\ object[o].extending \in {Null} \cup Object
         /\ {Null} \cup Object \subseteq Nat
<1>1. object \in Seq(Record) /\ Contained(object) /\ \A o \in Object : object[o].extending \in {Null} \cup Object
  BY DEF Shape
<1>2. Len(object) \in Nat /\ Object = 1 .. Len(object) /\ Object = DOMAIN object
  BY <1>1 DEF Object
<1>3. \A o \in Object : object[o].cont \in {Null} \cup Object
  BY <1>1, <1>2 DEF Contained, Null
<1>4. {Null} \cup Object \subseteq Nat
  BY <1>2 DEF Null
<1> QED BY <1>1, <1>2, <1>3, <1>4

(* What a step does with the objects.                                      *)
LEMMA SameObjects ==
  ASSUME [Next]_vars, ~ IndexType, ~ PreParseType, ~ (ParseType /\ pass' = pass)
  PROVE  object' = object
BY DEF Next, IndexUses, IndexOther, EndIndex, PreParseClose, EndPreParse, ParseType, ParseClose, EndParse, Stopped, vars, tables

LEMMA ObjectsStep ==
  ASSUME Shape, Known, Filled, [Next]_vars
  PROVE  Objects' /\ Object \subseteq Object' /\ \A o \in Object : object'[o].kind = object[o].kind /\ object'[o].name = object[o].name
<1>1. object \in Seq(Record) /\ Len(object) \in Nat /\ Object = 1 .. Len(object) /\ Object = DOMAIN object
      /\ (\A o \in Object : object[o].cont \in {Null} \cup Object /\ object[o].extending \in {Null} \cup Object)
  BY ObjectFacts
<1>2. CASE IndexType
  <2> DEFINE o == Len(object) + 1
             new == NewType(Token, Innermost(indexSuper))
  <2>1. /\ new.cont \in {Null} \cup Object /\ new.extending = Null
        /\ object' \in Seq(Record) /\ Len(object') = o /\ DOMAIN object' = Object \cup {o} /\ object'[o] = new
        /\ \A a \in Object : object'[a] = object[a]
    BY <1>2, IndexFacts
  <2> HIDE DEF new, o
  <2>2. Object' = Object \cup {o}
    BY <2>1 DEF Object
  <2>3. o = Len(object) + 1
    BY DEF o
  <2>4. \A a \in Object' : object'[a].cont \in {Null} \cup Object /\ object'[a].extending \in {Null} \cup Object
    BY <1>1, <2>1, <2>2
  <2>5. Contained(object)'
    BY <1>1, <2>1, <2>2, <2>3, <2>4 DEF Contained, Null
  <2> QED BY <2>1, <2>2, <2>4, <2>5 DEF Objects
<1>3. CASE PreParseType
  <2>1. /\ object' \in Seq(Record) /\ Len(object') = Len(object) /\ DOMAIN object' = Object
        /\ \A a \in Object : /\ object'[a].name = object[a].name /\ object'[a].kind = object[a].kind
                             /\ object'[a].extending = object[a].extending
                             /\ object'[a].cont \in {Null} \cup Object
    BY <1>1, <1>3, PreParseFacts
  <2>2. Object' = Object
    BY <2>1 DEF Object
  <2>3. Contained(object)'
    BY <1>1, <2>1 DEF Contained, Null
  <2> QED BY <1>1, <2>1, <2>2, <2>3 DEF Objects
<1>4. CASE ParseType /\ pass' = pass
  <2>1. /\ object' \in Seq(Record) /\ Len(object') = Len(object) /\ DOMAIN object' = Object
        /\ \A a \in Object : /\ object'[a].name = object[a].name /\ object'[a].kind = object[a].kind
                             /\ object'[a].extending \in {Null} \cup Object
                             /\ object'[a].cont \in {Null} \cup Object
    BY <1>1, <1>4, ParseFacts
  <2>2. Object' = Object
    BY <2>1 DEF Object
  <2>3. Contained(object)'
    BY <1>1, <2>1 DEF Contained, Null
  <2> QED BY <1>1, <2>1, <2>2, <2>3 DEF Objects
<1>5. CASE object' = object
  BY <1>5 DEF Shape, Objects, Object
<1> QED BY <1>2, <1>3, <1>4, <1>5, SameObjects

(* An entry that is there after another took its place is that one or an   *)
(* old one.                                                                *)
LEMMA ReenteredFacts ==
  ASSUME NEW map, NEW after, NEW old, NEW key, NEW o, Reentered(map, after, old, key, o)
  PROVE  \A k \in DOMAIN after : \/ k = key /\ after[k] = o
                                 \/ k # key /\ k # old /\ k \in DOMAIN map /\ after[k] = map[k]
BY DEF Reentered

LEMMA BindFacts ==
  ASSUME NEW map, NEW key, NEW o
  PROVE  /\ key \in DOMAIN Bind(map, key, o) /\ Bind(map, key, o)[key] = o
         /\ \A k \in DOMAIN map : k \in DOMAIN Bind(map, key, o)
         /\ \A k \in DOMAIN Bind(map, key, o) :
              \/ k = key /\ Bind(map, key, o)[k] = o
              \/ k # key /\ k \in DOMAIN map /\ Bind(map, key, o)[k] = map[k]
BY DEF Bind

LEMMA SameMaps ==
  ASSUME [Next]_vars, ~ IndexType, ~ PreParseType
  PROVE  nameTypeMap' = nameTypeMap /\ unmangledTypeMap' = unmangledTypeMap
BY DEF Next, IndexUses, IndexOther, EndIndex, PreParseClose, EndPreParse, ParseType, ParseClose, EndParse, Stopped, vars, tables

LEMMA SameTypes ==
  ASSUME [Next]_vars, ~ (ParseType /\ pass' = pass), ~ ParseClose
  PROVE  types' = types
BY DEF Next, IndexUses, IndexType, IndexOther, EndIndex, PreParseType, PreParseClose, EndPreParse, ParseType,
       EndParse, Stopped, vars, tables

LEMMA MapsStep ==
  ASSUME Shape, Deep, Known, Filled, [Next]_vars
  PROVE  Maps'
<1> DEFINE GoodNames == nameTypeMap' = [f \in Files |-> nameTypeMap'[f]]
                        /\ \A f \in Files : \A k \in DOMAIN nameTypeMap'[f] : nameTypeMap'[f][k] \in {Null} \cup Object'
           GoodPlain == unmangledTypeMap' = [f \in Files |-> unmangledTypeMap'[f]]
                        /\ \A f \in Files : \A k \in DOMAIN unmangledTypeMap'[f] : unmangledTypeMap'[f][k] \in {Null} \cup Object'
           GoodTypes == types' \in [Files -> Seq(Nat)]
<1>1. /\ nameTypeMap = [f \in Files |-> nameTypeMap[f]]
      /\ \A f \in Files : \A k \in DOMAIN nameTypeMap[f] : nameTypeMap[f][k] \in {Null} \cup Object
      /\ unmangledTypeMap = [f \in Files |-> unmangledTypeMap[f]]
      /\ \A f \in Files : \A k \in DOMAIN unmangledTypeMap[f] : unmangledTypeMap[f][k] \in {Null} \cup Object
      /\ types \in [Files -> Seq(Nat)] /\ file \in Files
  BY DEF Shape
<1>2. Object \subseteq Object' /\ Object \subseteq Nat
  BY ObjectsStep, ObjectFacts
<1>3. GoodNames /\ GoodPlain
  <2>1. CASE IndexType
    <3> DEFINE o == Len(object) + 1
               key == Mangled(object', o)
    <3>1. nameTypeMap' = [nameTypeMap EXCEPT ![file] = Bind(@, key, o)] /\ unmangledTypeMap' = unmangledTypeMap
          /\ o \in DOMAIN object'
      BY <2>1, IndexFacts DEF IndexType
    <3>2. o \in Object'
      BY <3>1 DEF Object
    <3> HIDE DEF o, key
    <3>3. GoodNames
      <4>1. /\ nameTypeMap' = [f \in Files |-> nameTypeMap'[f]]
            /\ nameTypeMap'[file] = Bind(nameTypeMap[file], key, o)
            /\ \A f \in Files : f # file => nameTypeMap'[f] = nameTypeMap[f]
        BY <1>1, <3>1
      <4>2. \A k \in DOMAIN nameTypeMap'[file] : nameTypeMap'[file][k] \in {Null} \cup Object'
        BY <1>1, <1>2, <3>2, <4>1, BindFacts
      <4> QED BY <1>1, <1>2, <4>1, <4>2
    <3>4. GoodPlain
      BY <1>1, <1>2, <3>1
    <3> QED BY <3>3, <3>4
  <2>2. CASE PreParseType
    <3> DEFINE o == PlainType(Token)
               n == Token.name
    <3>1. /\ unmangledTypeMap' = [unmangledTypeMap EXCEPT ![file] = Bind(@, n, o)]
          /\ o \in {Null} \cup Object
      BY <2>2, PreParseFacts
    <3>2. /\ nameTypeMap' = [nameTypeMap EXCEPT ![file] = nameTypeMap'[file]]
          /\ Reentered(nameTypeMap[file], nameTypeMap'[file], <<n>>, EntryKey, o)
      BY <2>2, PreParseEntry
    <3> HIDE DEF o, n
    <3>3. GoodPlain
      <4>1. /\ unmangledTypeMap' = [f \in Files |-> unmangledTypeMap'[f]]
            /\ unmangledTypeMap'[file] = Bind(unmangledTypeMap[file], n, o)
            /\ \A f \in Files : f # file => unmangledTypeMap'[f] = unmangledTypeMap[f]
        BY <1>1, <3>1
      <4>2. \A k \in DOMAIN unmangledTypeMap'[file] : unmangledTypeMap'[file][k] \in {Null} \cup Object'
        BY <1>1, <1>2, <3>1, <4>1, BindFacts
      <4> QED BY <1>1, <1>2, <4>1, <4>2
    <3>4. \A k \in DOMAIN nameTypeMap'[file] : nameTypeMap'[file][k] \in {Null} \cup Object'
      BY <1>1, <1>2, <3>1, <3>2, ReenteredFacts
    <3>5. GoodNames
      BY <1>1, <1>2, <3>2, <3>4
    <3> QED BY <3>3, <3>5
  <2>3. CASE ~ IndexType /\ ~ PreParseType
    BY <1>1, <1>2, <2>3, SameMaps
  <2> QED BY <2>1, <2>2, <2>3
<1>4. GoodTypes
  <2>1. CASE ParseType /\ pass' = pass
    <3>1. TypeAt(Token) \in Nat /\ types' = IF Opens(Token) THEN types ELSE [types EXCEPT ![file] = Append(@, TypeAt(Token))]
      BY <1>2, <2>1, ParseFacts
    <3> QED BY <1>1, <3>1
  <2>2. CASE ParseClose
    <3>1. Last(parserSuper) \in Nat
      BY <1>2, <2>2, CloseFacts, ParserSuperFacts
    <3>2. types' = [types EXCEPT ![file] = Append(@, Last(parserSuper))]
      BY <2>2 DEF ParseClose
    <3> QED BY <1>1, <3>1, <3>2
  <2>3. CASE types' = types
    BY <1>1, <2>3
  <2> QED BY <2>1, <2>2, <2>3, SameTypes
<1> QED BY <1>3, <1>4, SameText DEF Maps

LEMMA SameSupers ==
  ASSUME [Next]_vars
  PROVE  /\ IndexType \/ indexSuper' = indexSuper
         /\ PreParseType \/ PreParseClose \/ preSuper' = preSuper
         /\ (ParseType /\ pass' = pass) \/ ParseClose \/ parserSuper' = parserSuper
BY DEF Next, IndexUses, IndexType, IndexOther, EndIndex, PreParseType, PreParseClose, EndPreParse, ParseType, ParseClose,
       EndParse, Stopped, vars, supers

LEMMA SupersStep ==
  ASSUME Shape, Deep, Known, Filled, [Next]_vars
  PROVE  Supers'
<1>1. /\ indexSuper \in Seq(Nat) /\ preSuper \in Seq(Nat) /\ parserSuper \in Seq(Nat)
      /\ \A i \in DOMAIN indexSuper : indexSuper[i] \in Object /\ object[indexSuper[i]].kind = "enum"
      /\ \A i \in DOMAIN preSuper : preSuper[i] \in {Null} \cup Object
  BY DEF Shape
<1>2. Object \subseteq Object' /\ Object \subseteq Nat /\ \A o \in Object : object'[o].kind = object[o].kind
  BY ObjectsStep, ObjectFacts
<1>3. indexSuper' \in Seq(Nat) /\ \A i \in DOMAIN indexSuper' : indexSuper'[i] \in Object' /\ object'[indexSuper'[i]].kind = "enum"
  <2>1. CASE IndexType
    <3> DEFINE o == Len(object) + 1
    <3>1. /\ o \in DOMAIN object' /\ object'[o] = NewType(Token, Innermost(indexSuper))
      BY <2>1, IndexFacts
    <3>2. o \in Object' /\ object'[o].kind = Token.kind /\ o \in Nat
      BY <3>1, ObjectFacts DEF NewType, Object
    <3>3. indexSuper' = IF Token.kind = "enum" THEN Push(indexSuper, o) ELSE indexSuper
      BY <2>1 DEF IndexType, IndexedWithin
    <3> HIDE DEF o
    <3>4. CASE Token.kind # "enum"
      BY <1>1, <1>2, <3>3, <3>4
    <3>5. CASE Token.kind = "enum"
      <4>1. indexSuper' = Push(indexSuper, o)
        BY <3>3, <3>5
      <4>2. \A i \in DOMAIN indexSuper' :
              \/ i \in DOMAIN indexSuper /\ indexSuper'[i] = indexSuper[i]
              \/ indexSuper'[i] = o
        <5>1. indexSuper \in Seq(Nat)
          BY <1>1
        <5>2. \A i \in DOMAIN Push(indexSuper, o) :
                \/ i \in DOMAIN indexSuper /\ Push(indexSuper, o)[i] = indexSuper[i]
                \/ i = Len(indexSuper) + 1 /\ Push(indexSuper, o)[i] = o
          BY <3>2, <5>1, PushFacts, Zenon
        <5> QED BY <4>1, <5>2, Zenon
      <4>3. indexSuper' \in Seq(Nat)
        BY <1>1, <3>2, <4>1, PushFacts
      <4> QED BY <1>1, <1>2, <3>2, <3>5, <4>2, <4>3
    <3> QED BY <3>4, <3>5
  <2>2. CASE indexSuper' = indexSuper
    BY <1>1, <1>2, <2>2
  <2> QED BY <2>1, <2>2, SameSupers
<1>4. preSuper' \in Seq(Nat) /\ \A i \in DOMAIN preSuper' : preSuper'[i] \in {Null} \cup Object'
  <2>1. CASE preSuper' = preSuper
    BY <1>1, <1>2, <2>1
  <2>2. CASE PreParseClose
    <3>1. preSuper' = Front(preSuper) /\ preSuper # <<>>
      BY <2>2, CloseFacts DEF PreParseClose
    <3> QED BY <1>1, <1>2, <3>1, FrontFacts
  <2>3. CASE PreParseType /\ preSuper' = Push(preSuper, PlainType(Token))
    <3>1. PlainType(Token) \in {Null} \cup Object
      BY <2>3, PreParseFacts
    <3>2. PlainType(Token) \in Nat
      BY <3>1, ObjectFacts
    <3>3. \A i \in DOMAIN preSuper' :
            \/ i \in DOMAIN preSuper /\ preSuper'[i] = preSuper[i]
            \/ preSuper'[i] = PlainType(Token)
      <4>1. preSuper' = Push(preSuper, PlainType(Token)) /\ preSuper \in Seq(Nat)
        BY <1>1, <2>3
      <4>2. \A i \in DOMAIN Push(preSuper, PlainType(Token)) :
              \/ i \in DOMAIN preSuper /\ Push(preSuper, PlainType(Token))[i] = preSuper[i]
              \/ i = Len(preSuper) + 1 /\ Push(preSuper, PlainType(Token))[i] = PlainType(Token)
        BY <3>2, <4>1, PushFacts, Zenon
      <4> QED BY <4>1, <4>2, Zenon
    <3>4. preSuper' \in Seq(Nat)
      BY <1>1, <2>3, <3>2, PushFacts
    <3> QED BY <1>1, <1>2, <3>1, <3>3, <3>4
  <2> QED BY <2>1, <2>2, <2>3, SameSupers, PreParseSteps
<1>5. parserSuper' \in Seq(Nat)
  <2>1. CASE parserSuper' = parserSuper
    BY <1>1, <2>1
  <2>2. CASE ParseClose
    <3>1. parserSuper' = Front(parserSuper) /\ parserSuper # <<>>
      BY <2>2, CloseFacts DEF ParseClose
    <3> QED BY <1>1, <3>1, FrontFacts
  <2>3. CASE ParseType /\ pass' = pass
    <3>1. TypeAt(Token) \in Nat /\ parserSuper' = IF Opens(Token) THEN Push(parserSuper, TypeAt(Token)) ELSE parserSuper
      BY <1>2, <2>3, ParseFacts
    <3> QED BY <1>1, <3>1, PushFacts
  <2> QED BY <2>1, <2>2, <2>3, SameSupers
<1> QED BY <1>3, <1>4, <1>5 DEF Supers

LEMMA ShapeStep ==
  ASSUME Shape, Deep, Known, Filled, [Next]_vars
  PROVE  Shape'
<1>1. project' \in Projects
  BY SameText DEF Shape
<1> QED BY <1>1, PlaceStep, ObjectsStep, MapsStep, SupersStep DEF Shape, Place, Objects, Maps, Supers

-----------------------------------------------------------------------------
(* Places are numbers.                                                     *)
LEMMA PlaceFacts ==
  ASSUME Shape
  PROVE  /\ Files = 1 .. Len(project.files) /\ Len(project.files) \in Nat /\ file \in Files
         /\ pass \in Passes /\ at \in Nat /\ file \in Nat
         /\ \A f \in Files : f \in Nat /\ \A p \in Decls(f) : p \in 1 .. Len(Text(f))
<1>1. project \in Projects /\ file \in Files /\ at \in 0 .. Len(Text(file)) + 1 /\ pass \in Passes
  BY DEF Shape
<1>2. /\ Files = 1 .. Len(project.files) /\ Len(project.files) \in Nat
      /\ \A f \in Files : Text(f) \in Seq(TypeHead \cup {Close})
  BY <1>1, ProjectFacts
<1>3. \A f \in Files : Len(Text(f)) \in Nat /\ DOMAIN Text(f) = 1 .. Len(Text(f))
  BY <1>2
<1>4. at \in Nat
  BY <1>1, <1>3
<1> QED BY <1>1, <1>2, <1>3, <1>4 DEF Decls

(* A step reads at most one declaration.                                   *)
LEMMA RegisteredStep ==
  ASSUME Shape, Deep, [Next]_vars, NEW f \in Files, NEW p \in Decls(f), Registered(f, p)'
  PROVE  Registered(f, p) \/ (PreParseType /\ f = file /\ p = at)
<1>1. p \in 1 .. Len(Text(f)) /\ at \in Nat /\ f \in Nat /\ file \in Nat /\ pass \in Passes
  BY PlaceFacts
<1>2. Files = 1 .. Len(project.files) /\ Len(project.files) \in Nat /\ file \in Files
  BY PlaceFacts
<1>3. CASE IndexUses \/ IndexType \/ IndexOther \/ EndIndex \/ UNCHANGED vars
  <2>1. \/ pass = "index" /\ pass' \in Failed \cup {"index"} /\ file' = file
        \/ pass = "index" /\ pass' = "preparse" /\ file' = file /\ at' = 1
        \/ UNCHANGED vars
    <3>1. CASE IndexUses
      BY <3>1 DEF IndexUses, Failed
    <3>2. CASE IndexType
      BY <3>2 DEF IndexType, Reading
    <3>3. CASE IndexOther
      BY <3>3 DEF IndexOther, Reading
    <3>4. CASE EndIndex
      BY <3>4 DEF EndIndex
    <3> QED BY <1>3, <3>1, <3>2, <3>3, <3>4
  <2>2. CASE UNCHANGED vars
    BY <2>2 DEF vars, Registered, FirstPasses
  <2>3. CASE ~ UNCHANGED vars
    <3>1. ~ (p < 1)
      BY <1>1
    <3> QED BY <2>1, <2>3, <3>1 DEF Registered, FirstPasses, Failed
  <2> QED BY <2>2, <2>3
<1>4. CASE PreParseClose
  <2>1. pass = "preparse" /\ pass' = pass /\ file' = file /\ at' = at + 1 /\ ~ IsHead(Text(file)[at])
    BY <1>4 DEF PreParseClose, Reading, Token
  <2> QED BY <1>1, <2>1 DEF Registered, FirstPasses, Decls
<1>5. CASE PreParseType
  <2>1. pass = "preparse" /\ file' = file
    BY <1>5 DEF PreParseType, Reading
  <2>2. pass' \in Failed \/ (pass' = pass /\ at' = at + 1)
    BY <1>5, PreParseSteps
  <2> QED BY <1>1, <1>5, <2>1, <2>2 DEF Registered, FirstPasses, Failed
<1>6. CASE EndPreParse
  <2>1. /\ pass = "preparse" /\ at = Len(Text(file)) + 1
        /\ \/ file = Len(project.files)
           \/ pass' = "index" /\ file' = file + 1
    BY <1>6 DEF EndPreParse
  <2>2. f < file + 1 => f < file \/ f = file
    BY <1>1
  <2>3. file = Len(project.files) => f < file + 1
    BY <1>1, <1>2
  <2>4. f = file => p < at
    BY <1>1, <2>1
  <2> QED BY <2>1, <2>2, <2>3, <2>4 DEF Registered, FirstPasses
<1>7. CASE ParseType \/ ParseClose \/ EndParse
  BY <1>7 DEF ParseType, ParseClose, EndParse, Reading, Registered
<1> QED BY <1>3, <1>4, <1>5, <1>6, <1>7 DEF Next, Stopped

LEMMA WasParsedStep ==
  ASSUME Shape, Deep, [Next]_vars, NEW f \in Files, NEW p \in Decls(f), WasParsed(f, p)'
  PROVE  WasParsed(f, p) \/ (ParseType /\ pass' = pass /\ f = file /\ p = at)
<1>1. p \in 1 .. Len(Text(f)) /\ at \in Nat /\ f \in Nat /\ file \in Nat /\ pass \in Passes
  BY PlaceFacts
<1>2. Files = 1 .. Len(project.files) /\ Len(project.files) \in Nat /\ file \in Files
  BY PlaceFacts
<1>3. CASE IndexUses \/ IndexType \/ IndexOther \/ EndIndex \/ PreParseClose \/ UNCHANGED vars
  BY <1>1, <1>3 DEF IndexUses, IndexType, IndexOther, EndIndex, PreParseClose, vars, WasParsed, Reading
<1>4. CASE PreParseType
  <2>1. pass' \in Failed \cup {"preparse"}
    BY <1>4, PreParseSteps DEF PreParseType, Reading
  <2> QED BY <2>1 DEF WasParsed, Failed
<1>5. CASE EndPreParse
  BY <1>1, <1>2, <1>5 DEF EndPreParse, WasParsed
<1>6. CASE ParseType
  <2>1. pass = "parse" /\ file' = file /\ (pass' = pass => at' = at + 1)
    BY <1>6 DEF ParseType, Reading
  <2>2. pass' \in Failed \/ pass' = pass
    BY <1>6, ParseFails
  <2> QED BY <1>1, <1>6, <2>1, <2>2 DEF WasParsed, Failed
<1>7. CASE ParseClose
  <2>1. pass = "parse" /\ pass' = pass /\ file' = file /\ at' = at + 1 /\ ~ IsHead(Text(file)[at])
    BY <1>7 DEF ParseClose, Reading, Token
  <2> QED BY <1>1, <2>1 DEF WasParsed, Decls
<1>8. CASE EndParse
  <2>1. /\ pass = "parse" /\ at = Len(Text(file)) + 1
        /\ \/ file = Len(project.files)
           \/ pass' = pass /\ file' = file + 1 /\ at' = 1
    BY <1>8 DEF EndParse
  <2>2. f < file + 1 => f < file \/ f = file
    BY <1>1
  <2>3. file = Len(project.files) => f < file + 1
    BY <1>1, <1>2
  <2>4. f = file => p < at
    BY <1>1, <2>1
  <2>5. ~ (p < 1)
    BY <1>1
  <2> QED BY <2>1, <2>2, <2>3, <2>4, <2>5 DEF WasParsed
<1> QED BY <1>3, <1>4, <1>5, <1>6, <1>7, <1>8 DEF Next, Stopped

(* The table under plain names changes where the PreParser reads a head.   *)
LEMMA PlainStep ==
  ASSUME Shape, [Next]_vars
  PROVE  \/ /\ PreParseType /\ pass = "preparse"
            /\ unmangledTypeMap'[file] = Bind(unmangledTypeMap[file], Token.name, PlainType(Token))
            /\ \A f \in Files : f # file => unmangledTypeMap'[f] = unmangledTypeMap[f]
         \/ unmangledTypeMap' = unmangledTypeMap
<1>1. CASE PreParseType
  <2>1. unmangledTypeMap' = [unmangledTypeMap EXCEPT ![file] = Bind(@, Token.name, PlainType(Token))]
    BY <1>1, PreParseFacts
  <2>2. unmangledTypeMap = [f \in Files |-> unmangledTypeMap[f]] /\ file \in Files
    BY DEF Shape
  <2> QED BY <1>1, <2>1, <2>2 DEF PreParseType, Reading
<1>2. CASE IndexType
  BY <1>2 DEF IndexType
<1> QED BY <1>1, <1>2, SameMaps

(* Each step keeps what is said of the plain names and the types of a      *)
(* file.                                                                   *)
LEMMA KnownStep ==
  ASSUME Shape, Deep, Known, [Next]_vars
  PROVE  Known'
<1> USE SameText
<1> SUFFICES ASSUME NEW f \in Files, NEW p \in Decls(f), Registered(f, p)'
             PROVE  Text(f)[p].name \in DOMAIN unmangledTypeMap'[f]
  BY DEF Known
<1>1. CASE Registered(f, p)
  <2>1. Text(f)[p].name \in DOMAIN unmangledTypeMap[f]
    BY <1>1 DEF Known
  <2>2. file \in Files
    BY DEF Shape
  <2> QED BY <2>1, <2>2, PlainStep, BindFacts
<1>2. CASE PreParseType /\ f = file /\ p = at
  <2>1. unmangledTypeMap'[file] = Bind(unmangledTypeMap[file], Token.name, PlainType(Token)) \/ unmangledTypeMap' = unmangledTypeMap
    BY PlainStep
  <2>2. unmangledTypeMap' = [unmangledTypeMap EXCEPT ![file] = Bind(@, Token.name, PlainType(Token))]
    BY <1>2, PreParseFacts
  <2>3. unmangledTypeMap = [g \in Files |-> unmangledTypeMap[g]]
    BY DEF Shape
  <2> QED BY <1>2, <2>2, <2>3, BindFacts DEF Token
<1> QED BY <1>1, <1>2, RegisteredStep

LEMMA FreshStep ==
  ASSUME Shape, Deep, Fresh, [Next]_vars
  PROVE  Fresh'
<1> USE SameText
<1> DEFINE Later(f) == pass \in FirstPasses /\ (f > file \/ (pass = "index" /\ f = file))
<1> SUFFICES ASSUME NEW f \in Files, Later(f)' PROVE DOMAIN unmangledTypeMap'[f] = {}
  BY DEF Fresh
<1>1. f \in Nat /\ file \in Files /\ file \in Nat
  BY ProjectFacts DEF Shape
<1>2. Later(f) /\ (PreParseType => f # file)
  <2>1. CASE IndexUses \/ IndexType \/ IndexOther \/ EndIndex \/ PreParseClose \/ UNCHANGED vars
    BY <1>1, <2>1 DEF IndexUses, IndexType, IndexOther, EndIndex, PreParseClose, PreParseType, vars, FirstPasses, Reading
  <2>2. CASE PreParseType
    <3>1. pass' \in Failed \cup {"preparse"} /\ file' = file /\ pass = "preparse"
      BY <2>2, PreParseSteps DEF PreParseType, Reading
    <3> QED BY <1>1, <3>1 DEF Failed, FirstPasses
  <2>3. CASE EndPreParse
    BY <1>1, <2>3 DEF EndPreParse, FirstPasses, PreParseType, Reading
  <2>4. CASE ParseType \/ ParseClose \/ EndParse
    <3>1. pass' \in Failed \cup {"parse", "accepted"}
      BY <2>4, ParseFails DEF ParseType, ParseClose, EndParse, Reading
    <3> QED BY <3>1 DEF FirstPasses, Failed
  <2> QED BY <2>1, <2>2, <2>3, <2>4 DEF Next, Stopped
<1>3. DOMAIN unmangledTypeMap[f] = {}
  BY <1>2 DEF Fresh
<1> QED BY <1>2, <1>3, PlainStep

LEMMA FilledStep ==
  ASSUME Shape, Deep, Known, Filled, [Next]_vars
  PROVE  Filled'
<1> USE SameText
<1>1. file \in Files /\ project \in Projects /\ types \in [Files -> Seq(Nat)] /\ parserSuper \in Seq(Nat)
  BY DEF Shape
<1>2. CASE pass \in FirstPasses
  <2>1. ~ ParseType /\ ~ ParseClose /\ types' = types /\ parserSuper' = parserSuper
    BY <1>2, SameTypes, SameSupers DEF ParseType, ParseClose, Reading, FirstPasses
  <2>2. parserSuper = <<>> /\ \A f \in Files : types[f] = <<>>
    BY <1>2 DEF Filled
  <2>3. Range(<<>>) = {}
    BY DEF Range
  <2> QED BY <2>1, <2>2, <2>3 DEF Filled
<1>3. CASE pass = "parse"
  <2>1. unmangledTypeMap' = unmangledTypeMap /\ \A f : TypesOf(f)' = TypesOf(f)
    <3>1. unmangledTypeMap' = unmangledTypeMap
      BY <1>3, PlainStep
    <3> QED BY <3>1 DEF TypesOf
  <2>2. \A f \in Files : Range(types[f]) \subseteq TypesOf(f)
    BY DEF Filled
  <2>3. Range(parserSuper) \subseteq TypesOf(file)
    BY <1>3 DEF Filled
  <2>4. CASE ParseType /\ pass' = pass
    <3> DEFINE o == TypeAt(Token)
    <3>1. /\ o \in TypesOf(file) /\ o \in Nat
          /\ parserSuper' = IF Opens(Token) THEN Push(parserSuper, o) ELSE parserSuper
          /\ types' = IF Opens(Token) THEN types ELSE [types EXCEPT ![file] = Append(@, o)]
      BY <2>4, ParseFacts, ObjectFacts
    <3>2. file' = file
      BY <2>4 DEF ParseType
    <3> HIDE DEF o
    <3>3. Range(Push(parserSuper, o)) \subseteq TypesOf(file)
      BY <1>1, <2>3, <3>1 DEF Range, Push
    <3>4. \A f \in Files : Range(types'[f]) \subseteq TypesOf(f)
      BY <1>1, <2>2, <3>1 DEF Range
    <3>5. Range(parserSuper') \subseteq TypesOf(file)
      BY <2>3, <3>1, <3>3
    <3> QED BY <1>3, <2>1, <2>4, <3>2, <3>4, <3>5 DEF Filled, FirstPasses
  <2>5. CASE ParseClose
    <3>1. /\ types' = [types EXCEPT ![file] = Append(@, Last(parserSuper))]
          /\ parserSuper' = Front(parserSuper) /\ parserSuper # <<>> /\ pass' = pass /\ file' = file
      BY <2>5, CloseFacts DEF ParseClose
    <3>2. Last(parserSuper) \in TypesOf(file)
      BY <1>3, <3>1, ParserSuperFacts
    <3>3. \A f \in Files : Range(types'[f]) \subseteq TypesOf(f)
      BY <1>1, <2>2, <3>1, <3>2 DEF Range
    <3>4. Range(parserSuper') \subseteq TypesOf(file)
      <4>1. \A i \in DOMAIN Front(parserSuper) : i \in DOMAIN parserSuper /\ Front(parserSuper)[i] = parserSuper[i]
        BY <1>1, <3>1, FrontFacts, Zenon
      <4> QED BY <2>3, <3>1, <4>1 DEF Range
    <3> QED BY <1>3, <2>1, <3>1, <3>3, <3>4 DEF Filled, FirstPasses
  <2>6. CASE EndParse
    <3>1. parserSuper' = <<>> /\ types' = types /\ pass' \in {"parse", "accepted"}
      <4>1. at = Len(Text(file)) + 1 /\ types' = types /\ parserSuper' = parserSuper /\ pass' \in {"parse", "accepted"}
        BY <2>6 DEF EndParse, tables, supers
      <4>2. Len(parserSuper) = 0
        BY <1>1, <1>3, <4>1, DepthFacts DEF Deep
      <4> QED BY <1>1, <4>1, <4>2
    <3>2. Range(<<>>) = {}
      BY DEF Range
    <3> QED BY <2>1, <2>2, <3>1, <3>2 DEF Filled, FirstPasses
  <2>7. CASE ParseType /\ pass' # pass
    <3>1. pass' \in Failed /\ types' = types
      BY <2>7, ParseFails
    <3> QED BY <2>1, <2>2, <3>1 DEF Filled, FirstPasses, Failed
  <2>8. CASE UNCHANGED vars
    BY <2>8 DEF vars, tables, supers, Filled, TypesOf
  <2> QED BY <1>3, <2>4, <2>5, <2>6, <2>7, <2>8
          DEF Next, IndexUses, IndexType, IndexOther, EndIndex, PreParseType, PreParseClose, EndPreParse, Reading, Stopped
<1>4. CASE pass \notin FirstPasses \cup {"parse"}
  <2>1. UNCHANGED vars
    BY <1>4 DEF FirstPasses, Next, IndexUses, IndexType, IndexOther, EndIndex, PreParseType, PreParseClose, EndPreParse,
                ParseType, ParseClose, EndParse, Stopped, Reading
  <2> QED BY <2>1 DEF vars, tables, supers, Filled, TypesOf
<1> QED BY <1>2, <1>3, <1>4

LEMMA TakenStep ==
  ASSUME Shape, Deep, Known, Filled, Taken, [Next]_vars
  PROVE  Taken'
<1> USE SameText
<1> SUFFICES ASSUME NEW f \in Files, NEW p \in Decls(f), WasParsed(f, p)'
             PROVE  unmangledTypeMap'[f][Text(f)[p].name] # Null
  BY DEF Taken
<1>1. pass # "preparse"
  <2>1. pass = "preparse" => pass' \in {"preparse", "index", "parse"} \cup Failed
    BY PreParseSteps
       DEF Next, IndexUses, IndexType, IndexOther, EndIndex, PreParseClose, EndPreParse, ParseType, ParseClose, EndParse,
           Stopped, Reading, vars
  <2>2. pass = "preparse" => ~ WasParsed(f, p)
    BY DEF WasParsed
  <2> QED BY <2>1, <2>2, WasParsedStep DEF ParseType, Reading
<1>2. unmangledTypeMap' = unmangledTypeMap
  BY <1>1, PlainStep
<1>3. CASE WasParsed(f, p)
  BY <1>2, <1>3 DEF Taken
<1>4. CASE ParseType /\ pass' = pass /\ f = file /\ p = at
  <2>1. unmangledTypeMap[file][Token.name] \in Object
    BY <1>4, ParseFacts
  <2>2. Null \notin Object
    BY ObjectFacts DEF Null
  <2> QED BY <1>2, <1>4, <2>1, <2>2 DEF Token
<1> QED BY <1>3, <1>4, WasParsedStep

-----------------------------------------------------------------------------
LEMMA NamesStay ==   \* of the objects that there were
  ASSUME Shape, Known, Filled, [Next]_vars, NEW o \in Object
  PROVE  /\ o \in Object' /\ object'[o].name = object[o].name /\ object'[o].kind = object[o].kind
         /\ \A f : Declared(f, object'[o]) <=> Declared(f, object[o])
<1>1. o \in Object' /\ object'[o].name = object[o].name /\ object'[o].kind = object[o].kind
  BY ObjectsStep
<1>2. \A f : Declared(f, object'[o]) <=> Declared(f, object[o])
  BY <1>1 DEF Declared
<1> QED BY <1>1, <1>2

(* An entry goes on to say it, unless it is a null whose name is entered.  *)
LEMMA NamedEntryStep ==
  ASSUME Shape, Known, Filled, [Next]_vars, NEW f \in Files, NEW k, NEW o \in {Null} \cup Object, NamedEntry(f, k, o, object, unmangledTypeMap[f]),
         PreParseType /\ f = file => k # <<Token.name>>
  PROVE  NamedEntry(f, k, o, object', unmangledTypeMap'[f])
<1>1. CASE o # Null
  BY <1>1, NamesStay DEF NamedEntry
<1>2. CASE o = Null
  <2>1. PICK n \in DOMAIN unmangledTypeMap[f] : k = <<n>> /\ unmangledTypeMap[f][n] = Null
    BY <1>2 DEF NamedEntry
  <2>2. n \in DOMAIN unmangledTypeMap'[f] /\ unmangledTypeMap'[f][n] = Null
    <3>1. CASE PreParseType /\ f = file
      <4>1. n # Token.name
        BY <2>1, <3>1
      <4>2. unmangledTypeMap'[f] = Bind(unmangledTypeMap[f], Token.name, PlainType(Token))
            \/ unmangledTypeMap' = unmangledTypeMap
        BY <3>1, PlainStep
      <4> QED BY <2>1, <4>1, <4>2 DEF Bind
    <3>2. CASE ~ (PreParseType /\ f = file)
      BY <2>1, <3>2, PlainStep
    <3> QED BY <3>1, <3>2
  <2> QED BY <1>2, <2>1, <2>2 DEF NamedEntry
<1> QED BY <1>1, <1>2

LEMMA NamedStep ==
  ASSUME Shape, Known, Filled, Named, [Next]_vars
  PROVE  Named'
<1> USE SameText
<1> SUFFICES ASSUME NEW f \in Files, NEW k \in DOMAIN nameTypeMap'[f]
             PROVE  NamedEntry(f, k, nameTypeMap'[f][k], object', unmangledTypeMap'[f])
  BY DEF Named, NamedEntry, Declared
<1>1. /\ nameTypeMap = [g \in Files |-> nameTypeMap[g]]
      /\ \A g \in Files : \A l \in DOMAIN nameTypeMap[g] :
           nameTypeMap[g][l] \in {Null} \cup Object /\ NamedEntry(g, l, nameTypeMap[g][l], object, unmangledTypeMap[g])
      /\ file \in Files
  BY DEF Shape, Named
<1>2. ASSUME k \in DOMAIN nameTypeMap[f], nameTypeMap'[f][k] = nameTypeMap[f][k],
             PreParseType /\ f = file => k # <<Token.name>>
      PROVE  NamedEntry(f, k, nameTypeMap'[f][k], object', unmangledTypeMap'[f])
  BY <1>1, <1>2, NamedEntryStep
<1>3. CASE IndexType
  <2> DEFINE o == Len(object) + 1
             key == Mangled(object', o)
  <2>1. /\ nameTypeMap' = [nameTypeMap EXCEPT ![file] = Bind(@, key, o)]
        /\ object'[o] = NewType(Token, Innermost(indexSuper)) /\ o # Null
        /\ Len(key) \in Nat \ {0} /\ key[Len(key)] = Token.name /\ (Len(key) = 1 => key = <<Token.name>>)
    BY <1>3, IndexFacts
  <2>2. ~ PreParseType
    BY <1>3 DEF IndexType, PreParseType, Reading
  <2>3. at \in Decls(file) /\ Token = Text(file)[at] /\ object'[o].name = Token.name /\ object'[o].kind = Token.kind
    BY <1>3, <2>1, TokenFacts DEF IndexType, NewType, Token
  <2> HIDE DEF o, key
  <2>4. Declared(file, object'[o])
    BY <2>3 DEF Declared
  <2>5. NamedEntry(file, key, o, object', unmangledTypeMap'[file])
    BY <2>1, <2>3, <2>4 DEF NamedEntry
  <2>6. CASE f # file
    BY <1>1, <1>2, <2>1, <2>2, <2>6
  <2>7. CASE f = file
    <3>1. nameTypeMap'[f] = Bind(nameTypeMap[f], key, o)
      BY <1>1, <2>1, <2>7
    <3>2. CASE k = key /\ nameTypeMap'[f][k] = o
      BY <2>5, <2>7, <3>2
    <3>3. CASE k \in DOMAIN nameTypeMap[f] /\ nameTypeMap'[f][k] = nameTypeMap[f][k]
      BY <1>2, <2>2, <3>3
    <3> QED BY <3>1, <3>2, <3>3, BindFacts
  <2> QED BY <2>6, <2>7
<1>4. CASE PreParseType
  <2> DEFINE n == Token.name
             o == PlainType(Token)
             key == EntryKey
  <2>1. /\ nameTypeMap' = [nameTypeMap EXCEPT ![file] = nameTypeMap'[file]]
        /\ Reentered(nameTypeMap[file], nameTypeMap'[file], <<n>>, key, o)
        /\ \/ key = <<n>>
           \/ /\ ToMove /\ Len(key) \in Nat \ {0} /\ key[Len(key)] = object[o].name
              /\ Len(key) = 1 => key = <<object[o].name>>
    BY <1>4, PreParseEntry
  <2>2. /\ o = Plain(file, n) /\ o \in {Null} \cup Object /\ (ToMove => o \in Object)
        /\ unmangledTypeMap' = [unmangledTypeMap EXCEPT ![file] = Bind(@, n, o)]
    BY <1>4, PreParseFacts
  <2>3. Null \notin Object /\ unmangledTypeMap = [g \in Files |-> unmangledTypeMap[g]]
    BY ObjectFacts DEF Null, Shape
  <2>4. unmangledTypeMap'[file] = Bind(unmangledTypeMap[file], n, o)
    BY <1>1, <2>2, <2>3
  <2>5. o # Null => object[o].name = n /\ Declared(file, object[o])
    BY <1>1, <2>2 DEF Plain, Under, NamedEntry
  <2>6. Len(<<n>>) = 1 /\ <<n>>[1] = n
    OBVIOUS
  <2> HIDE DEF o, n, key
  <2>7. NamedEntry(file, key, o, object', unmangledTypeMap'[file])
    <3>1. CASE o = Null
      <4>1. key = <<n>>
        BY <2>1, <2>2, <2>3, <3>1
      <4>2. n \in DOMAIN unmangledTypeMap'[file] /\ unmangledTypeMap'[file][n] = Null
        BY <2>4, <3>1, BindFacts
      <4> QED BY <2>6, <3>1, <4>1, <4>2 DEF NamedEntry
    <3>2. CASE o # Null
      <4>1. Len(key) \in Nat \ {0} /\ key[Len(key)] = n /\ (Len(key) = 1 => key = <<n>>)
        <5>1. CASE key = <<n>>
          BY <5>1
        <5>2. CASE /\ ToMove /\ Len(key) \in Nat \ {0} /\ key[Len(key)] = object[o].name
                   /\ Len(key) = 1 => key = <<object[o].name>>
          BY <2>5, <3>2, <5>2
        <5> QED BY <2>1, <5>1, <5>2
      <4>2. o \in Object
        BY <2>2, <3>2
      <4> QED BY <2>5, <3>2, <4>1, <4>2, NamesStay DEF NamedEntry
    <3> QED BY <3>1, <3>2
  <2>8. CASE f # file
    BY <1>1, <1>2, <2>1, <2>8
  <2>9. CASE f = file
    <3>1. CASE k = key /\ nameTypeMap'[f][k] = o
      BY <2>7, <2>9, <3>1
    <3>2. CASE k # <<n>> /\ k \in DOMAIN nameTypeMap[f] /\ nameTypeMap'[f][k] = nameTypeMap[f][k]
      BY <1>2, <3>2 DEF n
    <3> QED BY <2>1, <2>9, <3>1, <3>2, ReenteredFacts
  <2> QED BY <2>8, <2>9
<1>5. CASE ~ IndexType /\ ~ PreParseType
  BY <1>2, <1>5, SameMaps
<1> QED BY <1>3, <1>4, <1>5

LEMMA UsableStep ==
  ASSUME Shape, Deep, Known, Filled, Fresh, Named, Usable, [Next]_vars
  PROVE  Usable'
<1> USE SameText
<1> DEFINE then(f) == unmangledTypeMap'[f]
           Held(f, o) == \E k \in DOMAIN nameTypeMap'[f] : nameTypeMap'[f][k] = o
           PlainThen(f, n) == Under(nameTypeMap'[f], n)
<1> SUFFICES ASSUME NEW f \in Files, NEW n \in DOMAIN unmangledTypeMap'[f]
             PROVE  UsableEntry(f, n, unmangledTypeMap'[f][n], object', nameTypeMap'[f])
  BY DEF Usable, UsableEntry
<1> SUFFICES /\ n \in NamesIn(f)
             /\ then(f)[n] # Null => object'[then(f)[n]].name = n /\ Held(f, then(f)[n])
             /\ PlainThen(f, n) \in {Null, then(f)[n]}
  BY DEF UsableEntry
<1>1. /\ nameTypeMap = [g \in Files |-> nameTypeMap[g]] /\ file \in Files
      /\ \A g \in Files : \A m \in DOMAIN unmangledTypeMap[g] : unmangledTypeMap[g][m] \in {Null} \cup Object
      /\ \A g \in Files : \A k \in DOMAIN nameTypeMap[g] : nameTypeMap[g][k] \in {Null} \cup Object
  BY DEF Shape
<1>2. \A o \in Object : object'[o].name = object[o].name
  BY NamesStay
<1>3. \A m \in DOMAIN unmangledTypeMap[f] :
        LET o == unmangledTypeMap[f][m]
        IN /\ m \in NamesIn(f)
           /\ o # Null => /\ object[o].name = m /\ o \in Object
                          /\ \E k \in DOMAIN nameTypeMap[f] : nameTypeMap[f][k] = o
           /\ Plain(f, m) \in {Null, o}
  BY <1>1 DEF Usable, UsableEntry, Plain
<1>4. CASE nameTypeMap'[f] = nameTypeMap[f] /\ then(f) = unmangledTypeMap[f]
  BY <1>2, <1>3, <1>4 DEF Plain
<1>5. CASE IndexType
  <2>1. /\ nameTypeMap' = [nameTypeMap EXCEPT ![file] = Bind(@, Mangled(object', Len(object) + 1), Len(object) + 1)]
        /\ unmangledTypeMap' = unmangledTypeMap
    BY <1>5, IndexFacts DEF IndexType
  <2>2. f # file
    <3>1. pass = "index"
      BY <1>5 DEF IndexType, Reading
    <3>2. DOMAIN unmangledTypeMap[file] = {}
      BY <1>1, <3>1 DEF Fresh, FirstPasses
    <3> QED BY <2>1, <3>2
  <2> QED BY <1>1, <1>4, <2>1, <2>2
<1>6. CASE PreParseType
  <2> DEFINE t == Token.name
             o == PlainType(Token)
             key == EntryKey
  <2>1. /\ nameTypeMap' = [nameTypeMap EXCEPT ![file] = nameTypeMap'[file]]
        /\ Reentered(nameTypeMap[file], nameTypeMap'[file], <<t>>, key, o)
        /\ \/ key = <<t>>
           \/ ToMove /\ Len(key) \in Nat \ {0} /\ key[Len(key)] = object[o].name
    BY <1>6, PreParseEntry
  <2>2. /\ o = Plain(file, t) /\ o \in {Null} \cup Object
        /\ unmangledTypeMap' = [unmangledTypeMap EXCEPT ![file] = Bind(@, t, o)]
    BY <1>6, PreParseFacts
  <2>3. unmangledTypeMap = [g \in Files |-> unmangledTypeMap[g]]
    BY DEF Shape
  <2>4. then(file) = Bind(unmangledTypeMap[file], t, o)
    BY <1>1, <2>2, <2>3
  <2>5. \A k \in DOMAIN nameTypeMap[file] : nameTypeMap[file][k] # Null => object[nameTypeMap[file][k]].name = k[Len(k)]
    BY <1>1 DEF Named, NamedEntry
  <2>6. \A m : Len(<<m>>) = 1 /\ <<m>>[1] = m
    OBVIOUS
  <2>7. o # Null => object[o].name = t
    BY <1>1, <2>2, <2>5, <2>6 DEF Plain, Under
  <2>8. o = Null => ~ ToMove
    BY <1>6, PreParseFacts, ObjectFacts DEF Null
  <2>9. key[Len(key)] = t
    <3>1. CASE key = <<t>>
      BY <3>1
    <3>2. CASE ToMove /\ Len(key) \in Nat \ {0} /\ key[Len(key)] = object[o].name
      BY <2>7, <2>8, <3>2
    <3> QED BY <2>1, <3>1, <3>2
  <2>10. t \in NamesIn(file)
    BY <1>6, TokenFacts DEF PreParseType, NamesIn, Token
  <2>11. /\ DOMAIN nameTypeMap'[file] = (DOMAIN nameTypeMap[file] \ {<<t>>}) \cup {key}
         /\ nameTypeMap'[file][key] = o
         /\ \A k \in DOMAIN nameTypeMap[file] : k # <<t>> /\ k # key => nameTypeMap'[file][k] = nameTypeMap[file][k]
    BY <2>1 DEF Reentered
  <2> HIDE DEF o, t, key
  <2>12. CASE f # file
    <3>1. nameTypeMap'[f] = nameTypeMap[f]
      BY <1>1, <2>1, <2>12
    <3>2. then(f) = unmangledTypeMap[f]
      BY <2>2, <2>3, <2>12
    <3> QED BY <1>4, <3>1, <3>2
  <2>13. CASE f = file /\ n = t
    <3>1. then(f)[n] = o
      BY <2>4, <2>13, BindFacts
    <3>2. Held(f, o)
      BY <2>11, <2>13
    <3>3. PlainThen(f, n) \in {Null, o}
      BY <2>11, <2>13 DEF Under
    <3> QED BY <1>2, <2>2, <2>7, <2>10, <2>13, <3>1, <3>2, <3>3
  <2>14. CASE f = file /\ n # t
    <3>1. n \in DOMAIN unmangledTypeMap[f] /\ then(f)[n] = unmangledTypeMap[f][n]
      BY <2>4, <2>14, BindFacts
    <3>2. <<n>> # <<t>> /\ <<n>> # key
      BY <2>6, <2>9, <2>14
    <3>3. PlainThen(f, n) = Plain(f, n)
      BY <2>11, <2>14, <3>2 DEF Plain, Under
    <3>4. ASSUME then(f)[n] # Null
          PROVE  Held(f, then(f)[n])
      <4>1. PICK k \in DOMAIN nameTypeMap[f] : nameTypeMap[f][k] = then(f)[n]
        BY <1>3, <3>1, <3>4
      <4>2. k[Len(k)] = n
        BY <1>3, <2>5, <2>14, <3>1, <3>4, <4>1
      <4>3. k # <<t>> /\ k # key
        BY <2>6, <2>9, <2>14, <4>2
      <4> QED BY <2>11, <2>14, <4>1, <4>3
    <3> QED BY <1>2, <1>3, <3>1, <3>3, <3>4
  <2> QED BY <2>12, <2>13, <2>14
<1>7. CASE ~ IndexType /\ ~ PreParseType
  BY <1>4, <1>7, SameMaps
<1> QED BY <1>5, <1>6, <1>7

LEMMA ResetStep ==
  ASSUME ResetInv, [Next]_vars
  PROVE  ResetInv'
BY ShapeStep, DeepStep, KnownStep, FilledStep, FreshStep, NamedStep, UsableStep, TakenStep DEF ResetInv

LEMMA ResetImplies == ASSUME ResetInv PROVE EveryTypeReset
<1> SUFFICES ASSUME pass = "accepted", NEW f \in Files
             PROVE  Range(types[f]) \subseteq Range(nameTypeMap[f]) /\ Null \notin Range(nameTypeMap[f])
  BY DEF EveryTypeReset
<1>1. Range(types[f]) \subseteq TypesOf(f)
  BY DEF ResetInv, Filled
<1>2. TypesOf(f) \subseteq Range(nameTypeMap[f])
  BY DEF ResetInv, Usable, UsableEntry, TypesOf, Range
<1>3. ASSUME NEW k \in DOMAIN nameTypeMap[f], nameTypeMap[f][k] = Null
      PROVE  FALSE
  <2>1. PICK n \in DOMAIN unmangledTypeMap[f] : unmangledTypeMap[f][n] = Null
    BY <1>3 DEF ResetInv, Named, NamedEntry
  <2>2. PICK p \in Decls(f) : Text(f)[p].name = n
    BY DEF ResetInv, Usable, UsableEntry, NamesIn
  <2> QED BY <2>1, <2>2 DEF ResetInv, Taken, WasParsed
<1> QED BY <1>1, <1>2, <1>3 DEF Range

(* Until here the invariant says enough for the reset of the types.        *)
THEOREM ResetInvariant == Spec => []ResetInv
<1>1. Init => ResetInv
  BY InitReset
<1>2. ResetInv /\ [Next]_vars => ResetInv'
  BY ResetStep
<1> QED BY <1>1, <1>2, PTL DEF Spec

(* Generator::reset reaches every type of every file that the front end    *)
(* accepts, and meets no null in the table it walks through                *)
(* (Generator.cpp:497).                                                    *)
THEOREM EveryTypeResetCorrect == Spec => []EveryTypeReset
<1>1. ResetInv => EveryTypeReset
  BY ResetImplies
<1> QED BY <1>1, ResetInvariant, PTL

-----------------------------------------------------------------------------
(* Two files share no object.                                              *)
Apart ==
  \A f, g \in Files : f # g =>
    \A k \in DOMAIN nameTypeMap[f], l \in DOMAIN nameTypeMap[g] :
      nameTypeMap[f][k] = nameTypeMap[g][l] => nameTypeMap[f][k] = Null

(* While types are entered and moved, what is under a plain name has no    *)
(* container.                                                              *)
Unqualified ==
  pass \in FirstPasses =>
    \A f \in Files : \A k \in DOMAIN nameTypeMap[f] :
      Len(k) = 1 /\ nameTypeMap[f][k] # Null => object[nameTypeMap[f][k]].cont = Null

(* Each entry of a table after a step is an old one or the one entered.    *)
LEMMA EntrySteps ==
  ASSUME Shape, [Next]_vars, NEW f \in Files, NEW k \in DOMAIN nameTypeMap'[f]
  PROVE  \/ k \in DOMAIN nameTypeMap[f] /\ nameTypeMap'[f][k] = nameTypeMap[f][k]
            /\ (PreParseType /\ f = file => k # <<Token.name>>)
         \/ IndexType /\ f = file /\ k = Mangled(object', Len(object) + 1) /\ nameTypeMap'[f][k] = Len(object) + 1
         \/ PreParseType /\ f = file /\ k = EntryKey /\ nameTypeMap'[f][k] = PlainType(Token)
<1>1. nameTypeMap = [g \in Files |-> nameTypeMap[g]] /\ file \in Files
  BY DEF Shape
<1>2. CASE IndexType
  <2> DEFINE o == Len(object) + 1
             key == Mangled(object', o)
  <2>1. nameTypeMap' = [nameTypeMap EXCEPT ![file] = Bind(@, key, o)]
    BY <1>2, IndexFacts
  <2>2. ~ PreParseType
    BY <1>2 DEF IndexType, PreParseType, Reading
  <2> HIDE DEF key, o
  <2>3. CASE f = file
    <3>1. nameTypeMap'[f] = Bind(nameTypeMap[f], key, o)
      BY <1>1, <2>1, <2>3
    <3> QED BY <1>2, <2>2, <2>3, <3>1, BindFacts DEF key, o
  <2>4. CASE f # file
    BY <1>1, <2>1, <2>2, <2>4
  <2> QED BY <2>3, <2>4
<1>3. CASE PreParseType
  <2>1. /\ nameTypeMap' = [nameTypeMap EXCEPT ![file] = nameTypeMap'[file]]
        /\ Reentered(nameTypeMap[file], nameTypeMap'[file], <<Token.name>>, EntryKey, PlainType(Token))
    BY <1>3, PreParseEntry
  <2>2. CASE f = file
    BY <1>3, <2>1, <2>2, ReenteredFacts
  <2>3. CASE f # file
    BY <1>1, <2>1, <2>3
  <2> QED BY <2>2, <2>3
<1>4. CASE ~ IndexType /\ ~ PreParseType
  BY <1>4, SameMaps
<1> QED BY <1>2, <1>3, <1>4

(* So an entry of an object that there was is not new.                     *)
LEMMA OldEntry ==
  ASSUME Shape, [Next]_vars, NEW f \in Files, NEW k \in DOMAIN nameTypeMap'[f]
  PROVE  \/ nameTypeMap'[f][k] = Null
         \/ IndexType /\ f = file /\ nameTypeMap'[f][k] = Len(object) + 1
         \/ nameTypeMap'[f][k] \in Object /\ \E l \in DOMAIN nameTypeMap[f] : nameTypeMap[f][l] = nameTypeMap'[f][k]
<1>1. \A l \in DOMAIN nameTypeMap[f] : nameTypeMap[f][l] \in {Null} \cup Object
  BY DEF Shape
<1>2. PreParseType => PlainType(Token) = Plain(file, Token.name)
  BY PreParseFacts
<1>3. Plain(f, Token.name) = Null \/ \E l \in DOMAIN nameTypeMap[f] : nameTypeMap[f][l] = Plain(f, Token.name)
  BY DEF Plain, Under
<1> QED BY <1>1, <1>2, <1>3, EntrySteps

LEMMA ApartStep ==
  ASSUME Shape, Apart, [Next]_vars
  PROVE  Apart'
<1> USE SameText
<1> SUFFICES ASSUME NEW f \in Files, NEW g \in Files, f # g,
                    NEW k \in DOMAIN nameTypeMap'[f], NEW l \in DOMAIN nameTypeMap'[g],
                    nameTypeMap'[f][k] = nameTypeMap'[g][l], nameTypeMap'[f][k] # Null
             PROVE  FALSE
  BY DEF Apart
<1>1. Len(object) + 1 \notin Object
  BY ObjectFacts
<1>2. (\E k2 \in DOMAIN nameTypeMap[f] : nameTypeMap[f][k2] = nameTypeMap'[f][k])
      /\ (\E l2 \in DOMAIN nameTypeMap[g] : nameTypeMap[g][l2] = nameTypeMap'[g][l])
  BY <1>1, OldEntry
<1> QED BY <1>2 DEF Apart

(* The passes follow each other, and only the last two end in acceptance.  *)
LEMMA PassesStep ==
  ASSUME Shape, [Next]_vars
  PROVE  /\ pass' \in FirstPasses => pass \in FirstPasses
         /\ pass' = "parse" => pass = "parse" \/ EndPreParse
         /\ pass' = "accepted" => pass \in {"parse", "accepted"}
         /\ pass' \in {"parse", "accepted"} /\ ~ EndPreParse => ~ PreParseType /\ ~ IndexType
         /\ pass' \in {"parse", "accepted"} /\ ParseType => pass' = pass
<1>1. CASE ParseType
  <2>1. pass = "parse" /\ (pass' \in Failed \/ pass' = pass)
    BY <1>1, ParseFails DEF ParseType, Reading
  <2> QED BY <2>1 DEF FirstPasses, Failed, IndexType, PreParseType, Reading
<1>2. CASE PreParseType
  <2>1. pass = "preparse" /\ (pass' \in Failed \/ pass' = pass)
    BY <1>2, PreParseSteps DEF PreParseType, Reading
  <2> QED BY <2>1 DEF FirstPasses, Failed, ParseType, IndexType, Reading
<1>3. CASE IndexUses \/ IndexType \/ IndexOther \/ EndIndex \/ PreParseClose
  BY <1>3 DEF IndexUses, IndexType, IndexOther, EndIndex, PreParseClose, Reading, ParseType, FirstPasses
<1>4. CASE EndPreParse
  BY <1>4 DEF EndPreParse, FirstPasses, ParseType, Reading
<1>5. CASE ParseClose \/ EndParse
  BY <1>5 DEF ParseClose, EndParse, Reading, IndexType, PreParseType, ParseType, FirstPasses
<1>6. CASE UNCHANGED vars
  BY <1>6 DEF vars, IndexType, PreParseType, Reading, FirstPasses
<1> QED BY <1>1, <1>2, <1>3, <1>4, <1>5, <1>6 DEF Next, Stopped

LEMMA UnqualifiedStep ==
  ASSUME Shape, Known, Filled, Named, Apart, Unqualified, [Next]_vars
  PROVE  Unqualified'
<1> USE SameText
<1> SUFFICES ASSUME pass' \in FirstPasses, NEW f \in Files, NEW k \in DOMAIN nameTypeMap'[f],
                    Len(k) = 1, nameTypeMap'[f][k] # Null
             PROVE  object'[nameTypeMap'[f][k]].cont = Null
  BY DEF Unqualified
<1>1. pass \in FirstPasses
  BY PassesStep
<1>2. ~ ParseType
  BY <1>1 DEF FirstPasses, ParseType, Reading
<1>3. CASE IndexType /\ f = file /\ k = Mangled(object', Len(object) + 1) /\ nameTypeMap'[f][k] = Len(object) + 1
  BY <1>3, IndexFacts
<1>4. CASE PreParseType /\ f = file /\ k = EntryKey /\ nameTypeMap'[f][k] = PlainType(Token)
  <2>1. pass' # "endless"
    BY DEF FirstPasses
  <2>2. \/ k = <<Token.name>> /\ ~ ToMove
        \/ object'[PlainType(Token)].cont = Null
    BY <1>4, <2>1, PreParseEntry
  <2>3. CASE k = <<Token.name>> /\ ~ ToMove
    <3>1. object' = object /\ PlainType(Token) = Plain(file, Token.name)
      BY <1>4, <2>3, PreParseFacts
    <3>2. Plain(file, Token.name) # Null => <<Token.name>> \in DOMAIN nameTypeMap[file]
                                            /\ nameTypeMap[file][<<Token.name>>] = Plain(file, Token.name)
      BY DEF Plain, Under
    <3> QED BY <1>1, <1>4, <2>3, <3>1, <3>2 DEF Unqualified
  <2> QED BY <1>4, <2>2, <2>3
<1>5. CASE k \in DOMAIN nameTypeMap[f] /\ nameTypeMap'[f][k] = nameTypeMap[f][k]
           /\ (PreParseType /\ f = file => k # <<Token.name>>)
  <2> DEFINE o == nameTypeMap[f][k]
  <2>1. o \in Object /\ object[o].cont = Null /\ object[o].name = k[Len(k)] /\ k = <<object[o].name>>
    BY <1>1, <1>5 DEF Shape, Named, NamedEntry, Unqualified
  <2>2. CASE IndexType
    BY <1>5, <2>1, <2>2, IndexFacts
  <2>3. CASE PreParseType
    <3> DEFINE m == PlainType(Token)
    <3>1. m = Plain(file, Token.name) /\ \A a \in Object : a # m => object'[a].cont = object[a].cont
      BY <2>3, PreParseFacts
    <3>2. ASSUME o = m PROVE FALSE
      <4>1. o = nameTypeMap[file][<<Token.name>>] /\ <<Token.name>> \in DOMAIN nameTypeMap[file]
        BY <1>5, <3>1, <3>2 DEF Plain, Under
      <4>2. f = file
        BY <1>5, <4>1 DEF Apart, Shape
      <4>3. object[o].name = Token.name
        BY <1>5, <4>1 DEF Named, NamedEntry, Shape
      <4> QED BY <1>5, <2>1, <2>3, <4>2, <4>3
    <3> QED BY <1>5, <2>1, <3>1, <3>2
  <2>4. CASE ~ IndexType /\ ~ PreParseType
    BY <1>2, <1>5, <2>1, <2>4, SameObjects
  <2> QED BY <2>2, <2>3, <2>4
<1> QED BY <1>3, <1>4, <1>5, EntrySteps

-----------------------------------------------------------------------------
(* The stacks hold what was found for the types that enclose the place.    *)
FoundAbove(f, p, plain, stack) ==
  \A q \in Decls(f) : Encloses(f, q, p) => plain[Text(f)[q].name] \in {Null, stack[Depth(f, q) + 1]}
HeldAbove(f, p, plain, stack) ==
  /\ \A d \in DOMAIN stack : \E q \in Decls(f) : Encloses(f, q, p) /\ Depth(f, q) + 1 = d
  /\ \A q \in Decls(f) : Encloses(f, q, p) => plain[Text(f)[q].name] = stack[Depth(f, q) + 1]
Stacked ==
  /\ pass = "preparse" => FoundAbove(file, at, unmangledTypeMap[file], preSuper)
  /\ pass = "parse" => HeldAbove(file, at, unmangledTypeMap[file], parserSuper)

(* What Stacked says after a step is said of the text that is read before  *)
(* it.                                                                     *)
LEMMA StackedThen ==
  ASSUME [Next]_vars,
         pass' = "preparse" => FoundAbove(file', at', unmangledTypeMap'[file'], preSuper'),
         pass' = "parse" => HeldAbove(file', at', unmangledTypeMap'[file'], parserSuper')
  PROVE  Stacked'
<1>1. \A f, p, plain, stack : FoundAbove(f, p, plain, stack)' = FoundAbove(f, p, plain, stack)
  BY SameText DEF FoundAbove
<1>2. \A f, p, plain, stack : HeldAbove(f, p, plain, stack)' = HeldAbove(f, p, plain, stack)
  BY SameText DEF HeldAbove
<1> QED BY <1>1, <1>2 DEF Stacked

(* A head encloses the next place if it encloses this one and is not       *)
(* closed, or opens here.                                                  *)
LEMMA EnclosesFacts ==
  ASSUME project \in Projects, NEW f \in Files, NEW p \in DOMAIN Text(f), NEW q \in Decls(f)
  PROVE  /\ Encloses(f, q, p) => q \in Nat /\ q < p /\ Depth(f, q) \in Int /\ Depth(f, q) < Depth(f, p)
         /\ Encloses(f, q, p + 1) <=> \/ q = p /\ Opens(Text(f)[p])
                                      \/ Encloses(f, q, p) /\ Depth(f, q) < Depth(f, p + 1)
<1>1. p \in Nat \ {0} /\ q \in Nat \ {0} /\ q \in DOMAIN Text(f) /\ p + 1 \in Nat
  BY ProjectFacts DEF Decls
<1>2. Depth(f, q) \in Int /\ Depth(f, p) \in Int /\ Depth(f, p + 1) \in Int
  <2>1. Depth(f, q) \in Int /\ Depth(f, p) \in Int
    BY <1>1, DepthFacts
  <2>2. Depth(f, p + 1) \in Int
    BY <2>1, DepthFacts
  <2> QED BY <2>1, <2>2
<1>3. Encloses(f, q, p) => q < p /\ Depth(f, q) < Depth(f, p)
  BY <1>1, <1>2 DEF Encloses
<1>4. ASSUME Encloses(f, q, p + 1), q # p PROVE Encloses(f, q, p) /\ Depth(f, q) < Depth(f, p + 1)
  <2>1. q < p /\ Opens(Text(f)[q])
    BY <1>1, <1>4 DEF Encloses
  <2>2. \A r \in q + 1 .. p + 1 : Depth(f, r) > Depth(f, q)
    BY <1>4 DEF Encloses
  <2>3. Depth(f, p + 1) > Depth(f, q) /\ \A r \in q + 1 .. p : Depth(f, r) > Depth(f, q)
    BY <1>1, <2>1, <2>2
  <2> QED BY <1>2, <2>1, <2>3 DEF Encloses
<1>5. ASSUME Encloses(f, q, p), Depth(f, q) < Depth(f, p + 1) PROVE Encloses(f, q, p + 1)
  <2>1. \A r \in q + 1 .. p + 1 : r = p + 1 \/ r \in q + 1 .. p
    BY <1>1
  <2> QED BY <1>1, <1>2, <1>5, <2>1 DEF Encloses
<1>6. ASSUME q = p, Opens(Text(f)[p]) PROVE Encloses(f, q, p + 1)
  <2>1. Depth(f, p + 1) > Depth(f, p) /\ p < p + 1
    BY <1>1, <1>2, <1>6, DepthFacts
  <2>2. \A r \in p + 1 .. p + 1 : r = p + 1
    BY <1>1
  <2> QED BY <1>6, <2>1, <2>2 DEF Encloses
<1>7. Encloses(f, p, p + 1) => Opens(Text(f)[p])
  BY DEF Encloses
<1> QED BY <1>1, <1>2, <1>3, <1>4, <1>5, <1>6, <1>7

(* Nothing encloses the start of a text.                                   *)
LEMMA NothingEncloses ==
  ASSUME NEW f, NEW q \in Nat
  PROVE  /\ q # 0 => ~ Encloses(f, q, 1)
         /\ ~ Encloses(f, q, 0)
BY DEF Encloses

(* A name that is read again in the file is found as before, or not at all.*)
LEMMA ReadAgain ==
  ASSUME Shape, Known, Usable, PreParseType, Token.name \in DOMAIN unmangledTypeMap[file]
  PROVE  PlainType(Token) \in {Null, unmangledTypeMap[file][Token.name]}
<1>1. PlainType(Token) = Plain(file, Token.name)
  BY PreParseFacts
<1> QED BY <1>1 DEF Usable, UsableEntry, Plain, Shape

LEMMA StackedStep ==
  ASSUME Shape, Deep, Known, Filled, Usable, Stacked, [Next]_vars
  PROVE  Stacked'
<1> USE SameText
<1>0. /\ file \in Files /\ project \in Projects /\ preSuper \in Seq(Nat) /\ parserSuper \in Seq(Nat) /\ file' \in Files
      /\ unmangledTypeMap = [f \in Files |-> unmangledTypeMap[f]]
  BY PlaceStep DEF Shape, Place
<1>1. CASE at' \in {0, 1} /\ pass' \in {"preparse", "parse"}
  <2>1. \A q \in Decls(file') : q \in Nat /\ q # 0
    BY <1>0, ProjectFacts DEF Decls
  <2>2. \A q \in Decls(file') : ~ Encloses(file', q, at')
    BY <1>1, <2>1, NothingEncloses
  <2>3. pass' = "parse" => DOMAIN parserSuper' = {}
    <3>1. pass' = "parse" => at' = 1 /\ Len(parserSuper') = Depth(file', at')
      BY <1>1, DeepStep DEF Deep
    <3>2. Depth(file', 1) = 0
      BY <1>0, DepthFacts
    <3>3. parserSuper' \in Seq(Nat)
      BY SupersStep DEF Supers
    <3> QED BY <3>1, <3>2, <3>3
  <2> QED BY <1>1, <2>2, <2>3, StackedThen DEF FoundAbove, HeldAbove
<1>2. CASE pass' \notin {"preparse", "parse"}
  BY <1>2, StackedThen
<1>3. CASE PreParseType /\ pass' = pass
  <2> DEFINE m == PlainType(Token)
             n == Token.name
  <2>1. /\ pass = "preparse" /\ file' = file /\ at' = at + 1 /\ at \in DOMAIN Text(file) /\ Token = Text(file)[at]
    BY <1>3, PreParseSteps, TokenFacts DEF PreParseType, Token, Failed
  <2>2. preSuper' = IF Opens(Token) THEN Push(preSuper, m) ELSE preSuper
    BY <1>3, <2>1, PreParseSteps DEF Failed
  <2>3. unmangledTypeMap'[file] = Bind(unmangledTypeMap[file], n, m)
    <3>1. unmangledTypeMap' = [unmangledTypeMap EXCEPT ![file] = Bind(@, n, m)]
      BY <1>3, PreParseFacts
    <3> QED BY <1>0, <3>1
  <2>4. Len(preSuper) = Depth(file, at) /\ at \in Nat
    BY <2>1 DEF Deep
  <2>5. m \in Nat
    BY <1>3, PreParseFacts, ObjectFacts
  <2>6. n \in DOMAIN unmangledTypeMap[file] => m \in {Null, unmangledTypeMap[file][n]}
    BY <1>3, ReadAgain
  <2>7. ASSUME NEW q \in Decls(file), Encloses(file, q, at + 1)
        PROVE  unmangledTypeMap'[file][Text(file)[q].name] \in {Null, preSuper'[Depth(file, q) + 1]}
    <3>1. CASE q = at /\ Opens(Token)
      <4>1. preSuper' = Push(preSuper, m) /\ preSuper'[Depth(file, q) + 1] = m
        BY <1>0, <2>2, <2>4, <2>5, <3>1, PushFacts
      <4>2. unmangledTypeMap'[file][n] = m
        BY <2>3, BindFacts
      <4> QED BY <2>1, <3>1, <4>1, <4>2
    <3>2. CASE Encloses(file, q, at)
      <4>1. q < at /\ Depth(file, q) \in Int /\ Depth(file, q) < Depth(file, at)
        BY <1>0, <2>1, <3>2, EnclosesFacts
      <4>2. Text(file)[q].name \in DOMAIN unmangledTypeMap[file]
        BY <1>0, <2>1, <4>1 DEF Known, Registered, FirstPasses
      <4>3. unmangledTypeMap[file][Text(file)[q].name] \in {Null, preSuper[Depth(file, q) + 1]}
        BY <2>1, <3>2 DEF Stacked, FoundAbove, HeldAbove
      <4>4. unmangledTypeMap'[file][Text(file)[q].name] \in {Null, unmangledTypeMap[file][Text(file)[q].name]}
        BY <2>3, <2>6, <4>2, BindFacts
      <4>5. preSuper'[Depth(file, q) + 1] = preSuper[Depth(file, q) + 1]
        <5>1. Depth(file, q) >= 0
          BY <1>0, DepthNatural DEF Decls
        <5>2. Depth(file, q) + 1 \in DOMAIN preSuper
          BY <1>0, <2>4, <4>1, <5>1
        <5> QED BY <1>0, <2>2, <2>5, <5>2, PushFacts
      <4> QED BY <4>3, <4>4, <4>5
    <3> QED BY <1>0, <2>1, <2>7, <3>1, <3>2, EnclosesFacts
  <2> QED BY <1>3, <2>1, <2>7, StackedThen DEF FoundAbove
<1>4. CASE PreParseClose
  <2>1. /\ pass = "preparse" /\ pass' = pass /\ file' = file /\ at' = at + 1 /\ at \in DOMAIN Text(file)
        /\ preSuper' = Front(preSuper) /\ preSuper # <<>> /\ unmangledTypeMap' = unmangledTypeMap
    BY <1>4, TokenFacts, CloseFacts DEF PreParseClose, tables
  <2>2. Len(preSuper') = Depth(file, at + 1)
    BY <2>1, DeepStep DEF Deep
  <2>3. ASSUME NEW q \in Decls(file), Encloses(file, q, at + 1)
        PROVE  unmangledTypeMap'[file][Text(file)[q].name] \in {Null, preSuper'[Depth(file, q) + 1]}
    <3>1. ~ Opens(Text(file)[at])
      BY <1>4 DEF PreParseClose, Token, Opens, IsHead, Kind
    <3>2. Encloses(file, q, at) /\ Depth(file, q) < Depth(file, at + 1)
      BY <1>0, <2>1, <2>3, <3>1, EnclosesFacts
    <3>3. Depth(file, q) \in Nat
      BY <1>0, DepthNatural DEF Decls
    <3>4. Depth(file, q) + 1 \in DOMAIN preSuper'
      <4>1. preSuper' \in Seq(Nat)
        BY SupersStep DEF Supers
      <4> QED BY <2>2, <3>2, <3>3, <4>1
    <3>5. preSuper'[Depth(file, q) + 1] = preSuper[Depth(file, q) + 1]
      BY <1>0, <2>1, <3>4, FrontFacts
    <3> QED BY <2>1, <3>2, <3>5 DEF Stacked, FoundAbove, HeldAbove
  <2> QED BY <2>1, <2>3, StackedThen DEF FoundAbove
<1>5. CASE ParseType /\ pass' = pass
  <2> DEFINE o == TypeAt(Token)
             n == Token.name
  <2>1. /\ pass = "parse" /\ file' = file /\ at' = at + 1 /\ at \in DOMAIN Text(file) /\ Token = Text(file)[at]
        /\ at \in Decls(file)
    BY <1>5, TokenFacts, ParseFacts DEF ParseType, Token
  <2>2. /\ parserSuper' = IF Opens(Token) THEN Push(parserSuper, o) ELSE parserSuper
        /\ o = unmangledTypeMap[file][n] /\ o \in Nat
    BY <1>5, ParseFacts, ObjectFacts
  <2>3. unmangledTypeMap' = unmangledTypeMap
    BY <1>5 DEF ParseType
  <2>4. Len(parserSuper) = Depth(file, at) /\ at \in Nat /\ Depth(file, at) \in Nat
    BY <1>0, <2>1, DepthNatural DEF Deep
  <2>5. IF Opens(Token) THEN Depth(file, at + 1) = Depth(file, at) + 1 ELSE Depth(file, at + 1) = Depth(file, at)
    <3>1. IsHead(Token)
      BY <1>5 DEF ParseType
    <3> QED BY <1>0, <2>1, <3>1, DepthFacts
  <2>6. /\ \A d \in DOMAIN parserSuper : d \in DOMAIN parserSuper' /\ parserSuper'[d] = parserSuper[d]
        /\ \A d \in DOMAIN parserSuper' : d \in DOMAIN parserSuper \/ (Opens(Token) /\ d = Depth(file, at) + 1)
        /\ Opens(Token) => parserSuper'[Depth(file, at) + 1] = o
    <3>1. CASE ~ Opens(Token)
      BY <2>2, <3>1
    <3>2. CASE Opens(Token)
      <4> HIDE DEF o
      <4>1. parserSuper' = Push(parserSuper, o) /\ parserSuper \in Seq(Nat) /\ o \in Nat
        BY <1>0, <2>2, <3>2
      <4>2. /\ Push(parserSuper, o)[Len(parserSuper) + 1] = o
            /\ \A i \in DOMAIN parserSuper : i \in DOMAIN Push(parserSuper, o) /\ Push(parserSuper, o)[i] = parserSuper[i]
            /\ \A i \in DOMAIN Push(parserSuper, o) :
                 \/ i \in DOMAIN parserSuper /\ Push(parserSuper, o)[i] = parserSuper[i]
                 \/ i = Len(parserSuper) + 1 /\ Push(parserSuper, o)[i] = o
        BY <4>1, PushFacts, Zenon
      <4> QED BY <2>4, <3>2, <4>1, <4>2
    <3> QED BY <3>1, <3>2
  <2>7. ASSUME NEW q \in Decls(file), Encloses(file, q, at + 1)
        PROVE  unmangledTypeMap'[file][Text(file)[q].name] = parserSuper'[Depth(file, q) + 1]
    <3>1. CASE q = at /\ Opens(Token)
      BY <2>1, <2>2, <2>3, <2>6, <3>1
    <3>2. CASE Encloses(file, q, at)
      <4>1. Depth(file, q) \in Nat /\ Depth(file, q) < Depth(file, at)
        BY <1>0, <2>1, <3>2, EnclosesFacts, DepthNatural DEF Decls
      <4>2. Depth(file, q) + 1 \in DOMAIN parserSuper
        BY <1>0, <2>4, <4>1
      <4> QED BY <2>1, <2>3, <2>6, <3>2, <4>2 DEF Stacked, FoundAbove, HeldAbove
    <3> QED BY <1>0, <2>1, <2>7, <3>1, <3>2, EnclosesFacts
  <2>8. ASSUME NEW d \in DOMAIN parserSuper'
        PROVE  \E q \in Decls(file) : Encloses(file, q, at + 1) /\ Depth(file, q) + 1 = d
    <3>1. CASE Opens(Token) /\ d = Depth(file, at) + 1
      BY <1>0, <2>1, <3>1, EnclosesFacts
    <3>2. CASE d \in DOMAIN parserSuper
      <4>1. PICK q \in Decls(file) : Encloses(file, q, at) /\ Depth(file, q) + 1 = d
        BY <2>1, <3>2 DEF Stacked, FoundAbove, HeldAbove
      <4>2. Depth(file, q) \in Nat /\ Depth(file, q) < Depth(file, at) /\ Depth(file, at) <= Depth(file, at + 1)
        BY <1>0, <2>1, <2>4, <2>5, <4>1, EnclosesFacts, DepthNatural DEF Decls
      <4>3. Depth(file, q) < Depth(file, at + 1)
        BY <2>4, <2>5, <4>2
      <4> QED BY <1>0, <2>1, <4>1, <4>3, EnclosesFacts
    <3> QED BY <2>6, <3>1, <3>2
  <2> QED BY <1>5, <2>1, <2>7, <2>8, StackedThen DEF HeldAbove
<1>6. CASE ParseClose
  <2>1. /\ pass = "parse" /\ pass' = pass /\ file' = file /\ at' = at + 1 /\ at \in DOMAIN Text(file)
        /\ parserSuper' = Front(parserSuper) /\ parserSuper # <<>> /\ unmangledTypeMap' = unmangledTypeMap
    BY <1>6, TokenFacts, CloseFacts DEF ParseClose
  <2>2. Len(parserSuper') = Depth(file, at + 1) /\ parserSuper' \in Seq(Nat)
    BY <2>1, DeepStep, SupersStep DEF Deep, Supers
  <2>3. ~ Opens(Text(file)[at])
    BY <1>6 DEF ParseClose, Token, Opens, IsHead, Kind
  <2>4. \A d \in DOMAIN parserSuper' : d \in DOMAIN parserSuper /\ parserSuper'[d] = parserSuper[d] /\ d \in 1 .. Depth(file, at + 1)
    <3>1. \A d \in DOMAIN Front(parserSuper) : d \in DOMAIN parserSuper /\ Front(parserSuper)[d] = parserSuper[d]
      BY <1>0, <2>1, FrontFacts, Zenon
    <3> QED BY <2>1, <2>2, <3>1
  <2>5. ASSUME NEW q \in Decls(file), Encloses(file, q, at + 1)
        PROVE  unmangledTypeMap'[file][Text(file)[q].name] = parserSuper'[Depth(file, q) + 1]
    <3>1. Encloses(file, q, at) /\ Depth(file, q) < Depth(file, at + 1)
      BY <1>0, <2>1, <2>3, <2>5, EnclosesFacts
    <3>2. Depth(file, q) \in Nat
      BY <1>0, DepthNatural DEF Decls
    <3>3. Depth(file, q) + 1 \in DOMAIN parserSuper'
      BY <2>2, <3>1, <3>2
    <3> QED BY <2>1, <2>4, <3>1, <3>3 DEF Stacked, FoundAbove, HeldAbove
  <2>6. ASSUME NEW d \in DOMAIN parserSuper'
        PROVE  \E q \in Decls(file) : Encloses(file, q, at + 1) /\ Depth(file, q) + 1 = d
    <3>1. PICK q \in Decls(file) : Encloses(file, q, at) /\ Depth(file, q) + 1 = d
      BY <2>1, <2>4, <2>6 DEF Stacked, FoundAbove, HeldAbove
    <3>2. Depth(file, q) \in Nat
      BY <1>0, DepthNatural DEF Decls
    <3>3. Depth(file, q) < Depth(file, at + 1)
      BY <2>2, <2>4, <2>6, <3>1, <3>2
    <3> QED BY <1>0, <2>1, <3>1, <3>3, EnclosesFacts
  <2> QED BY <2>1, <2>5, <2>6, StackedThen DEF HeldAbove
<1>7. CASE EndIndex \/ EndPreParse \/ (EndParse /\ at' = 1)
  BY <1>1, <1>2, <1>7 DEF EndIndex, EndPreParse, EndParse
<1>8. CASE UNCHANGED vars
  BY <1>8, StackedThen DEF vars, tables, supers, Stacked
<1>9. CASE (PreParseType \/ ParseType) /\ pass' # pass
  BY <1>2, <1>9, PreParseSteps, ParseFails DEF Failed
<1>10. CASE IndexUses \/ IndexType \/ IndexOther
  BY <1>2, <1>10 DEF IndexUses, IndexType, IndexOther, Reading
<1>11. CASE EndParse /\ at' # 1
  BY <1>2, <1>11 DEF EndParse
<1> QED BY <1>3, <1>4, <1>5, <1>6, <1>7, <1>8, <1>9, <1>10, <1>11 DEF Next, Stopped

-----------------------------------------------------------------------------
(* A class, namespace or interface is in the type that is found for the    *)
(* head directly around its own.                                           *)
Directly(f, q, p) == Encloses(f, q, p) /\ Depth(f, p) = Depth(f, q) + 1
Within(f, p, q, objects, plain) ==
  LET o == plain[Text(f)[p].name]
      container == plain[Text(f)[q].name]
  IN Directly(f, q, p) /\ o # Null /\ container # Null /\ objects[o].kind \in Containable => objects[o].cont = container
InPlace ==
  \A f \in Files : \A p, q \in Decls(f) : Registered(f, p) => Within(f, p, q, object, unmangledTypeMap[f])

(* What is found under a plain name has that name, and is declared here.   *)
LEMMA PlainNamed ==
  ASSUME Shape, Named, NEW f \in Files, NEW n, Plain(f, n) # Null
  PROVE  /\ Plain(f, n) \in Object /\ object[Plain(f, n)].name = n /\ Declared(f, object[Plain(f, n)])
         /\ \E k \in DOMAIN nameTypeMap[f] : nameTypeMap[f][k] = Plain(f, n)
<1>1. <<n>> \in DOMAIN nameTypeMap[f] /\ nameTypeMap[f][<<n>>] = Plain(f, n)
  BY DEF Plain, Under
<1>2. Len(<<n>>) = 1 /\ <<n>>[1] = n
  OBVIOUS
<1> QED BY <1>1, <1>2 DEF Named, NamedEntry, Shape

(* The Parser writes contType of a class or namespace again: with the      *)
(* container that it has.                                                  *)
LEMMA ParseKeeps ==
  ASSUME Shape, Deep, Known, Filled, Stacked, InPlace, ParseType, pass' = pass, Token.kind # "struct"
  PROVE  object'[TypeAt(Token)].cont = object[TypeAt(Token)].cont
<1> DEFINE o == TypeAt(Token)
<1>1. /\ o = unmangledTypeMap[file][Token.name] /\ o \in Object /\ object[o].kind = Token.kind
      /\ object'[o].cont = ContainerOf(object[o], Token)
  BY ParseFacts
<1>2. /\ pass = "parse" /\ at \in Decls(file) /\ Token = Text(file)[at]
  BY TokenFacts DEF ParseType, Token
<1> HIDE DEF o
<1>3. CASE parserSuper = <<>> \/ Token.kind \notin {"class", "namespace"}
  BY <1>1, <1>3 DEF ContainerOf, o
<1>4. CASE parserSuper # <<>> /\ Token.kind \in {"class", "namespace"}
  <2>1. /\ Last(parserSuper) \in Object /\ Len(parserSuper) \in DOMAIN parserSuper
        /\ Last(parserSuper) = parserSuper[Len(parserSuper)] /\ Null \notin Object
    BY <1>2, <1>4, ParserSuperFacts, ObjectFacts DEF Last, Null
  <2>2. PICK q \in Decls(file) : Encloses(file, q, at) /\ Depth(file, q) + 1 = Len(parserSuper)
    BY <1>2, <2>1 DEF Stacked, HeldAbove
  <2>3. unmangledTypeMap[file][Text(file)[q].name] = Last(parserSuper)
    BY <1>2, <2>1, <2>2 DEF Stacked, HeldAbove
  <2>4. Directly(file, q, at)
    BY <1>2, <2>2 DEF Directly, Deep
  <2>5. Within(file, at, q, object, unmangledTypeMap[file])
    BY <1>2 DEF InPlace, Registered, Shape
  <2>6. object[o].cont = Last(parserSuper)
    BY <1>1, <1>2, <1>4, <2>1, <2>3, <2>4, <2>5 DEF Within, Containable
  <2> QED BY <1>1, <1>4, <2>6 DEF ContainerOf, o
<1> QED BY <1>3, <1>4

LEMMA InPlaceStep ==
  ASSUME Shape, Deep, Known, Filled, Fresh, Named, Usable, Apart, Unqualified, Stacked, InPlace, [Next]_vars
  PROVE  InPlace'
<1> USE SameText
<1>1. ASSUME \A f \in Files : \A p, q \in Decls(f) : Registered(f, p)' => Within(f, p, q, object', unmangledTypeMap'[f])
      PROVE  InPlace'
  <2>1. \A f, p, q, objects, plain : Within(f, p, q, objects, plain)' = Within(f, p, q, objects, plain)
    BY DEF Within, Directly
  <2> QED BY <1>1, <2>1 DEF InPlace
<1> SUFFICES ASSUME NEW f \in Files, NEW p \in Decls(f), NEW q \in Decls(f), Registered(f, p)',
                    Directly(f, q, p),
                    unmangledTypeMap'[f][Text(f)[p].name] # Null, unmangledTypeMap'[f][Text(f)[q].name] # Null,
                    object'[unmangledTypeMap'[f][Text(f)[p].name]].kind \in Containable
             PROVE  object'[unmangledTypeMap'[f][Text(f)[p].name]].cont = unmangledTypeMap'[f][Text(f)[q].name]
  BY <1>1 DEF Within
<1> DEFINE a == Text(f)[p].name
           b == Text(f)[q].name
           o == unmangledTypeMap[f][a]
           container == unmangledTypeMap[f][b]
<1>2. /\ file \in Files /\ project \in Projects /\ f \in Nat /\ file \in Nat /\ at \in Nat
      /\ unmangledTypeMap = [g \in Files |-> unmangledTypeMap[g]]
  BY ProjectFacts DEF Shape
<1>3. p \in Nat /\ q \in Nat /\ q < p /\ p \in DOMAIN Text(f)
  BY <1>2, EnclosesFacts, ProjectFacts DEF Directly, Decls
<1>4. Registered(f, p) => Registered(f, q) /\ a \in DOMAIN unmangledTypeMap[f] /\ b \in DOMAIN unmangledTypeMap[f]
                          /\ o \in {Null} \cup Object /\ container \in {Null} \cup Object
  <2>1. Registered(f, p) => Registered(f, q)
    BY <1>2, <1>3 DEF Registered
  <2> QED BY <2>1 DEF Known, Shape
<1>5. \A x \in Object : object'[x].kind = object[x].kind
  BY NamesStay
<1>6. Registered(f, p) /\ o # Null /\ container # Null /\ object[o].kind \in Containable => object[o].cont = container
  BY DEF InPlace, Within
<1>7. CASE unmangledTypeMap' = unmangledTypeMap /\ ~ PreParseType
  <2>1. Registered(f, p)
    BY <1>7, RegisteredStep
  <2>2. o \in Object /\ object[o].kind \in Containable /\ object[o].cont = container
    BY <1>4, <1>5, <1>6, <1>7, <2>1
  <2>3. object'[o].cont = object[o].cont
    <3>1. CASE IndexType
      BY <2>2, <3>1, IndexFacts
    <3>2. CASE ParseType /\ pass' = pass
      <4>1. o # TypeAt(Token) => object'[o] = object[o]
        BY <2>2, <3>2, ParseFacts
      <4>2. o = TypeAt(Token) => object[o].kind = Token.kind
        BY <3>2, ParseFacts
      <4> QED BY <2>2, <3>2, <4>1, <4>2, ParseKeeps DEF Containable
    <3> QED BY <1>7, <3>1, <3>2, SameObjects
  <2> QED BY <1>7, <2>2, <2>3
<1>8. CASE PreParseType
  <2> DEFINE n == Token.name
             m == PlainType(Token)
  <2>1. /\ pass = "preparse" /\ Token = Text(file)[at] /\ at \in Decls(file)
    BY <1>8, TokenFacts DEF PreParseType, Token
  <2>2. /\ m = Plain(file, n) /\ m \in {Null} \cup Object
        /\ ToMove => preSuper # <<>> /\ object'[m].cont = Last(preSuper)
        /\ ~ ToMove => object' = object
        /\ \A x \in Object : x # m => object'[x].cont = object[x].cont
        /\ unmangledTypeMap' = [unmangledTypeMap EXCEPT ![file] = Bind(@, n, m)]
    BY <1>8, PreParseFacts
  <2>3. \A x \in DOMAIN unmangledTypeMap[file] : x = n => m \in {Null, unmangledTypeMap[file][x]}
    BY <1>8, ReadAgain
  <2>4. Registered(f, p) \/ (f = file /\ p = at)
    BY RegisteredStep
  <2> HIDE DEF n
  <2>5. CASE f # file
    <3>1. unmangledTypeMap'[f] = unmangledTypeMap[f]
      BY <1>2, <2>2, <2>5
    <3>2. o \in Object /\ object[o].kind \in Containable /\ object[o].cont = container
      BY <1>4, <1>5, <1>6, <2>4, <2>5, <3>1
    <3>3. \E k \in DOMAIN nameTypeMap[f] : nameTypeMap[f][k] = o
      BY <1>4, <2>4, <2>5, <3>1 DEF Usable, UsableEntry
    <3>4. o # m
      <4>1. m # Null => \E k \in DOMAIN nameTypeMap[file] : nameTypeMap[file][k] = m
        BY <2>2 DEF Plain, Under
      <4> QED BY <1>2, <2>5, <3>1, <3>3, <4>1 DEF Apart
    <3> QED BY <2>2, <3>1, <3>2, <3>4
  <2>6. CASE f = file /\ a # n
    <3>1. unmangledTypeMap'[f] = Bind(unmangledTypeMap[f], n, m)
      BY <1>2, <2>2, <2>6
    <3>2. p # at
      BY <2>1, <2>6 DEF n
    <3>3. Registered(f, p)
      BY <2>4, <3>2
    <3>4. unmangledTypeMap'[f][a] = o
      BY <1>4, <2>6, <3>1, <3>3, BindFacts
    <3>5. unmangledTypeMap'[f][b] = container
      <4>1. CASE b # n
        BY <1>4, <3>1, <3>3, <4>1, BindFacts
      <4>2. CASE b = n
        <5>1. unmangledTypeMap'[f][b] = m
          BY <3>1, <4>2, BindFacts
        <5>2. m \in {Null, container}
          BY <1>4, <2>3, <2>6, <3>3, <4>2
        <5> QED BY <5>1, <5>2
      <4> QED BY <4>1, <4>2
    <3>6. o \in Object /\ object[o].kind \in Containable /\ object[o].cont = container
      BY <1>4, <1>5, <1>6, <3>3, <3>4, <3>5
    <3>7. o # m
      <4>1. object[o].name = a
        BY <1>4, <3>3, <3>6, ObjectFacts DEF Usable, UsableEntry, Null
      <4>2. m # Null => object[m].name = n
        BY <1>2, <2>2, PlainNamed
      <4> QED BY <2>6, <3>4, <4>1, <4>2
    <3> QED BY <2>2, <3>4, <3>5, <3>6, <3>7
  <2>7. CASE f = file /\ a = n /\ p = at
    <3>1. unmangledTypeMap'[f] = Bind(unmangledTypeMap[f], n, m) /\ unmangledTypeMap'[f][a] = m
      BY <1>2, <2>2, <2>7, BindFacts
    <3>2. m \in Object /\ object[m].kind \in Containable
      BY <1>5, <2>2, <3>1
    <3>3. Encloses(file, q, at) /\ Depth(file, at) = Depth(file, q) + 1
      BY <2>7 DEF Directly
    <3>4. Len(preSuper) = Depth(file, at) /\ Depth(file, q) \in Nat /\ preSuper \in Seq(Nat)
      BY <1>2, <2>1, <2>7, DepthNatural DEF Deep, Shape, Decls
    <3>5. preSuper # <<>> /\ Last(preSuper) = preSuper[Depth(file, q) + 1]
      BY <3>3, <3>4 DEF Last
    <3>6. ToMove
      BY <3>2, <3>5, ObjectFacts DEF ToMove, IsMoved, KindOf, Null
    <3>7. object'[m].cont = Last(preSuper)
      BY <2>2, <3>6
    <3>8. q < at /\ b \in DOMAIN unmangledTypeMap[file]
      BY <1>2, <1>3, <2>1, <2>7 DEF Known, Registered, FirstPasses
    <3>9. container \in {Null, Last(preSuper)}
      BY <2>1, <2>7, <3>3, <3>5 DEF Stacked, FoundAbove
    <3>10. unmangledTypeMap'[f][b] \in {Null, container}
      <4>1. CASE b = n
        BY <2>3, <2>7, <3>1, <3>8, <4>1, BindFacts
      <4>2. CASE b # n
        BY <2>7, <3>1, <3>8, <4>2, BindFacts
      <4> QED BY <4>1, <4>2
    <3> QED BY <3>1, <3>7, <3>9, <3>10
  <2>8. CASE f = file /\ a = n /\ p # at
    <3>1. Registered(f, p) /\ unmangledTypeMap'[f] = Bind(unmangledTypeMap[f], n, m)
      BY <1>2, <2>2, <2>4, <2>8
    <3>2. m # Null /\ m \in Object /\ m = o
      BY <1>4, <2>2, <2>3, <2>8, <3>1, BindFacts
    <3>3. object[o].kind \in Containable
      BY <1>5, <2>8, <3>1, <3>2, BindFacts
    <3>4. object[m].cont = Null
      <4>1. <<n>> \in DOMAIN nameTypeMap[file] /\ m = nameTypeMap[file][<<n>>] /\ Len(<<n>>) = 1
        BY <2>2, <3>2 DEF Plain, Under
      <4> QED BY <1>2, <2>1, <3>2, <4>1 DEF Unqualified, FirstPasses
    <3>5. container = Null
      BY <1>6, <3>1, <3>2, <3>3, <3>4
    <3>6. b # n
      BY <2>8, <3>2, <3>5
    <3>7. unmangledTypeMap'[f][b] = Null
      BY <1>4, <3>1, <3>5, <3>6, BindFacts
    <3> QED BY <3>7
  <2> QED BY <2>5, <2>6, <2>7, <2>8
<1> QED BY <1>7, <1>8, PlainStep

-----------------------------------------------------------------------------
(* Where each name has one kind, nothing is in a struct.                   *)
Holder(objects, o) == o # Null => objects[o].kind # "struct"
NoStructs ==
  OneKind =>
    /\ \A o \in Object : Holder(object, object[o].cont)
    /\ \A i \in DOMAIN preSuper : Holder(object, preSuper[i])
    /\ pass = "parse" => \A i \in DOMAIN parserSuper : Holder(object, parserSuper[i])

(* No object changes its kind.                                             *)
LEMMA HolderStays ==
  ASSUME Shape, Known, Filled, [Next]_vars, NEW o \in {Null} \cup Object, Holder(object, o)
  PROVE  Holder(object', o)
BY NamesStay DEF Holder

LEMMA NoStructsStep ==
  ASSUME Shape, Deep, Known, Filled, Named, NoStructs, [Next]_vars
  PROVE  NoStructs'
<1> USE SameText
<1> SUFFICES ASSUME OneKind
             PROVE  /\ \A o \in Object' : Holder(object', object'[o].cont)
                    /\ \A i \in DOMAIN preSuper' : Holder(object', preSuper'[i])
                    /\ pass' = "parse" => \A i \in DOMAIN parserSuper' : Holder(object', parserSuper'[i])
  <2>1. \A objects, o : Holder(objects, o)' = Holder(objects, o)
    BY DEF Holder
  <2> QED BY <2>1 DEF NoStructs
<1>1. /\ preSuper \in Seq(Nat) /\ parserSuper \in Seq(Nat) /\ file \in Files
      /\ \A i \in DOMAIN preSuper : preSuper[i] \in {Null} \cup Object
  BY DEF Shape
<1>2. pass = "parse" => \A i \in DOMAIN parserSuper : parserSuper[i] \in Object
  BY <1>1, TypesAreObjects DEF Filled, Range
<1>3. /\ \A o \in Object : Holder(object', object[o].cont)
      /\ \A i \in DOMAIN preSuper : Holder(object', preSuper[i])
      /\ pass = "parse" => \A i \in DOMAIN parserSuper : Holder(object', parserSuper[i])
  <2>1. \A o \in Object : object[o].cont \in {Null} \cup Object
    BY ObjectFacts
  <2> QED BY <1>1, <1>2, <2>1, HolderStays DEF NoStructs
<1>4. \A o \in Object' : Holder(object', object'[o].cont)
  <2>1. CASE IndexType
    <3> DEFINE new == Len(object) + 1
    <3>1. /\ Object' = Object \cup {new} /\ \A a \in Object : object'[a] = object[a]
          /\ object'[new].cont \in {Null} \cup Object
          /\ object'[new].cont # Null => object[object'[new].cont].kind = "enum"
      BY <2>1, IndexFacts DEF Object
    <3>2. Holder(object', object'[new].cont)
      BY <3>1 DEF Holder
    <3> QED BY <1>3, <3>1, <3>2
  <2>2. CASE PreParseType
    <3>1. /\ Object' = Object
          /\ \A a \in Object : a # PlainType(Token) => object'[a].cont = object[a].cont
          /\ ToMove => preSuper # <<>> /\ object'[PlainType(Token)].cont = Last(preSuper)
          /\ ~ ToMove => object' = object
      BY <2>2, PreParseFacts DEF Object
    <3>2. ToMove => Holder(object', Last(preSuper))
      BY <1>1, <1>3, <3>1 DEF Last
    <3> QED BY <1>3, <3>1, <3>2
  <2>3. CASE ParseType /\ pass' = pass
    <3>1. /\ Object' = Object
          /\ \A a \in Object : a # TypeAt(Token) => object'[a] = object[a]
          /\ TypeAt(Token) \in Object
          /\ object'[TypeAt(Token)].cont = ContainerOf(object[TypeAt(Token)], Token)
      BY <2>3, ParseFacts DEF Object
    <3>2. pass = "parse"
      BY <2>3 DEF ParseType, Reading
    <3>3. parserSuper # <<>> => Holder(object', Last(parserSuper))
      BY <1>1, <1>3, <3>2 DEF Last
    <3>4. \/ object'[TypeAt(Token)].cont = object[TypeAt(Token)].cont
          \/ parserSuper # <<>> /\ object'[TypeAt(Token)].cont = Last(parserSuper)
      BY <3>1 DEF ContainerOf
    <3> QED BY <1>3, <3>1, <3>3, <3>4
  <2>4. CASE object' = object
    BY <1>3, <2>4 DEF Object
  <2> QED BY <2>1, <2>2, <2>3, <2>4, SameObjects
<1>5. \A i \in DOMAIN preSuper' : Holder(object', preSuper'[i])
  <2>1. CASE preSuper' = preSuper
    BY <1>3, <2>1
  <2>2. CASE PreParseClose
    <3>1. preSuper' = Front(preSuper) /\ preSuper # <<>>
      BY <2>2, CloseFacts DEF PreParseClose
    <3> QED BY <1>1, <1>3, <3>1, FrontFacts
  <2>3. CASE PreParseType /\ Opens(Token) /\ preSuper' = Push(preSuper, PlainType(Token))
    <3> DEFINE m == PlainType(Token)
    <3>1. m \in {Null} \cup Object /\ m = Plain(file, Token.name) /\ m \in Nat
      BY <2>3, PreParseFacts, ObjectFacts
    <3>2. at \in Decls(file) /\ Token = Text(file)[at]
      BY <2>3, TokenFacts DEF PreParseType, Token
    <3> HIDE DEF m
    <3>3. ASSUME m # Null PROVE object[m].kind # "struct"
      <4>1. object[m].name = Token.name /\ Declared(file, object[m])
        BY <1>1, <3>1, <3>3, PlainNamed
      <4>2. PICK p \in Decls(file) : Text(file)[p].name = Token.name /\ Text(file)[p].kind = object[m].kind
        BY <4>1 DEF Declared
      <4>3. object[m].kind = Token.kind
        BY <1>1, <3>2, <4>2 DEF OneKind
      <4> QED BY <2>3, <4>3 DEF Opens, Containable
    <3>4. Holder(object', m)
      BY <3>1, <3>3, HolderStays DEF Holder
    <3>5. \A i \in DOMAIN Push(preSuper, m) :
            \/ i \in DOMAIN preSuper /\ Push(preSuper, m)[i] = preSuper[i]
            \/ i = Len(preSuper) + 1 /\ Push(preSuper, m)[i] = m
      <4>1. preSuper \in Seq(Nat) /\ m \in Nat
        BY <1>1, <3>1
      <4> QED BY <4>1, PushFacts, Zenon
    <3> QED BY <1>3, <2>3, <3>4, <3>5 DEF m
  <2> QED BY <2>1, <2>2, <2>3, SameSupers, PreParseSteps
<1>6. ASSUME pass' = "parse" PROVE \A i \in DOMAIN parserSuper' : Holder(object', parserSuper'[i])
  <2>1. CASE EndPreParse
    <3>1. parserSuper' = <<>>
      BY <2>1 DEF EndPreParse, Filled, FirstPasses, supers
    <3> QED BY <3>1
  <2>2. CASE pass = "parse"
    <3>1. CASE parserSuper' = parserSuper
      BY <1>3, <2>2, <3>1
    <3>2. CASE ParseClose
      <4>1. parserSuper' = Front(parserSuper) /\ parserSuper # <<>>
        BY <3>2, CloseFacts DEF ParseClose
      <4> QED BY <1>1, <1>3, <2>2, <4>1, FrontFacts
    <3>3. CASE ParseType /\ pass' = pass /\ Opens(Token) /\ parserSuper' = Push(parserSuper, TypeAt(Token))
      <4> DEFINE m == TypeAt(Token)
      <4>1. m \in Object /\ object[m].kind = Token.kind /\ m \in Nat
        BY <3>3, ParseFacts, ObjectFacts
      <4> HIDE DEF m
      <4>2. Holder(object', m)
        BY <3>3, <4>1, HolderStays DEF Holder, Opens, Containable
      <4>3. \A i \in DOMAIN Push(parserSuper, m) :
              \/ i \in DOMAIN parserSuper /\ Push(parserSuper, m)[i] = parserSuper[i]
              \/ i = Len(parserSuper) + 1 /\ Push(parserSuper, m)[i] = m
        <5>1. parserSuper \in Seq(Nat)
          BY <1>1
        <5> QED BY <4>1, <5>1, PushFacts, Zenon
      <4> QED BY <1>3, <2>2, <3>3, <4>2, <4>3 DEF m
    <3>4. ParseType /\ pass' = pass /\ ~ Opens(Token) => parserSuper' = parserSuper
      BY ParseFacts
    <3>5. ParseType /\ pass' = pass /\ Opens(Token) => parserSuper' = Push(parserSuper, TypeAt(Token))
      BY ParseFacts
    <3> QED BY <3>1, <3>2, <3>3, <3>4, <3>5, SameSupers
  <2> QED BY <1>6, <2>1, <2>2, PassesStep
<1> QED BY <1>4, <1>5, <1>6

-----------------------------------------------------------------------------
(* Every type has an outermost container: as long as types are moved, and  *)
(* to the end where each name has one kind.                                *)
Rooted ==
  pass \in FirstPasses \/ (pass \in {"parse", "accepted"} /\ OneKind) => \A o \in Object : Grounded(object, o)

LEMMA RootedStep ==
  ASSUME Shape, Deep, Known, Filled, Stacked, InPlace, NoStructs, Rooted, [Next]_vars
  PROVE  Rooted'
<1> USE SameText
<1> SUFFICES ASSUME pass' \in FirstPasses \/ (pass' \in {"parse", "accepted"} /\ OneKind), NEW o \in Object'
             PROVE  Grounded(object', o)
  BY DEF Rooted
<1>1. \A a \in Object : Grounded(object, a)
  BY PassesStep DEF Rooted, EndPreParse, FirstPasses
<1>2. /\ object \in Seq(Record) /\ Len(object) \in Nat /\ Object = 1 .. Len(object)
      /\ \A a \in Object : object[a].cont \in {Null} \cup Object
  BY ObjectFacts
<1>3. CASE IndexType
  <2> DEFINE new == NewType(Token, Innermost(indexSuper))
  <2>1. /\ object' = Append(object, new) /\ new \in Record /\ Object' = Object \cup {Len(object) + 1}
        /\ object'[Len(object) + 1] = new /\ new.cont \in {Null} \cup Object /\ Len(object') = Len(object) + 1
    BY <1>3, IndexFacts DEF Object
  <2> HIDE DEF new
  <2>2. \A a \in {Null} \cup Object : Grounded(object', a)
    BY <1>1, <1>2, <2>1, GroundedAppend, GroundedTop
  <2>3. Grounded(object', Len(object) + 1)
    <3>1. Len(object) + 1 \in 1 .. Len(object') /\ Grounded(object', object'[Len(object) + 1].cont)
      BY <1>2, <2>1, <2>2
    <3> QED BY <3>1, GroundedBelow, Zenon
  <2> QED BY <2>1, <2>2, <2>3
<1>4. CASE PreParseType
  <2> DEFINE m == PlainType(Token)
  <2>1. /\ Len(object') = Len(object) /\ Object' = Object
        /\ \A a \in Object : a # m => object'[a].cont = object[a].cont
        /\ ToMove => m \in Object
        /\ ~ ToMove => object' = object
    BY <1>4, PreParseFacts DEF Object
  <2>2. ASSUME ToMove PROVE ~ Endless(object', m)
    <3>1. pass' # "endless"
      BY DEF FirstPasses
    <3>2. pass' = PreParseEnds(Token, m, object')
      BY <1>4 DEF PreParseType
    <3> QED BY <2>2, <3>1, <3>2 DEF PreParseEnds, ToMove
  <2>3. Contained(object')
    BY ObjectsStep DEF Objects
  <2> HIDE DEF m
  <2>4. ASSUME ToMove PROVE Grounded(object', m)
    <3>1. m \in 0 .. Len(object')
      BY <1>2, <2>1, <2>4
    <3> QED BY <2>2, <2>3, <2>4, <3>1, EndlessIsUngrounded
  <2> QED BY <1>1, <1>2, <2>1, <2>4, GroundedRerouted
<1>5. CASE ParseType /\ pass' = pass
  <2> DEFINE m == TypeAt(Token)
             c == object'[m].cont
  <2>1. /\ Len(object') = Len(object) /\ Object' = Object /\ m \in Object /\ object[m].kind = Token.kind
        /\ \A a \in Object : a # m => object'[a] = object[a]
        /\ c = ContainerOf(object[m], Token)
    BY <1>5, ParseFacts DEF Object
  <2>2. pass = "parse"
    BY <1>5 DEF ParseType, Reading
  <2>3. OneKind
    BY <1>5, <2>2 DEF FirstPasses
  <2>4. \A a \in Object : a # m => object'[a].cont = object[a].cont
    BY <2>1
  <2> HIDE DEF m
  <2>5. CASE c = object[m].cont
    <3>1. Len(object') = Len(object) /\ \A a \in 1 .. Len(object) : object'[a].cont = object[a].cont
      BY <1>2, <2>1, <2>4, <2>5
    <3> QED BY <1>1, <2>1, <3>1, GroundedStays
  <2>6. CASE c # object[m].cont
    <3>1. Token.kind = "struct"
      BY <1>5, <2>6, ParseKeeps DEF m
    <3>2. parserSuper # <<>> /\ c = Last(parserSuper)
      BY <2>1, <2>6 DEF ContainerOf
    <3>3. \A a \in Object : object[a].cont # m
      BY <1>2, <2>1, <2>3, <3>1 DEF NoStructs, Holder, Null
    <3>4. c \in Object /\ c # m
      <4>1. Last(parserSuper) \in Object /\ Len(parserSuper) \in DOMAIN parserSuper
            /\ Last(parserSuper) = parserSuper[Len(parserSuper)]
        BY <2>2, <3>2, ParserSuperFacts DEF Last
      <4>2. object[Last(parserSuper)].kind # "struct"
        BY <1>2, <2>2, <2>3, <4>1 DEF NoStructs, Holder, Null
      <4> QED BY <2>1, <3>1, <3>2, <4>1, <4>2
    <3>5. \A a \in Object : a # m => Grounded(object', a)
      BY <1>1, <1>2, <2>1, <2>4, <3>3, GroundedElsewhere
    <3>6. Grounded(object', m)
      BY <1>2, <2>1, <3>4, <3>5, GroundedBelow
    <3> QED BY <2>1, <3>5, <3>6
  <2> QED BY <2>5, <2>6
<1>6. CASE object' = object
  BY <1>1, <1>6 DEF Object
<1> QED BY <1>3, <1>4, <1>5, <1>6, SameObjects

-----------------------------------------------------------------------------
(* The inductive invariant.                                                *)
IInv == ResetInv /\ Apart /\ Unqualified /\ Stacked /\ InPlace /\ NoStructs /\ Rooted

(* It holds at the start, and each step keeps it.                          *)
LEMMA InitIInv == ASSUME Init PROVE IInv
<1>1. ResetInv
  BY InitReset
<1>2. /\ pass = "index" /\ object = <<>> /\ Object = {} /\ preSuper = <<>> /\ file = 1 /\ at = 0
      /\ \A f \in Files : DOMAIN nameTypeMap[f] = {}
  BY DEF Init, Object
<1>3. Apart /\ Unqualified /\ Stacked /\ NoStructs /\ Rooted
  BY <1>2 DEF Apart, Unqualified, Stacked, NoStructs, Rooted
<1>4. InPlace
  <2>1. \A f \in Files : \A p : ~ Registered(f, p)
    <3>1. Files = 1 .. Len(project.files)
      BY ProjectFacts DEF Init
    <3> QED BY <1>2, <3>1 DEF Registered, FirstPasses
  <2> QED BY <2>1 DEF InPlace
<1> QED BY <1>1, <1>3, <1>4 DEF IInv

LEMMA IInvStep ==
  ASSUME IInv, [Next]_vars
  PROVE  IInv'
<1>1. ResetInv' /\ Apart' /\ Unqualified' /\ NoStructs'
  BY ResetStep, ApartStep, UnqualifiedStep, NoStructsStep DEF IInv, ResetInv
<1>2. Stacked' /\ InPlace' /\ Rooted'
  BY StackedStep, InPlaceStep, RootedStep DEF IInv, ResetInv
<1> QED BY <1>1, <1>2 DEF IInv

(* In every reachable state of every project the tables, the stacks and    *)
(* the containers agree.                                                   *)
THEOREM Invariant == Spec => []IInv
<1>1. Init => IInv
  BY InitIInv
<1>2. IInv /\ [Next]_vars => IInv'
  BY IInvStep
<1> QED BY <1>1, <1>2, PTL DEF Spec

LEMMA TypeImplied == ASSUME IInv PROVE TypeOK
<1> USE DEF IInv, ResetInv
<1>1. /\ pass \in {"index", "preparse", "parse", "accepted", "error", "crash", "endless"}
      /\ file \in Files /\ at \in 0 .. Len(Text(file)) + 1
      /\ \A i \in DOMAIN indexSuper : object[indexSuper[i]].kind = "enum"
  BY DEF Shape, Passes
<1>2. \A o \in Object : object[o].cont \in {Null} \cup Object /\ object[o].extending \in {Null} \cup Object
  BY ObjectFacts
<1>3. ASSUME NEW f \in Files
      PROVE  /\ Range(nameTypeMap[f]) \subseteq {Null} \cup Object
             /\ DOMAIN unmangledTypeMap[f] \subseteq NamesIn(f)
             /\ Range(unmangledTypeMap[f]) \subseteq {Null} \cup Object
             /\ Range(types[f]) \subseteq Object
  <2>1. Range(nameTypeMap[f]) \subseteq {Null} \cup Object /\ Range(unmangledTypeMap[f]) \subseteq {Null} \cup Object
    BY DEF Shape, Range
  <2>2. DOMAIN unmangledTypeMap[f] \subseteq NamesIn(f)
    BY DEF Usable, UsableEntry
  <2>3. Range(types[f]) \subseteq Object
    BY TypesAreObjects DEF Filled
  <2> QED BY <2>1, <2>2, <2>3
<1>4. /\ Len(preSuper) = IF pass = "preparse" THEN Depth(file, at) ELSE Len(preSuper)
      /\ Len(parserSuper) = IF pass = "parse" THEN Depth(file, at) ELSE Len(parserSuper)
  BY DEF Deep
<1>5. ASSUME pass = "parse", OneKind, NEW o \in Object PROVE ~ Endless(object, o)
  <2>1. Grounded(object, o)
    BY <1>5 DEF Rooted
  <2>2. Contained(object) /\ o \in 0 .. Len(object)
    BY ObjectFacts DEF Shape
  <2> QED BY <2>1, <2>2, EndlessIsUngrounded
<1> QED BY <1>1, <1>2, <1>3, <1>4, <1>5 DEF TypeOK

(* The PreParser and the Parser pop what they pushed, store pointers to    *)
(* objects that exist only, and, where each name has one kind, leave no    *)
(* type that contains itself to the Parser (PreParser.cpp:60,              *)
(* Parser.cpp:923).                                                        *)
THEOREM TypeCorrect == Spec => []TypeOK
<1>1. IInv => TypeOK
  BY TypeImplied
<1> QED BY <1>1, Invariant, PTL

(* A step of the Parser leaves the containers above a type as they are.    *)
LEMMA NamesStayNamed ==
  ASSUME IInv, [Next]_vars, pass = "parse", OneKind, NEW o \in Object, object[o].kind # "struct"
  PROVE  Mangled(object', o) = Mangled(object, o)
<1> USE DEF IInv, ResetInv
<1>1. CASE ParseType /\ pass' = pass
  <2> DEFINE S == {a \in Object : object[a].kind # "struct"}
  <2>1. /\ Len(object') = Len(object) /\ Object = 1 .. Len(object) /\ Contained(object)
        /\ \A a \in Object : object'[a].name = object[a].name
        /\ \A a \in Object : object[a].cont \in {Null} \cup Object
    BY <1>1, ParseFacts, ObjectFacts DEF Shape
  <2>2. ASSUME NEW a \in S
        PROVE  object[a].cont \in S \cup {Null} /\ object'[a].cont = object[a].cont
    <3>1. object[a].cont \in S \cup {Null}
      BY <2>1 DEF NoStructs, Holder
    <3>2. CASE a # TypeAt(Token)
      BY <1>1, <3>1, <3>2, ParseFacts
    <3>3. CASE a = TypeAt(Token)
      <4>1. object[a].kind = Token.kind
        BY <1>1, <3>3, ParseFacts
      <4> QED BY <1>1, <3>1, <3>3, <4>1, ParseKeeps
    <3> QED BY <3>2, <3>3
  <2>3. S \in SUBSET (1 .. Len(object)) /\ o \in S
    BY <2>1
  <2> HIDE DEF S
  <2>4. \A a \in 1 .. Len(object) : object'[a].name = object[a].name
    BY <2>1
  <2> QED BY <2>1, <2>2, <2>3, <2>4, MangledStays, ZenonT(40)
<1>2. CASE object' = object
  BY <1>2
<1>3. ~ IndexType /\ ~ PreParseType
  BY DEF IndexType, PreParseType, Reading
<1> QED BY <1>1, <1>2, <1>3, SameObjects

(* Where each name has one kind, the Parser changes no full name of a      *)
(* class, namespace or interface, though it writes contType                *)
(* (Parser.cpp:926, :962, :1044).                                          *)
THEOREM NamesSettledCorrect == Spec => NamesSettled
<1> DEFINE Settled == pass = "parse" /\ OneKind =>
             \A o \in Object : object[o].kind \in Containable => Mangled(object', o) = Mangled(object, o)
<1>1. IInv /\ [Next]_vars => [Settled]_vars
  BY NamesStayNamed DEF Containable
<1> HIDE DEF Settled
<1>2. Spec => [][Settled]_vars
  BY <1>1, Invariant, PTL DEF Spec
<1> QED BY <1>2 DEF Settled, NamesSettled
-----------------------------------------------------------------------------
(***************************************************************************)
(* Which declarations share an object.                                     *)
(*                                                                         *)
(* The Indexer numbers the objects as it reads the declarations, and the   *)
(* plain name of a file's table holds the number of the last one that it   *)
(* has read outside of every enum.  The PreParser can only take that entry *)
(* out, so what the Parser writes a declaration into is the object of that *)
(* one or nothing, and with nothing it crashes.                            *)
(***************************************************************************)
Before(f, p) == {d \in AllDecls : d[1] < f \/ (d[1] = f /\ d[2] < p)}
IndexedDecls ==
  IF pass = "index" THEN Before(file, at) ELSE IF pass = "preparse" THEN Before(file + 1, 0) ELSE AllDecls
ReadDecls == IF pass = "parse" THEN Before(file, at) ELSE IF pass = "accepted" THEN AllDecls ELSE {}
AnEnum(d) == HeadAt(d).kind = "enum"

(* The Indexer has made one object for each declaration, and its stack is  *)
(* empty until the first enum.                                             *)
Counted == pass \notin Failed => Len(object) = Cardinality(IndexedDecls)
Popped == pass \in FirstPasses => (indexSuper = <<>> <=> \A d \in IndexedDecls : ~ AnEnum(d))

(* What a plain name stands for.                                           *)
Latest(f, n, q) ==
  LET read == {p \in Candidates(f, n) : p < q} IN IF read = {} THEN Null ELSE ObjectOf(f, Max(read))
Entered(f) ==
  \/ pass \in {"parse", "accepted"}
  \/ pass \in FirstPasses /\ f < file
  \/ pass = "preparse" /\ f = file
Based ==
  \A f \in Files : \A n \in NamesIn(f) :
    /\ pass = "index" /\ f = file => Plain(f, n) = Latest(f, n, at)
    /\ pass \in FirstPasses /\ f > file => Plain(f, n) = Null
    /\ Entered(f) =>
         /\ Plain(f, n) \in {Null, BaseObject(f, n)}
         /\ n \in DOMAIN unmangledTypeMap[f] => unmangledTypeMap[f][n] \in {Null, BaseObject(f, n)}

(* What was read into an object: the declarations that it is the base of.  *)
BasedOn(o) == {d \in AllDecls : BaseObject(d[1], HeadAt(d).name) = o}
Gathered ==
  pass \notin Failed =>
    \A o \in Object :
      /\ Range(object[o].parsed) = ReadDecls \cap BasedOn(o)
      /\ Len(object[o].parsed) = Cardinality(ReadDecls \cap BasedOn(o))

SharedInv == Counted /\ Popped /\ Based /\ Gathered

(* The full name of a type that nothing contains is its name.              *)
LEMMA MangledTop ==
  ASSUME NEW objects, Len(objects) \in Nat, NEW o \in 1 .. Len(objects), objects[o].cont = Null
  PROVE  Mangled(objects, o) = <<objects[o].name>>
<1> DEFINE up == Containers(objects, o)
           above == {n \in DOMAIN up : up[n] # Null}
           depth == Cardinality(above)
           key == [i \in 1 .. depth |-> objects[up[depth - i]].name]
<1>1. DOMAIN up = 0 .. Len(objects) /\ up[0] = o /\ up[1] = Null
  <2>1. 1 \in 1 .. Len(objects) /\ o # Null
    BY DEF Null
  <2> HIDE DEF up
  <2> QED BY <2>1, ContainersStep DEF up
<1>2. Mangled(objects, o) = key
  BY DEF Mangled
<1>3. PICK d \in Nat : \A n : n \in DOMAIN up /\ up[n] # Null <=> n \in 0 .. d - 1
  BY UpToTheTop, Zenon DEF up
<1> HIDE DEF up
<1>4. d = 1
  BY <1>1, <1>3 DEF Null
<1>5. above = {0}
  BY <1>3, <1>4
<1>6. depth = 1
  <2> HIDE DEF above
  <2> QED BY <1>5, FS_Singleton
<1> HIDE DEF depth
<1>7. key = <<objects[o].name>>
  BY <1>1, <1>6
<1> QED BY <1>2, <1>7

(* The declarations of a project are finitely many pairs.                  *)
LEMMA DeclPairs ==
  ASSUME project \in Projects
  PROVE  /\ \A d \in AllDecls : d = <<d[1], d[2]>> /\ d[1] \in Files /\ d[2] \in Decls(d[1])
         /\ \A f \in Files : \A p \in Decls(f) : <<f, p>> \in AllDecls
         /\ \A f \in Files : Decls(f) \subseteq 1 .. Len(Text(f)) /\ Len(Text(f)) \in Nat
         /\ IsFiniteSet(AllDecls)
<1>1. \A d \in AllDecls : d = <<d[1], d[2]>> /\ d[1] \in Files /\ d[2] \in Decls(d[1])
  BY DEF AllDecls
<1>2. \A f \in Files : \A p \in Decls(f) : <<f, p>> \in AllDecls
  BY DEF AllDecls
<1>3. ASSUME NEW f \in Files PROVE Decls(f) \subseteq 1 .. Len(Text(f)) /\ Len(Text(f)) \in Nat
  BY ProjectFacts DEF Decls
<1>4. IsFiniteSet(AllDecls)
  <2> DEFINE ofFile == [f \in Files |-> {f} \X Decls(f)]
             S == {{f} \X Decls(f) : f \in Files}
  <2>1. IsFiniteSet(Files)
    BY ProjectFacts, FS_Interval
  <2>2. ofFile \in Surjection(Files, S)
    BY DEF Surjection
  <2>3. IsFiniteSet(S)
    <3> HIDE DEF ofFile, S
    <3> QED BY <2>1, <2>2, FS_Surjection
  <2>4. ASSUME NEW f \in Files PROVE IsFiniteSet({f} \X Decls(f))
    <3>1. IsFiniteSet(1 .. Len(Text(f)))
      BY <1>3, FS_Interval
    <3>2. IsFiniteSet(Decls(f)) /\ IsFiniteSet({f})
      BY <1>3, <3>1, FS_Subset, FS_Singleton
    <3> QED BY <3>2, FS_Product
  <2>5. \A T \in S : IsFiniteSet(T)
    BY <2>4
  <2>6. IsFiniteSet(UNION S)
    <3> HIDE DEF S
    <3> QED BY <2>3, <2>5, FS_UNION
  <2>7. QED BY <2>6 DEF AllDecls
<1> QED BY <1>1, <1>2, <1>3, <1>4

LEMMA SomeDecls ==
  ASSUME project \in Projects, NEW S \in SUBSET AllDecls
  PROVE  IsFiniteSet(S) /\ Cardinality(S) \in Nat
BY DeclPairs, FS_Subset, FS_CardinalityType

(* How the declarations in front of a place grow.                          *)
LEMMA BeforeSteps ==
  ASSUME project \in Projects, NEW f \in Files
  PROVE  /\ \A p \in Nat \ {0} : Before(f, p + 1) = IF p \in Decls(f) THEN Before(f, p) \cup {<<f, p>>} ELSE Before(f, p)
         /\ \A p \in Nat : <<f, p>> \notin Before(f, p)
         /\ Before(f, 1) = Before(f, 0)
         /\ Before(f, Len(Text(f)) + 1) = Before(f + 1, 0) /\ Before(f + 1, 1) = Before(f + 1, 0)
         /\ f = Len(project.files) => Before(f + 1, 0) = AllDecls
         /\ Before(1, 0) = {} /\ Before(1, 1) = {}
<1>1. Len(project.files) \in Nat \ {0} /\ Files = 1 .. Len(project.files) /\ f \in Nat
  BY ProjectFacts
<1>2. \A d \in AllDecls : /\ d = <<d[1], d[2]>> /\ d[1] \in Files /\ d[2] \in Decls(d[1])
                          /\ d[1] \in Nat \ {0} /\ d[2] \in Nat \ {0} /\ d[2] <= Len(Text(d[1]))
                          /\ d[1] <= Len(project.files)
  BY <1>1, DeclPairs
<1>3. ASSUME NEW p \in Nat \ {0}
      PROVE  Before(f, p + 1) = IF p \in Decls(f) THEN Before(f, p) \cup {<<f, p>>} ELSE Before(f, p)
  <2>1. \A d \in AllDecls : d \in Before(f, p + 1) <=> d \in Before(f, p) \/ d = <<f, p>>
    BY <1>1, <1>2 DEF Before
  <2>2. p \in Decls(f) <=> <<f, p>> \in AllDecls
    BY <1>2, DeclPairs
  <2>3. \A g, q : Before(g, q) \subseteq AllDecls
    BY DEF Before
  <2> QED BY <2>1, <2>2, <2>3
<1>4. \A p \in Nat : <<f, p>> \notin Before(f, p)
  BY <1>1 DEF Before
<1>5. Before(f, 1) = Before(f, 0) /\ Before(f + 1, 1) = Before(f + 1, 0)
  BY <1>1, <1>2 DEF Before
<1>6. Before(f, Len(Text(f)) + 1) = Before(f + 1, 0)
  <2>1. Len(Text(f)) \in Nat
    BY DeclPairs
  <2>2. \A d \in AllDecls : d \in Before(f, Len(Text(f)) + 1) <=> d \in Before(f + 1, 0)
    BY <1>1, <1>2, <2>1 DEF Before
  <2> QED BY <2>2 DEF Before
<1>7. f = Len(project.files) => Before(f + 1, 0) = AllDecls
  BY <1>1, <1>2 DEF Before
<1>8. Before(1, 0) = {} /\ Before(1, 1) = {}
  BY <1>1, <1>2 DEF Before
<1> QED BY <1>3, <1>4, <1>5, <1>6, <1>7, <1>8

(* Nothing of this changes in a step.                                      *)
LEMMA SameDecls ==
  ASSUME [Next]_vars
  PROVE  /\ AllDecls' = AllDecls /\ \A d : HeadAt(d)' = HeadAt(d) /\ AnEnum(d)' = AnEnum(d)
         /\ \A f, p : Before(f, p)' = Before(f, p) /\ ObjectOf(f, p)' = ObjectOf(f, p)
         /\ \A f, n : Candidates(f, n)' = Candidates(f, n) /\ BaseObject(f, n)' = BaseObject(f, n)
         /\ \A f, n, q : Latest(f, n, q)' = Latest(f, n, q)
         /\ \A o : BasedOn(o)' = BasedOn(o)
<1>1. Files' = Files /\ \A f : Text(f)' = Text(f) /\ Decls(f)' = Decls(f)
  BY SameText
<1>2. AllDecls' = AllDecls
  BY <1>1 DEF AllDecls
<1>3. \A d : HeadAt(d)' = HeadAt(d) /\ AnEnum(d)' = AnEnum(d)
  BY <1>1 DEF HeadAt, AnEnum
<1>4. \A f, p : Before(f, p)' = Before(f, p) /\ ObjectOf(f, p)' = ObjectOf(f, p)
  BY <1>2 DEF Before, ObjectOf
<1>5. \A f, n : Of(f, n)' = Of(f, n)
  BY <1>1 DEF Of
<1>6. \A f, p : EnumBefore(f, p)' = EnumBefore(f, p)
  BY <1>1 DEF EnumBefore
<1>7. \A f, n : Candidates(f, n)' = Candidates(f, n)
  BY <1>5, <1>6 DEF Candidates
<1>8. \A f, n : BaseObject(f, n)' = BaseObject(f, n)
  BY <1>4, <1>7 DEF BaseObject
<1>9. \A f, n, q : Latest(f, n, q)' = Latest(f, n, q)
  BY <1>4, <1>7 DEF Latest
<1>10. \A o : BasedOn(o)' = BasedOn(o)
  BY <1>2, <1>3, <1>8 DEF BasedOn
<1> QED BY <1>2, <1>3, <1>4, <1>7, <1>8, <1>9, <1>10

(* What a step adds to the declarations that the Indexer has come to and   *)
(* to those that the Parser has read.                                      *)
LEMMA DeclSteps ==
  ASSUME Shape, Deep, [Next]_vars, pass' \notin Failed
  PROVE  /\ pass \notin Failed
         /\ IndexedDecls \subseteq AllDecls /\ ReadDecls \subseteq AllDecls
         /\ IndexType => /\ <<file, at>> \in AllDecls \ IndexedDecls /\ HeadAt(<<file, at>>) = Token
                         /\ IndexedDecls' = IndexedDecls \cup {<<file, at>>}
         /\ ~ IndexType => IndexedDecls' = IndexedDecls
         /\ ParseType => /\ <<file, at>> \in AllDecls \ ReadDecls /\ HeadAt(<<file, at>>) = Token /\ pass' = pass
                         /\ ReadDecls' = ReadDecls \cup {<<file, at>>}
         /\ ~ ParseType => ReadDecls' = ReadDecls
<1> DEFINE Steps ==
      /\ pass \notin Failed
      /\ IndexType => /\ <<file, at>> \in AllDecls \ IndexedDecls /\ HeadAt(<<file, at>>) = Token
                      /\ IndexedDecls' = IndexedDecls \cup {<<file, at>>}
      /\ ~ IndexType => IndexedDecls' = IndexedDecls
      /\ ParseType => /\ <<file, at>> \in AllDecls \ ReadDecls /\ HeadAt(<<file, at>>) = Token /\ pass' = pass
                      /\ ReadDecls' = ReadDecls \cup {<<file, at>>}
      /\ ~ ParseType => ReadDecls' = ReadDecls
<1>1. /\ file \in Files /\ project \in Projects /\ Len(Text(file)) \in Nat
      /\ at \in 0 .. Len(Text(file)) + 1 /\ pass \in Passes
      /\ Len(project.files) \in Nat \ {0} /\ Files = 1 .. Len(project.files)
  BY ProjectFacts DEF Shape
<1>2. /\ \A p \in Nat \ {0} : Before(file, p + 1) = IF p \in Decls(file) THEN Before(file, p) \cup {<<file, p>>} ELSE Before(file, p)
      /\ \A p \in Nat : <<file, p>> \notin Before(file, p)
      /\ Before(file, 1) = Before(file, 0)
      /\ Before(file, Len(Text(file)) + 1) = Before(file + 1, 0) /\ Before(file + 1, 1) = Before(file + 1, 0)
      /\ file = Len(project.files) => Before(file + 1, 0) = AllDecls
      /\ Before(1, 0) = {} /\ Before(1, 1) = {}
  BY <1>1, BeforeSteps
<1>3. \A p \in Decls(file) : <<file, p>> \in AllDecls
  BY <1>1, DeclPairs
<1>4. \A g, q : Before(g, q)' = Before(g, q)
  BY SameDecls
<1>5. /\ pass' = "index" => IndexedDecls' = Before(file', at')
      /\ pass' = "preparse" => IndexedDecls' = Before(file' + 1, 0)
      /\ pass' \notin FirstPasses => IndexedDecls' = AllDecls
      /\ pass' = "parse" => ReadDecls' = Before(file', at')
      /\ pass' = "accepted" => ReadDecls' = AllDecls
      /\ pass' \notin {"parse", "accepted"} => ReadDecls' = {}
  BY <1>4, SameDecls DEF IndexedDecls, ReadDecls, FirstPasses
<1>6. IndexedDecls \subseteq AllDecls /\ ReadDecls \subseteq AllDecls
  BY DEF IndexedDecls, ReadDecls, Before
<1>7. ASSUME NEW thePass, Reading(thePass)
      PROVE  /\ pass = thePass /\ at \in Nat \ {0} /\ HeadAt(<<file, at>>) = Token
             /\ IsHead(Token) <=> at \in Decls(file)
  BY <1>7, TokenFacts DEF Decls, HeadAt, Token
<1> SUFFICES Steps
  BY <1>6
<1> HIDE DEF Steps
<1>8. CASE IndexUses
  <2>1. pass = "index" /\ at = 0 /\ pass' = pass /\ file' = file /\ at' = 1
    BY <1>8 DEF IndexUses, Failed
  <2> QED BY <1>2, <1>5, <2>1 DEF Steps, IndexedDecls, ReadDecls, Failed, IndexType, ParseType, Reading, FirstPasses
<1>9. CASE IndexType
  <2>1. /\ pass = "index" /\ pass' = pass /\ file' = file /\ at' = at + 1 /\ at \in Nat \ {0} /\ at \in Decls(file)
        /\ HeadAt(<<file, at>>) = Token
    BY <1>7, <1>9 DEF IndexType
  <2>2. /\ IndexedDecls = Before(file, at) /\ IndexedDecls' = Before(file, at + 1)
        /\ <<file, at>> \in AllDecls \ IndexedDecls /\ ReadDecls = {} /\ ReadDecls' = {} /\ ~ ParseType
    BY <1>2, <1>3, <1>5, <2>1 DEF IndexedDecls, ReadDecls, ParseType, Reading
  <2> QED BY <1>2, <1>9, <2>1, <2>2 DEF Steps, Failed
<1>10. CASE IndexOther
  <2>1. pass = "index" /\ pass' = pass /\ file' = file /\ at' = at + 1 /\ at \in Nat \ {0} /\ at \notin Decls(file)
    BY <1>7, <1>10 DEF IndexOther
  <2>2. ~ IndexType /\ ~ ParseType
    BY <1>10 DEF IndexOther, IndexType, ParseType, Reading
  <2> QED BY <1>2, <1>5, <2>1, <2>2 DEF Steps, IndexedDecls, ReadDecls, Failed
<1>11. CASE EndIndex
  <2>1. pass = "index" /\ pass' = "preparse" /\ file' = file /\ at = Len(Text(file)) + 1
    BY <1>11 DEF EndIndex
  <2> QED BY <1>1, <1>2, <1>5, <2>1 DEF Steps, IndexedDecls, ReadDecls, Failed, IndexType, ParseType, Reading
<1>12. CASE PreParseType \/ PreParseClose
  <2>1. pass = "preparse" /\ file' = file /\ (pass' = pass \/ pass' \in Failed)
    BY <1>12, PreParseSteps DEF PreParseType, PreParseClose, Reading
  <2> QED BY <1>5, <2>1 DEF Steps, IndexedDecls, ReadDecls, Failed, IndexType, ParseType, Reading
<1>13. CASE EndPreParse
  <2>1. /\ pass = "preparse"
        /\ \/ pass' = "parse" /\ file' = 1 /\ at' = 1 /\ file = Len(project.files)
           \/ pass' = "index" /\ file' = file + 1 /\ at' = 0
    BY <1>13 DEF EndPreParse
  <2> QED BY <1>2, <1>5, <2>1 DEF Steps, IndexedDecls, ReadDecls, Failed, IndexType, ParseType, Reading, FirstPasses
<1>14. CASE ParseType
  <2>1. /\ pass = "parse" /\ pass' = pass /\ file' = file /\ at' = at + 1 /\ at \in Nat \ {0} /\ at \in Decls(file)
        /\ HeadAt(<<file, at>>) = Token
    BY <1>7, <1>14, ParseFails DEF ParseType
  <2>2. /\ ReadDecls = Before(file, at) /\ ReadDecls' = Before(file, at + 1)
        /\ <<file, at>> \in AllDecls \ ReadDecls /\ IndexedDecls = AllDecls /\ IndexedDecls' = AllDecls /\ ~ IndexType
    BY <1>2, <1>3, <1>5, <2>1 DEF IndexedDecls, ReadDecls, IndexType, Reading, FirstPasses
  <2> QED BY <1>2, <1>14, <2>1, <2>2 DEF Steps, Failed
<1>15. CASE ParseClose
  <2>1. pass = "parse" /\ pass' = pass /\ file' = file /\ at' = at + 1 /\ at \in Nat \ {0} /\ at \notin Decls(file)
    BY <1>7, <1>15 DEF ParseClose
  <2>2. ~ IndexType /\ ~ ParseType
    BY <1>15 DEF ParseClose, IndexType, ParseType, Reading
  <2> QED BY <1>2, <1>5, <2>1, <2>2 DEF Steps, IndexedDecls, ReadDecls, Failed, FirstPasses
<1>16. CASE EndParse
  <2>1. /\ pass = "parse" /\ at = Len(Text(file)) + 1
        /\ \/ pass' = "accepted" /\ file = Len(project.files)
           \/ pass' = "parse" /\ file' = file + 1 /\ at' = 1
    BY <1>16 DEF EndParse
  <2> QED BY <1>1, <1>2, <1>5, <2>1 DEF Steps, IndexedDecls, ReadDecls, Failed, IndexType, ParseType, Reading, FirstPasses
<1>17. CASE UNCHANGED vars
  <2>1. pass' = pass /\ file' = file /\ at' = at
    BY <1>17 DEF vars
  <2>2. ~ IndexType /\ ~ ParseType
    <3>1. at \in Nat
      BY <1>1
    <3>2. IndexType => at' = at + 1
      BY DEF IndexType
    <3>3. ParseType => at' = at + 1
      BY <2>1 DEF ParseType
    <3> QED BY <2>1, <3>1, <3>2, <3>3
  <2> QED BY <1>5, <2>1, <2>2 DEF Steps, IndexedDecls, ReadDecls, FirstPasses
<1> QED BY <1>8, <1>9, <1>10, <1>11, <1>12, <1>13, <1>14, <1>15, <1>16, <1>17 DEF Next, Stopped

(* The numbers of the objects are those of the declarations.               *)
LEMMA CountedStep ==
  ASSUME Shape, Deep, Known, Filled, Counted, [Next]_vars
  PROVE  Counted'
<1> SUFFICES ASSUME pass' \notin Failed PROVE Len(object') = Cardinality(IndexedDecls')
  BY DEF Counted
<1>1. Len(object) = Cardinality(IndexedDecls) /\ IsFiniteSet(IndexedDecls)
  BY DeclSteps, SomeDecls DEF Counted, Shape
<1>2. CASE IndexType
  <2>1. Len(object') = Len(object) + 1
    BY <1>2, IndexFacts
  <2> QED BY <1>1, <1>2, <2>1, DeclSteps, FS_AddElement
<1>3. CASE ~ IndexType
  <2>1. Len(object') = Len(object)
    BY <1>3, SameObjects, PreParseFacts, ParseFacts
  <2> QED BY <1>1, <1>3, <2>1, DeclSteps
<1> QED BY <1>2, <1>3

(* An enum stays on the Indexer's stack; nothing else is left there.       *)
LEMMA PoppedStep ==
  ASSUME Shape, Deep, Popped, [Next]_vars
  PROVE  Popped'
<1> USE SameDecls
<1> SUFFICES ASSUME pass' \in FirstPasses
             PROVE  indexSuper' = <<>> <=> \A d \in IndexedDecls' : ~ AnEnum(d)
  BY DEF Popped
<1>1. pass \in FirstPasses /\ pass' \notin Failed
  BY PassesStep DEF FirstPasses, Failed
<1>2. indexSuper = <<>> <=> \A d \in IndexedDecls : ~ AnEnum(d)
  BY <1>1 DEF Popped
<1>3. CASE IndexType
  <2>1. /\ indexSuper' = IF Token.kind = "enum" THEN Push(indexSuper, Len(object) + 1) ELSE indexSuper
        /\ IndexedDecls' = IndexedDecls \cup {<<file, at>>} /\ (AnEnum(<<file, at>>) <=> Token.kind = "enum")
    BY <1>1, <1>3, DeclSteps DEF IndexType, IndexedWithin, AnEnum
  <2>2. Push(indexSuper, Len(object) + 1) # <<>>
    <3>1. Len(object) + 1 \in Nat /\ indexSuper \in Seq(Nat)
      BY ObjectFacts DEF Shape
    <3> QED BY <3>1 DEF Push
  <2> QED BY <1>2, <2>1, <2>2
<1>4. CASE ~ IndexType
  <2>1. indexSuper' = indexSuper
    BY <1>4 DEF Next, IndexUses, IndexOther, EndIndex, PreParseType, PreParseClose, EndPreParse,
             ParseType, ParseClose, EndParse, Stopped, vars, supers
  <2> QED BY <1>1, <1>2, <1>4, <2>1, DeclSteps
<1> QED BY <1>3, <1>4

(* Where no enum comes before, a declaration is the last of its name so    *)
(* far.                                                                    *)
LEMMA CandidateFacts ==
  ASSUME project \in Projects, NEW f \in Files, NEW n
  PROVE  /\ Candidates(f, n) \subseteq Decls(f) /\ Decls(f) \subseteq Nat \ {0}
         /\ \A p \in Decls(f) : p \in Candidates(f, n) <=> Text(f)[p].name = n /\ \A d \in Before(f, p) : ~ AnEnum(d)
<1>1. Files = 1 .. Len(project.files) /\ Len(project.files) \in Nat /\ f \in Nat
  BY ProjectFacts
<1>2. Decls(f) \subseteq Nat \ {0}
  BY DeclPairs
<1>3. Candidates(f, n) \subseteq Decls(f)
  BY DEF Candidates, Of
<1>4. ASSUME NEW p \in Decls(f) PROVE EnumBefore(f, p) <=> \E d \in Before(f, p) : AnEnum(d)
  <2>1. ASSUME NEW d \in Before(f, p), AnEnum(d) PROVE EnumBefore(f, p)
    <3>1. d[1] \in Files /\ d[2] \in Decls(d[1]) /\ (d[1] < f \/ (d[1] = f /\ d[2] < p))
      BY DeclPairs DEF Before
    <3>2. d[1] \in 1 .. f /\ Text(d[1])[d[2]].kind = "enum"
      BY <1>1, <2>1, <3>1 DEF AnEnum, HeadAt
    <3> QED BY <3>1, <3>2 DEF EnumBefore
  <2>2. ASSUME EnumBefore(f, p) PROVE \E d \in Before(f, p) : AnEnum(d)
    <3>0. PICK g \in 1 .. f : \E q \in Decls(g) : (g < f \/ q < p) /\ Text(g)[q].kind = "enum"
      BY <2>2 DEF EnumBefore
    <3>1. PICK q \in Decls(g) : (g < f \/ q < p) /\ Text(g)[q].kind = "enum"
      BY <3>0
    <3>2. g \in Files /\ (g < f \/ (g = f /\ q < p))
      BY <1>1, <3>1
    <3>3. <<g, q>> \in AllDecls
      BY <3>2, DeclPairs
    <3>4. <<g, q>> \in Before(f, p) /\ AnEnum(<<g, q>>)
      BY <3>1, <3>2, <3>3 DEF Before, AnEnum, HeadAt
    <3> QED BY <3>4
  <2> QED BY <2>1, <2>2
<1>5. \A p \in Decls(f) : p \in Candidates(f, n) <=> Text(f)[p].name = n /\ ~ EnumBefore(f, p)
  BY DEF Candidates, Of
<1> QED BY <1>2, <1>3, <1>4, <1>5

LEMMA LatestSteps ==
  ASSUME project \in Projects, NEW f \in Files, NEW n
  PROVE  /\ Latest(f, n, 0) = Null /\ Latest(f, n, 1) = Null
         /\ Latest(f, n, Len(Text(f)) + 1) = BaseObject(f, n)
         /\ \A p \in Nat \ {0} : Latest(f, n, p + 1) = IF p \in Candidates(f, n) THEN ObjectOf(f, p) ELSE Latest(f, n, p)
<1> DEFINE C == Candidates(f, n)
           Upto(q) == {p \in C : p < q}
<1>1. Len(Text(f)) \in Nat /\ \A p \in C : p \in Nat /\ 1 <= p /\ p <= Len(Text(f))
  <2>1. C \subseteq 1 .. Len(Text(f)) /\ Len(Text(f)) \in Nat
    BY CandidateFacts, DeclPairs
  <2> HIDE DEF C
  <2> QED BY <2>1
<1>2. \A q : Latest(f, n, q) = IF Upto(q) = {} THEN Null ELSE ObjectOf(f, Max(Upto(q)))
  BY DEF Latest
<1>3. BaseObject(f, n) = IF C = {} THEN Null ELSE ObjectOf(f, Max(C))
  BY DEF BaseObject
<1> HIDE DEF C
<1>4. Upto(0) = {} /\ Upto(1) = {} /\ Upto(Len(Text(f)) + 1) = C
  <2>1. Upto(0) = {} /\ Upto(1) = {}
    BY <1>1
  <2>2. \A p \in C : p < Len(Text(f)) + 1
    BY <1>1
  <2> QED BY <2>1, <2>2
<1>5. ASSUME NEW p \in Nat \ {0}
      PROVE  /\ p \notin C => Upto(p + 1) = Upto(p)
             /\ p \in C => Upto(p + 1) # {} /\ Max(Upto(p + 1)) = p
  <2>1. p \notin C => Upto(p + 1) = Upto(p)
    <3>1. \A q \in C : q < p + 1 <=> q < p \/ q = p
      BY <1>1
    <3> QED BY <3>1
  <2>2. p \in C => /\ p \in Upto(p + 1) /\ \A q \in Upto(p + 1) : p >= q
                   /\ \A q \in Upto(p + 1) : (\A r \in Upto(p + 1) : q >= r) => q = p
    BY <1>1
  <2> HIDE DEF Upto
  <2>3. p \in C => Max(Upto(p + 1)) = p
    BY <2>2 DEF Max
  <2> QED BY <2>1, <2>2, <2>3
<1> HIDE DEF Upto
<1> QED BY <1>2, <1>3, <1>4, <1>5 DEF C

(* A plain name stands for the declaration read last, and after its file   *)
(* for that one or nothing.                                                *)
LEMMA BasedStep ==
  ASSUME IInv, Counted, Popped, Based, [Next]_vars
  PROVE  Based'
<1> USE SameDecls, SameText DEF IInv, ResetInv
<1> SUFFICES ASSUME NEW f \in Files, NEW n \in NamesIn(f)
             PROVE  /\ pass' = "index" /\ f = file' => Plain(f, n)' = Latest(f, n, at')
                    /\ pass' \in FirstPasses /\ f > file' => Plain(f, n)' = Null
                    /\ Entered(f)' =>
                         /\ Plain(f, n)' \in {Null, BaseObject(f, n)}
                         /\ n \in DOMAIN unmangledTypeMap'[f] => unmangledTypeMap'[f][n] \in {Null, BaseObject(f, n)}
  <2>1. \A f, n, q : Latest(f, n, q)' = Latest(f, n, q) /\ BaseObject(f, n)' = BaseObject(f, n)
    BY SameDecls
  <2>2. Files' = Files /\ \A f : NamesIn(f)' = NamesIn(f)
    BY SameText
  <2> QED BY <2>1, <2>2 DEF Based, Plain
<1>1. /\ file \in Files /\ project \in Projects /\ Len(Text(file)) \in Nat
      /\ at \in 0 .. Len(Text(file)) + 1 /\ pass \in Passes /\ f \in Nat /\ file \in Nat
      /\ Len(project.files) \in Nat \ {0} /\ Files = 1 .. Len(project.files)
  BY ProjectFacts DEF Shape
<1>2. /\ pass = "index" /\ f = file => Plain(f, n) = Latest(f, n, at)
      /\ pass \in FirstPasses /\ f > file => Plain(f, n) = Null
      /\ Entered(f) =>
           /\ Plain(f, n) \in {Null, BaseObject(f, n)}
           /\ n \in DOMAIN unmangledTypeMap[f] => unmangledTypeMap[f][n] \in {Null, BaseObject(f, n)}
  BY DEF Based
<1>3. /\ Latest(f, n, 0) = Null /\ Latest(f, n, 1) = Null
      /\ Latest(f, n, Len(Text(f)) + 1) = BaseObject(f, n)
      /\ \A p \in Nat \ {0} : Latest(f, n, p + 1) = IF p \in Candidates(f, n) THEN ObjectOf(f, p) ELSE Latest(f, n, p)
      /\ Candidates(f, n) \subseteq Decls(f)
  BY <1>1, LatestSteps, CandidateFacts
<1>4. /\ nameTypeMap = [g \in Files |-> nameTypeMap[g]] /\ unmangledTypeMap = [g \in Files |-> unmangledTypeMap[g]]
  BY DEF Shape
<1>5. CASE IndexType
  <2> DEFINE o == Len(object) + 1
             new == NewType(Token, Innermost(indexSuper))
             key == Mangled(object', o)
  <2>1. /\ pass = "index" /\ pass' = pass /\ file' = file /\ at' = at + 1 /\ unmangledTypeMap' = unmangledTypeMap
        /\ at \in Nat \ {0} /\ at \in Decls(file) /\ Token = Text(file)[at]
    BY <1>5, TokenFacts DEF IndexType, Token
  <2>2. /\ nameTypeMap' = [nameTypeMap EXCEPT ![file] = Bind(@, key, o)]
        /\ Len(key) = 1 => new.cont = Null /\ key = <<Token.name>>
        /\ object'[o] = new /\ Len(object') = o /\ o \in Nat \ {0}
    BY <1>5, IndexFacts DEF Shape
  <2>3. new.name = Token.name /\ new.cont = Innermost(indexSuper)
    BY DEF NewType
  <2>4. new.cont = Null <=> indexSuper = <<>>
    <3>1. indexSuper = <<>> => Innermost(indexSuper) = Null
      BY DEF Innermost
    <3>2. indexSuper # <<>> => Innermost(indexSuper) # Null
      <4>1. indexSuper # <<>> => Len(indexSuper) \in DOMAIN indexSuper
        BY DEF Shape
      <4>2. Null \notin Object
        BY ObjectFacts DEF Null
      <4> QED BY <4>1, <4>2 DEF Innermost, Last, Shape
    <3> QED BY <2>3, <3>1, <3>2
  <2>5. new.cont = Null => key = <<Token.name>>
    <3>1. o \in 1 .. Len(object') /\ Len(object') \in Nat
      BY <2>2
    <3> HIDE DEF new, o
    <3> QED BY <2>2, <2>3, <3>1, MangledTop
  <2>6. new.cont = Null <=> \A d \in Before(file, at) : ~ AnEnum(d)
    BY <2>1, <2>4 DEF Popped, IndexedDecls, FirstPasses
  <2>7. o = ObjectOf(file, at)
    <3>1. Before(file, at + 1) = Before(file, at) \cup {<<file, at>>} /\ <<file, at>> \notin Before(file, at)
      BY <1>1, <2>1, BeforeSteps
    <3>2. ObjectOf(file, at) = Cardinality(Before(file, at + 1))
      <4>1. \A d \in AllDecls : d[1] = file => d[2] \in Nat
        BY <1>1, DeclPairs
      <4>2. {d \in AllDecls : d[1] < file \/ (d[1] = file /\ d[2] <= at)} = Before(file, at + 1)
        BY <2>1, <4>1 DEF Before
      <4> QED BY <4>2 DEF ObjectOf
    <3>3. Len(object) = Cardinality(Before(file, at)) /\ IsFiniteSet(Before(file, at))
      <4>1. Before(file, at) \subseteq AllDecls
        BY DEF Before
      <4> QED BY <1>1, <2>1, <4>1, SomeDecls DEF Counted, IndexedDecls, Failed
    <3> QED BY <3>1, <3>2, <3>3, FS_AddElement
  <2>8. f = file => (at \in Candidates(f, n) <=> Token.name = n /\ new.cont = Null)
    BY <1>1, <2>1, <2>6, CandidateFacts
  <2> HIDE DEF o, new, key
  <2>9. CASE f # file
    <3>1. nameTypeMap'[f] = nameTypeMap[f]
      BY <1>4, <2>2, <2>9
    <3> QED BY <1>2, <2>1, <2>9, <3>1 DEF Plain, Entered
  <2>10. CASE f = file
    <3>1. nameTypeMap'[f] = Bind(nameTypeMap[f], key, o)
      BY <1>1, <1>4, <2>2, <2>10
    <3>2. Plain(f, n)' = IF key = <<n>> THEN o ELSE Plain(f, n)
      BY <3>1, BindFacts DEF Plain, Under
    <3>3. key = <<n>> <=> Token.name = n /\ new.cont = Null
      <4>1. Len(<<n>>) = 1 /\ (<<Token.name>> = <<n>> <=> Token.name = n)
        OBVIOUS
      <4> QED BY <2>2, <2>5, <4>1
    <3>4. Plain(f, n)' = Latest(f, n, at')
      BY <1>2, <1>3, <2>1, <2>7, <2>8, <2>10, <3>2, <3>3
    <3>5. ~ Entered(f)' /\ ~ (f > file')
      BY <1>1, <2>1, <2>10 DEF Entered, FirstPasses
    <3> QED BY <3>4, <3>5
  <2> QED BY <2>9, <2>10
<1>6. CASE PreParseType
  <2> DEFINE n0 == Token.name
             o == PlainType(Token)
             key == EntryKey
  <2>1. pass = "preparse" /\ file' = file /\ (pass' = pass \/ pass' \in Failed)
    BY <1>6, PreParseSteps DEF PreParseType, Reading
  <2>2. /\ o = Plain(file, n0)
        /\ ToMove => o \in Object
        /\ unmangledTypeMap' = [unmangledTypeMap EXCEPT ![file] = Bind(@, n0, o)]
    BY <1>6, PreParseFacts
  <2>3. /\ nameTypeMap' = [nameTypeMap EXCEPT ![file] = nameTypeMap'[file]]
        /\ Reentered(nameTypeMap[file], nameTypeMap'[file], <<n0>>, key, o)
        /\ \/ key = <<n0>>
           \/ ToMove /\ (Len(key) = 1 => key = <<object[o].name>>)
    BY <1>6, PreParseEntry
  <2>4. Len(key) = 1 => key = <<n0>>
    <3>1. ToMove => object[o].name = n0
      <4>1. Null \notin Object /\ file \in Files
        BY ObjectFacts DEF Null, Shape
      <4> QED BY <2>2, <4>1, PlainNamed
    <3> QED BY <2>3, <3>1
  <2> HIDE DEF n0, o, key
  <2>5. CASE f # file
    <3>1. nameTypeMap'[f] = nameTypeMap[f] /\ unmangledTypeMap'[f] = unmangledTypeMap[f]
      BY <1>4, <2>2, <2>3, <2>5
    <3> QED BY <1>2, <2>1, <2>5, <3>1 DEF Plain, Entered, Failed, FirstPasses
  <2>6. CASE f = file
    <3>1. unmangledTypeMap'[f] = Bind(unmangledTypeMap[f], n0, o)
      BY <1>1, <1>4, <2>2, <2>6
    <3>2. Entered(f)
      BY <2>1, <2>6 DEF Entered
    <3>3. n \in DOMAIN unmangledTypeMap'[f] => unmangledTypeMap'[f][n] \in {Null, BaseObject(f, n)}
      BY <1>2, <2>2, <2>6, <3>1, <3>2, BindFacts
    <3>4. Plain(f, n)' \in {Null, Plain(f, n)}
      <4>1. CASE <<n>> \notin DOMAIN nameTypeMap'[f]
        BY <4>1 DEF Plain, Under
      <4>2. CASE <<n>> \in DOMAIN nameTypeMap'[f]
        <5>1. \/ <<n>> = key /\ nameTypeMap'[f][<<n>>] = o
              \/ <<n>> \in DOMAIN nameTypeMap[f] /\ nameTypeMap'[f][<<n>>] = nameTypeMap[f][<<n>>]
          BY <2>3, <2>6, <4>2, ReenteredFacts
        <5>2. <<n>> = key => n = n0
          <6>1. Len(<<n>>) = 1 /\ (<<n>> = <<n0>> => n = n0)
            OBVIOUS
          <6> QED BY <2>4, <6>1
        <5> QED BY <2>2, <2>6, <4>2, <5>1, <5>2 DEF Plain, Under
      <4> QED BY <4>1, <4>2
    <3>5. ~ (pass' = "index") /\ ~ (f > file')
      BY <1>1, <2>1, <2>6 DEF Failed
    <3> QED BY <1>2, <3>2, <3>3, <3>4, <3>5
  <2> QED BY <2>5, <2>6
<1>7. ASSUME ~ IndexType, ~ PreParseType
      PROVE  nameTypeMap' = nameTypeMap /\ unmangledTypeMap' = unmangledTypeMap /\ Plain(f, n)' = Plain(f, n)
  BY <1>7, SameMaps DEF Plain
<1>8. CASE IndexUses \/ IndexOther
  <2>1. ~ IndexType /\ ~ PreParseType /\ pass = "index" /\ file' = file
    BY <1>1, <1>8 DEF IndexUses, IndexOther, IndexType, PreParseType, Reading
  <2>2. \/ pass' = "error"
        \/ pass' = pass /\ at' = 1 /\ at = 0
        \/ pass' = pass /\ at' = at + 1 /\ at \in Nat \ {0} /\ at \notin Decls(file)
    BY <1>8, TokenFacts DEF IndexUses, IndexOther, Reading, Decls, Token
  <2> QED BY <1>2, <1>3, <1>7, <2>1, <2>2 DEF Entered, FirstPasses
<1>9. CASE EndIndex
  <2>1. /\ ~ IndexType /\ ~ PreParseType /\ pass = "index" /\ pass' = "preparse" /\ file' = file
        /\ at = Len(Text(file)) + 1
    BY <1>1, <1>9 DEF EndIndex, IndexType, PreParseType, Reading
  <2>2. DOMAIN unmangledTypeMap[file] = {}
    BY <1>1, <2>1 DEF Fresh, FirstPasses
  <2> QED BY <1>1, <1>2, <1>3, <1>7, <2>1, <2>2 DEF Entered, FirstPasses
<1>10. CASE EndPreParse
  <2>1. /\ ~ IndexType /\ ~ PreParseType /\ pass = "preparse"
        /\ \/ pass' = "parse" /\ file' = 1 /\ at' = 1 /\ file = Len(project.files)
           \/ pass' = "index" /\ file' = file + 1 /\ at' = 0
    BY <1>1, <1>10 DEF EndPreParse, IndexType, PreParseType, Reading
  <2>2. CASE pass' = "parse" /\ file = Len(project.files)
    <3>1. f < file \/ f = file
      BY <1>1, <2>2
    <3> QED BY <1>2, <1>7, <2>1, <2>2, <3>1 DEF Entered, FirstPasses
  <2>3. CASE pass' = "index" /\ file' = file + 1 /\ at' = 0
    <3>1. /\ f = file + 1 => f > file /\ ~ (f > file + 1) /\ ~ (f < file + 1)
          /\ f > file + 1 => f > file /\ ~ (f < file + 1)
          /\ f < file + 1 => f < file \/ f = file
      BY <1>1
    <3>2. Entered(f)' => Entered(f)
      BY <2>1, <2>3, <3>1 DEF Entered, FirstPasses
    <3> QED BY <1>2, <1>3, <1>7, <2>1, <2>3, <3>1, <3>2 DEF FirstPasses
  <2> QED BY <2>1, <2>2, <2>3
<1>11. CASE PreParseClose \/ UNCHANGED vars
  <2>1. /\ pass' = pass /\ file' = file /\ nameTypeMap' = nameTypeMap /\ unmangledTypeMap' = unmangledTypeMap
        /\ (pass' = "index" => at' = at)
    BY <1>11 DEF PreParseClose, Reading, vars, tables
  <2> QED BY <1>2, <2>1 DEF Entered, Plain
<1>12. CASE ParseType \/ ParseClose \/ EndParse
  <2>1. /\ pass = "parse" /\ pass' \in {"parse", "accepted"} \cup Failed
        /\ nameTypeMap' = nameTypeMap /\ unmangledTypeMap' = unmangledTypeMap
    BY <1>12, ParseFails DEF ParseType, ParseClose, EndParse, Reading, tables
  <2> QED BY <1>2, <2>1 DEF Entered, Plain, FirstPasses, Failed
<1> QED BY <1>5, <1>6, <1>8, <1>9, <1>10, <1>11, <1>12 DEF Next, Stopped

(* Only ParseType adds to what was read into an object, and one declaration*)
(* to the one object that its name stands for.                             *)
LEMMA ParsedSteps ==
  ASSUME IInv, [Next]_vars, pass' \notin Failed
  PROVE  /\ \A a \in Object : ~ ParseType => object'[a].parsed = object[a].parsed
         /\ IndexType => object'[Len(object) + 1].parsed = <<>>
         /\ ParseType => /\ TypeAt(Token) \in Object /\ TypeAt(Token) = unmangledTypeMap[file][Token.name]
                         /\ Token.name \in DOMAIN unmangledTypeMap[file]
                         /\ object'[TypeAt(Token)].parsed = Append(object[TypeAt(Token)].parsed, <<file, at>>)
                         /\ \A a \in Object : a # TypeAt(Token) => object'[a].parsed = object[a].parsed
         /\ Object' = IF IndexType THEN Object \cup {Len(object) + 1} ELSE Object
<1> USE DEF IInv, ResetInv
<1>1. /\ object \in Seq(Record) /\ Len(object) \in Nat /\ Object = 1 .. Len(object) /\ Object = DOMAIN object
      /\ \A a \in Object : object[a] \in Record
  BY ObjectFacts
<1>2. CASE IndexType
  <2>1. /\ \A a \in Object : object'[a] = object[a]
        /\ object'[Len(object) + 1] = NewType(Token, Innermost(indexSuper))
        /\ Object' = Object \cup {Len(object) + 1}
    BY <1>2, IndexFacts DEF Object
  <2>2. ~ ParseType
    BY <1>2 DEF IndexType, ParseType, Reading
  <2> QED BY <1>2, <2>1, <2>2 DEF NewType
<1>3. CASE PreParseType
  <2>1. ~ IndexType /\ ~ ParseType
    BY <1>3 DEF IndexType, ParseType, PreParseType, Reading
  <2>2. object' = IF ToMove THEN [object EXCEPT ![PlainType(Token)].cont = Last(preSuper)] ELSE object
    BY <1>3 DEF PreParseType, ToMove
  <2>3. Object' = Object
    BY <1>3, PreParseFacts DEF Object
  <2>4. \A a \in Object : object'[a].parsed = object[a].parsed
    <3> SUFFICES ASSUME NEW a \in Object PROVE object'[a].parsed = object[a].parsed
      OBVIOUS
    <3>1. CASE ToMove /\ a = PlainType(Token)
      <4>1. object'[a] = [object[a] EXCEPT !.cont = Last(preSuper)]
        BY <1>1, <2>2, <3>1
      <4>2. object[a] \in Record
        BY <1>1
      <4> QED BY <4>1, <4>2 DEF Record
    <3>2. CASE ~ (ToMove /\ a = PlainType(Token))
      <4>1. object'[a] = object[a]
        BY <1>1, <2>2, <3>2
      <4> QED BY <4>1
    <3> QED BY <3>1, <3>2
  <2> QED BY <2>1, <2>3, <2>4
<1>4. CASE ParseType
  <2> DEFINE o == TypeAt(Token)
  <2>1. pass' = pass /\ ~ IndexType
    BY <1>4, ParseFails DEF IndexType, ParseType, Reading
  <2>2. /\ o \in Object /\ o = unmangledTypeMap[file][Token.name] /\ Token.name \in DOMAIN unmangledTypeMap[file]
        /\ Object' = Object /\ \A a \in Object : a # o => object'[a] = object[a]
    BY <1>4, <2>1, ParseFacts DEF Object
  <2>3. object' = [object EXCEPT ![o] = Parsed(@, Token)]
    BY <1>4, <2>1 DEF ParseType
  <2> HIDE DEF o
  <2>4. object'[o] = Parsed(object[o], Token) /\ object[o] \in Record
    BY <1>1, <2>2, <2>3
  <2>5. object'[o].parsed = Append(object[o].parsed, <<file, at>>)
    BY <2>4 DEF Parsed, Record
  <2> QED BY <1>4, <2>1, <2>2, <2>5 DEF o
<1>5. CASE ~ IndexType /\ ~ PreParseType /\ ~ ParseType
  <2>1. object' = object
    BY <1>5, SameObjects
  <2> QED BY <1>5, <2>1 DEF Object
<1> QED BY <1>2, <1>3, <1>4, <1>5

LEMMA GatheredStep ==
  ASSUME IInv, Based, Gathered, [Next]_vars
  PROVE  Gathered'
<1> USE DEF IInv, ResetInv
<1>1. \A o : BasedOn(o)' = BasedOn(o)
  BY SameDecls
<1> SUFFICES ASSUME pass' \notin Failed, NEW o \in Object'
             PROVE  /\ Range(object'[o].parsed) = ReadDecls' \cap BasedOn(o)
                    /\ Len(object'[o].parsed) = Cardinality(ReadDecls' \cap BasedOn(o))
  BY <1>1 DEF Gathered
<1>2. ASSUME o \in Object
      PROVE  /\ Range(object[o].parsed) = ReadDecls \cap BasedOn(o)
             /\ Len(object[o].parsed) = Cardinality(ReadDecls \cap BasedOn(o))
  BY <1>2, DeclSteps DEF Gathered
<1>3. CASE IndexType /\ o = Len(object) + 1
  <2>1. pass = "index" /\ pass' = pass
    BY <1>3 DEF IndexType, Reading
  <2>2. ReadDecls' = {} /\ object'[o].parsed = <<>>
    BY <1>3, <2>1, ParsedSteps DEF ReadDecls
  <2> QED BY <2>2, FS_EmptySet DEF Range
<1>4. CASE ParseType
  <2> DEFINE d == <<file, at>>
             m == TypeAt(Token)
  <2>1. /\ d \in AllDecls \ ReadDecls /\ HeadAt(d) = Token /\ ReadDecls' = ReadDecls \cup {d} /\ ReadDecls \subseteq AllDecls
    BY <1>4, DeclSteps
  <2>2. /\ m \in Object /\ m = unmangledTypeMap[file][Token.name] /\ Token.name \in DOMAIN unmangledTypeMap[file]
        /\ object'[m].parsed = Append(object[m].parsed, d)
        /\ \A a \in Object : a # m => object'[a].parsed = object[a].parsed
        /\ o \in Object
    BY <1>4, ParsedSteps DEF IndexType, ParseType, Reading
  <2>3. m = BaseObject(file, Token.name)
    <3>1. file \in Files /\ Token.name \in NamesIn(file) /\ Entered(file)
      BY <1>4, <2>2, TokenFacts DEF Shape, Usable, UsableEntry, Entered, ParseType, Reading
    <3>2. Null \notin Object
      BY ObjectFacts DEF Null
    <3> QED BY <2>2, <3>1, <3>2 DEF Based
  <2>4. d[1] = file
    OBVIOUS
  <2> HIDE DEF d, m
  <2>5. \A a : d \in BasedOn(a) <=> a = m
    BY <2>1, <2>3, <2>4 DEF BasedOn
  <2>6. CASE o = m
    <3>1. ReadDecls' \cap BasedOn(o) = (ReadDecls \cap BasedOn(o)) \cup {d} /\ d \notin ReadDecls \cap BasedOn(o)
      BY <2>1, <2>5, <2>6
    <3>2. IsFiniteSet(ReadDecls \cap BasedOn(o))
      <4>1. ReadDecls \cap BasedOn(o) \in SUBSET AllDecls
        BY <2>1
      <4> QED BY <4>1, SomeDecls DEF Shape
    <3>3. object[o].parsed \in Seq(Nat \X Nat)
      <4>1. object[o] \in Record
        BY <2>2, ObjectFacts
      <4> QED BY <4>1 DEF Record
    <3>4. d \in Nat \X Nat
      <4>1. file \in Nat
        BY ProjectFacts DEF Shape
      <4> QED BY <1>4, <4>1, TokenFacts DEF d, ParseType
    <3>5. /\ Len(object'[o].parsed) = Len(object[o].parsed) + 1
          /\ Range(object'[o].parsed) = Range(object[o].parsed) \cup {d}
      <4> DEFINE s == object[o].parsed
      <4>1. object'[o].parsed = Append(s, d) /\ s \in Seq(Nat \X Nat)
        BY <2>2, <2>6, <3>3
      <4> HIDE DEF s
      <4>2. /\ Len(Append(s, d)) = Len(s) + 1 /\ DOMAIN Append(s, d) = DOMAIN s \cup {Len(s) + 1}
            /\ Append(s, d)[Len(s) + 1] = d /\ \A i \in DOMAIN s : Append(s, d)[i] = s[i]
        BY <3>4, <4>1
      <4>3. Range(Append(s, d)) = Range(s) \cup {d}
        BY <4>2 DEF Range
      <4> QED BY <4>1, <4>2, <4>3 DEF s
    <3> QED BY <1>2, <2>2, <3>1, <3>2, <3>5, FS_AddElement
  <2>7. CASE o # m
    <3>1. ReadDecls' \cap BasedOn(o) = ReadDecls \cap BasedOn(o)
      BY <2>1, <2>5, <2>7
    <3> QED BY <1>2, <2>2, <2>7, <3>1
  <2> QED BY <2>6, <2>7
<1>5. CASE ~ ParseType /\ ~ (IndexType /\ o = Len(object) + 1)
  <2>1. o \in Object /\ object'[o].parsed = object[o].parsed
    BY <1>5, ParsedSteps
  <2>2. ReadDecls' = ReadDecls
    BY <1>5, DeclSteps
  <2> QED BY <1>2, <2>1, <2>2
<1> QED BY <1>3, <1>4, <1>5

(* At the start nothing was read.                                          *)
LEMMA InitShared == ASSUME Init PROVE SharedInv
<1>1. /\ pass = "index" /\ file = 1 /\ at = 0 /\ object = <<>> /\ Object = {} /\ Len(object) = 0 /\ indexSuper = <<>>
      /\ project \in Projects /\ Files = 1 .. Len(project.files) /\ Len(project.files) \in Nat \ {0}
  BY ProjectFacts DEF Init, Object
<1>2. 1 \in Files
  BY <1>1
<1>3. IndexedDecls = {}
  BY <1>1, <1>2, BeforeSteps DEF IndexedDecls
<1>4. Counted /\ Popped
  BY <1>1, <1>3, FS_EmptySet DEF Counted, Popped
<1>5. Based
  <2>1. \A f \in Files : \A n : Plain(f, n) = Null
    BY DEF Init, Plain, Under
  <2>2. \A f \in Files : \A n : Latest(f, n, 0) = Null
    BY <1>1, LatestSteps
  <2>3. \A f \in Files : ~ Entered(f)
    BY <1>1 DEF Entered
  <2> QED BY <1>1, <2>1, <2>2, <2>3 DEF Based
<1>6. Gathered
  BY <1>1 DEF Gathered
<1> QED BY <1>4, <1>5, <1>6 DEF SharedInv

LEMMA SharedStep ==
  ASSUME IInv, SharedInv, [Next]_vars
  PROVE  SharedInv'
<1>1. Counted' /\ Popped'
  BY CountedStep, PoppedStep DEF IInv, ResetInv, SharedInv
<1>2. Based' /\ Gathered'
  BY BasedStep, GatheredStep DEF SharedInv
<1> QED BY <1>1, <1>2 DEF SharedInv

LEMMA SharedImplied == ASSUME SharedInv PROVE SharedByName
<1> SUFFICES ASSUME pass = "accepted", NEW o \in Object
             PROVE  /\ Range(object[o].parsed) = BasedOn(o)
                    /\ Len(object[o].parsed) = Cardinality(BasedOn(o))
  BY DEF SharedByName, BasedOn
<1>1. ReadDecls = AllDecls /\ AllDecls \cap BasedOn(o) = BasedOn(o)
  BY DEF ReadDecls, BasedOn
<1> QED BY <1>1 DEF SharedInv, Gathered, Failed

(* In every accepted project two declarations are read into one object     *)
(* exactly if they are in one file under one plain name: each object holds *)
(* the declarations of the name whose last declaration it was made for,    *)
(* each of them once, and no others (Parser.cpp:923, :959, :1042, :1064,   *)
(* :1092).                                                                 *)
THEOREM SharedByNameCorrect == Spec => []SharedByName
<1>1. Init => SharedInv
  BY InitShared
<1>2. IInv /\ SharedInv /\ [Next]_vars => SharedInv'
  BY SharedStep
<1>3. SharedInv => SharedByName
  BY SharedImplied
<1> QED BY <1>1, <1>2, <1>3, Invariant, PTL DEF Spec
=============================================================================
