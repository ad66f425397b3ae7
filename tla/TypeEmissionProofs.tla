------------------------- MODULE TypeEmissionProofs -------------------------
(***************************************************************************)
(* What TypeEmission keeps for every project.  StaleIsSeen: every use of a *)
(* global in another module is there while one of the two modules is still *)
(* to be written, so Generator::write refuses it.                          *)
(***************************************************************************)
EXTENDS TypeRules, SequenceTheorems, FiniteSetTheorems, TLAPS

TypesOf(i) == Elements(project.types[project.order[i]])

(***************************************************************************)
(* The inductive invariant.  A class is signed in the turn of a file that  *)
(* declares it or a descendant of it; from then on, and at the latest when *)
(* that file's turn to be generated is over, it is emitted.  So the module *)
(* of an explicit constructor that still has to get its body has not been  *)
(* written.                                                                *)
(***************************************************************************)
Positions ==
  /\ pos <= Len(project.order) + 1
  /\ pc # "sigs" => pos <= Len(project.order)
  /\ pc = "sigs" => todo = <<>> /\ refs = {} /\ \A c \in Class : emitIn[c] = NoFile

SignedAt(c, i) == sigIn[c] = project.order[i] /\ \E d \in TypesOf(i) : c \in Lineage(d)

Signatures ==
  /\ pc \in {"sigs", "gen", "done"} =>
       \A i \in DOMAIN project.order :
         (pc = "sigs" => i < pos) => \A c \in TypesOf(i) : sigIn[c] # NoFile /\ c \notin Ancestors(c)
  /\ \A c \in Class : sigIn[c] # NoFile => \E i \in DOMAIN project.order : SignedAt(c, i)

Emitted(c) == emitIn[c] # NoFile
Awaited(c) == \E t \in Elements(todo) : t.op = "generate" /\ c \in Lineage(t.of)

AncestorsToo ==
  \A c \in Class : Emitted(c) /\ project.super[c] # NoClass =>
    \/ Emitted(project.super[c])
    \/ \E t \in Elements(todo) : t.op = "generate" /\ t.of = project.super[c]

InTheirTurn ==
  pc \in {"gen", "done"} =>
    \A c \in Class : \A i \in DOMAIN project.order :
      SignedAt(c, i) => /\ i < pos => Emitted(c)
                        /\ i = pos => Emitted(c) \/ Awaited(c)

Fit(t) ==
  /\ t.op \in {"generate", "typeInfo", "vtable", "construct"} => t.of \in Class
  /\ t.op \in {"stmt", "infos"} => t.at \in DOMAIN project.body[t.of]
  /\ t.op = "infos" => project.body[t.of][t.at].of \in Class
  /\ t.op = "construct" =>
       \E i \in DOMAIN project.order : i >= pos /\ sigIn[t.of] = project.order[i]

TasksFit == \A t \in Elements(todo) : Fit(t)

Touched(r) == \E i \in DOMAIN project.order : i >= pos /\ project.order[i] \in {r[1], r[2]}
StillToWrite == pc # "done" => \A r \in refs : Touched(r)

InTime ==
  /\ Positions /\ Signatures /\ AncestorsToo /\ InTheirTurn
  /\ TasksFit /\ StillToWrite /\ StaleIsSeen

IInv == TypeOK /\ IsFiniteSet(globals) /\ InTime

-----------------------------------------------------------------------------
(***************************************************************************)
(* The list of tasks.                                                      *)
(***************************************************************************)
LEMMA ElementsIn ==
  ASSUME NEW S, NEW s \in Seq(S)
  PROVE  Elements(s) \subseteq S
BY DEF Elements

LEMMA ElementsConcat ==
  ASSUME NEW S, NEW s \in Seq(S), NEW t \in Seq(S)
  PROVE  s \o t \in Seq(S) /\ Elements(s \o t) = Elements(s) \cup Elements(t)
<1>1. /\ s \o t \in Seq(S) /\ Len(s \o t) = Len(s) + Len(t)
      /\ \A i \in 1 .. Len(s) + Len(t) : (s \o t)[i] = IF i <= Len(s) THEN s[i] ELSE t[i - Len(s)]
  BY ConcatProperties
<1>2. DOMAIN s = 1 .. Len(s) /\ DOMAIN t = 1 .. Len(t) /\ DOMAIN (s \o t) = 1 .. Len(s) + Len(t)
      /\ Len(s) \in Nat /\ Len(t) \in Nat
  BY <1>1, LenProperties
<1> DEFINE st == s \o t
<1>3. /\ DOMAIN st = 1 .. Len(s) + Len(t)
      /\ \A i \in 1 .. Len(s) + Len(t) : st[i] = IF i <= Len(s) THEN s[i] ELSE t[i - Len(s)]
  BY <1>1, <1>2
<1> HIDE DEF st
<1>4. Elements(st) \subseteq Elements(s) \cup Elements(t)
  BY <1>2, <1>3, SMTT(30) DEF Elements
<1>5. Elements(s) \subseteq Elements(st)
  BY <1>2, <1>3 DEF Elements
<1>6. ASSUME NEW i \in 1 .. Len(t) PROVE st[Len(s) + i] = t[i] /\ Len(s) + i \in DOMAIN st
  BY <1>2, <1>3
<1>7. Elements(t) \subseteq Elements(st)
  BY <1>2, <1>6 DEF Elements
<1> QED BY <1>1, <1>4, <1>5, <1>7 DEF st

LEMMA ElementsPop ==
  ASSUME NEW S, NEW s \in Seq(S), s # <<>>
  PROVE  /\ Head(s) \in S /\ Tail(s) \in Seq(S)
         /\ Elements(s) = {Head(s)} \cup Elements(Tail(s))
<1>1. /\ Head(s) \in S /\ Head(s) = s[1] /\ Tail(s) \in Seq(S) /\ Len(Tail(s)) = Len(s) - 1
      /\ \A i \in 1 .. Len(s) - 1 : Tail(s)[i] = s[i + 1]
  BY HeadTailProperties
<1>2. Len(s) \in Nat \ {0} /\ DOMAIN s = 1 .. Len(s) /\ DOMAIN Tail(s) = 1 .. Len(s) - 1
  BY <1>1, EmptySeq, LenProperties
<1> DEFINE t == Tail(s)
<1>3. DOMAIN t = 1 .. Len(s) - 1 /\ \A i \in 1 .. Len(s) - 1 : t[i] = s[i + 1]
  BY <1>1, <1>2
<1> HIDE DEF t
<1>4. ASSUME NEW i \in 1 .. Len(s) PROVE s[i] \in {s[1]} \cup Elements(t)
  <2>1. i # 1 => i - 1 \in DOMAIN t /\ t[i - 1] = s[i]
    BY <1>2, <1>3
  <2> QED BY <2>1 DEF Elements
<1>5. Elements(t) \subseteq Elements(s)
  BY <1>2, <1>3 DEF Elements
<1>6. s[1] \in Elements(s)
  BY <1>2 DEF Elements
<1>7. Elements(s) = {s[1]} \cup Elements(t)
  BY <1>2, <1>4, <1>5, <1>6 DEF Elements
<1> QED BY <1>1, <1>7 DEF t

\* A step takes the head of the list and puts tasks in its place.
LEMMA Continued ==
  ASSUME todo \in Seq(Task), todo # <<>>, NEW tasks \in Seq(Task), todo' = tasks \o Tail(todo)
  PROVE  /\ Head(todo) \in Task
         /\ todo' \in Seq(Task)
         /\ Elements(todo) = {Head(todo)} \cup Elements(Tail(todo))
         /\ Elements(todo') = Elements(tasks) \cup Elements(Tail(todo))
<1>1. /\ Head(todo) \in Task /\ Tail(todo) \in Seq(Task)
      /\ Elements(todo) = {Head(todo)} \cup Elements(Tail(todo))
  BY ElementsPop
<1> DEFINE rest == Tail(todo)
<1>2. rest \in Seq(Task) /\ todo' = tasks \o rest
  BY <1>1
<1> HIDE DEF rest
<1>3. tasks \o rest \in Seq(Task) /\ Elements(tasks \o rest) = Elements(tasks) \cup Elements(rest)
  BY <1>2, ElementsConcat
<1>4. todo' \in Seq(Task) /\ Elements(todo') = Elements(tasks) \cup Elements(rest)
  BY <1>2, <1>3
<1> QED BY <1>1, <1>4 DEF rest

LEMMA Single ==
  ASSUME NEW S, NEW e \in S
  PROVE  <<e>> \in Seq(S) /\ Elements(<<e>>) = {e}
BY DEF Elements

LEMMA None ==
  ASSUME NEW S
  PROVE  <<>> \in Seq(S) /\ Elements(<<>>) = {}
BY EmptySeq DEF Elements

-----------------------------------------------------------------------------
(***************************************************************************)
(* Projects and lineages.                                                  *)
(***************************************************************************)
LEMMA ProjectType ==
  ASSUME TypeOK
  PROVE  /\ project.order \in Seq(File) \ {<<>>}
         /\ project.types \in [File -> Seq(Class)]
         /\ project.super \in [Class -> Class \cup {NoClass}]
         /\ project.ctor \in [Class -> {"implicit", "explicit", "args", "super"}]
         /\ project.body \in [Body -> Seq(Stmt)]
         /\ Len(project.order) \in Nat \ {0}
         /\ DOMAIN project.order = 1 .. Len(project.order)
         /\ \A i \in DOMAIN project.order :
              project.order[i] \in File /\ TypesOf(i) \subseteq Class
<1>1. /\ project.order \in Seq(File) \ {<<>>}
      /\ project.types \in [File -> Seq(Class)]
      /\ project.super \in [Class -> Class \cup {NoClass}]
      /\ project.ctor \in [Class -> {"implicit", "explicit", "args", "super"}]
      /\ project.body \in [Body -> Seq(Stmt)]
  BY DEF TypeOK, Project
<1>2. Len(project.order) \in Nat \ {0} /\ DOMAIN project.order = 1 .. Len(project.order)
  BY <1>1, EmptySeq, LenProperties
<1>3. ASSUME NEW i \in DOMAIN project.order
      PROVE project.order[i] \in File /\ TypesOf(i) \subseteq Class
  <2>1. project.order[i] \in File
    BY <1>1, <1>2, ElementOfSeq
  <2>2. project.types[project.order[i]] \in Seq(Class)
    BY <1>1, <2>1
  <2> QED BY <2>1, <2>2, ElementsIn DEF TypesOf
<1> QED BY <1>1, <1>2, <1>3

LEMMA CurrentFile ==
  ASSUME TypeOK, Positions, pc = "gen"
  PROVE  pos \in DOMAIN project.order /\ file = project.order[pos] /\ file \in File
<1>1. pos \in Nat \ {0} /\ pos <= Len(project.order)
  BY DEF TypeOK, Positions
<1> QED BY <1>1, ProjectType DEF file

\* A superclass is an ancestor, and so is the superclass of an ancestor ...
LEMMA LineageUp ==
  ASSUME NEW c \in Class
  PROVE  /\ Ancestors(c) \subseteq Class /\ Lineage(c) \subseteq Class /\ c \in Lineage(c)
         /\ Lineage(c) = {c} \cup Ancestors(c)
         /\ project.super[c] \in Class => project.super[c] \in Lineage(c)
         /\ \A a \in Lineage(c) : project.super[a] \in Class => project.super[a] \in Lineage(c)
<1>1. NoClass \notin Class
  BY NamesAssumption
<1>2. project.super[c] \in Class => project.super[c] \in Ancestors(c)
  BY <1>1 DEF Ancestors
<1>3. \A a \in Ancestors(c) : project.super[a] \in Class => project.super[a] \in Ancestors(c)
  BY <1>1 DEF Ancestors, UpClosed
<1> QED BY <1>2, <1>3 DEF Ancestors, Lineage

\* ... and nothing else is: every set closed under `super` holds them all.
LEMMA LineageLeast ==
  ASSUME NEW c \in Class, NEW S \in SUBSET Class, c \in S, UpClosed(S)
  PROVE  Lineage(c) \subseteq S
BY DEF Lineage, Ancestors, UpClosed

\* All of this depends on the project alone.
LEMMA SameProject ==
  ASSUME project' = project
  PROVE  /\ \A c : Lineage(c)' = Lineage(c)
         /\ \A c : Ancestors(c)' = Ancestors(c)
         /\ \A i : TypesOf(i)' = TypesOf(i)
         /\ \A b : BodyTasks(b)' = BodyTasks(b)
         /\ \A f : Turn(f)' = Turn(f)
BY DEF Lineage, Ancestors, UpClosed, TypesOf, BodyTasks, Turn

-----------------------------------------------------------------------------
(***************************************************************************)
(* One step of a turn.  It may emit the class it was to generate, and then *)
(* the superclass is next; it may touch other modules, but only together   *)
(* with one that is not written yet.                                       *)
(***************************************************************************)
LEMMA TurnStep ==
  ASSUME IInv, pc = "gen", todo # <<>>, UNCHANGED <<project, pc, pos, sigIn>>,
         NEW tasks \in Seq(Task), todo' = tasks \o Tail(todo),
         \A t \in Elements(tasks) : Fit(t),
         \A c \in Class : Emitted(c) => emitIn'[c] # NoFile,
         Head(todo).op = "generate" => emitIn'[Head(todo).of] # NoFile,
         \A c \in Class : emitIn'[c] # NoFile /\ project.super[c] # NoClass => Emitted(c) \/
           \E t \in Elements(tasks) : t.op = "generate" /\ t.of = project.super[c],
         \A r \in refs' : r \in refs \/ Touched(r)
  PROVE  todo' \in Seq(Task) /\ InTime'
<1>1. /\ Head(todo) \in Task /\ todo' \in Seq(Task)
      /\ Elements(todo) = {Head(todo)} \cup Elements(Tail(todo))
      /\ Elements(todo') = Elements(tasks) \cup Elements(Tail(todo))
  BY Continued DEF IInv, TypeOK
<1>2. /\ \A t : Fit(t)' = Fit(t)
      /\ \A r : Touched(r)' = Touched(r)
      /\ \A c, i : SignedAt(c, i)' = SignedAt(c, i)
  BY SameProject DEF Fit, Touched, SignedAt
<1>3. TasksFit'
  BY <1>1, <1>2 DEF IInv, InTime, TasksFit
<1>4. StillToWrite'
  BY <1>2 DEF IInv, InTime, StillToWrite
<1>5. Positions' /\ StaleIsSeen'
  BY DEF IInv, InTime, Positions, StaleIsSeen
<1>6. Signatures'
  BY <1>2, SameProject DEF IInv, InTime, Signatures
<1>7. AncestorsToo'
  <2> SUFFICES ASSUME NEW c \in Class, emitIn'[c] # NoFile, project.super[c] # NoClass
               PROVE  \/ emitIn'[project.super[c]] # NoFile
                      \/ \E t \in Elements(todo') : t.op = "generate" /\ t.of = project.super[c]
    BY DEF AncestorsToo, Emitted
  <2>1. project.super[c] \in Class
    BY ProjectType DEF IInv, InTime
  <2>2. CASE Emitted(c)
    <3>1. Emitted(project.super[c]) \/ \E t \in Elements(todo) : t.op = "generate" /\ t.of = project.super[c]
      BY <2>2 DEF IInv, InTime, AncestorsToo
    <3>2. \A t \in Elements(todo) :
            t.op = "generate" => t \in Elements(todo') \/ emitIn'[t.of] # NoFile
      BY <1>1
    <3> QED BY <2>1, <3>1, <3>2
  <2> QED BY <1>1, <2>2 DEF Emitted
<1>8. InTheirTurn'
  <2> SUFFICES ASSUME NEW c \in Class, NEW i \in DOMAIN project.order, SignedAt(c, i)
               PROVE  (i < pos => emitIn'[c] # NoFile) /\ (i = pos => emitIn'[c] # NoFile \/ Awaited(c)')
    BY <1>2 DEF InTheirTurn, Emitted
  <2>1. (i < pos => Emitted(c)) /\ (i = pos => Emitted(c) \/ Awaited(c))
    BY DEF IInv, InTime, InTheirTurn
  <2> DEFINE S == {x \in Class : emitIn'[x] # NoFile \/ Awaited(x)'}
  <2>2. \A x : Awaited(x)' <=> \E t \in Elements(todo') : t.op = "generate" /\ x \in Lineage(t.of)
    BY SameProject DEF Awaited
  <2>3. \A t \in Elements(todo') : t.op = "generate" => t.of \in Class
    BY <1>2, <1>3 DEF TasksFit, Fit
  <2>4. ASSUME NEW x \in S, project.super[x] # NoClass PROVE project.super[x] \in S
    <3>1. project.super[x] \in Class
      BY <2>4, ProjectType DEF IInv, InTime
    <3>2. CASE emitIn'[x] # NoFile
      <4>1. \/ emitIn'[project.super[x]] # NoFile
            \/ \E t \in Elements(todo') : t.op = "generate" /\ t.of = project.super[x]
        BY <1>7, <2>4, <3>2 DEF AncestorsToo, Emitted
      <4> QED BY <2>2, <3>1, <4>1, LineageUp
    <3>3. CASE Awaited(x)'
      <4>1. PICK t \in Elements(todo') : t.op = "generate" /\ x \in Lineage(t.of)
        BY <2>2, <3>3
      <4>2. project.super[x] \in Lineage(t.of)
        BY <2>3, <3>1, <4>1, LineageUp
      <4> QED BY <2>2, <3>1, <4>1, <4>2
    <3> QED BY <3>2, <3>3
  <2>5. UpClosed(S) /\ S \in SUBSET Class
    BY <2>4 DEF UpClosed
  <2>6. ASSUME Awaited(c) PROVE emitIn'[c] # NoFile \/ Awaited(c)'
    <3>1. PICK t \in Elements(todo) : t.op = "generate" /\ c \in Lineage(t.of)
      BY <2>6 DEF Awaited
    <3>2. CASE t = Head(todo)
      <4>0. t.of \in Class
        BY <3>1 DEF IInv, InTime, TasksFit, Fit
      <4>1. t.of \in S
        BY <3>1, <3>2, <4>0
      <4> HIDE DEF S
      <4>2. Lineage(t.of) \subseteq S
        BY <2>5, <4>0, <4>1, LineageLeast
      <4> QED BY <3>1, <4>2 DEF S
    <3>3. CASE t \in Elements(Tail(todo))
      BY <1>1, <2>2, <3>1, <3>3
    <3> QED BY <1>1, <3>2, <3>3
  <2> QED BY <2>1, <2>6
<1> QED BY <1>1, <1>3, <1>4, <1>5, <1>6, <1>7, <1>8 DEF InTime

-----------------------------------------------------------------------------
(***************************************************************************)
(* What the tasks of a step look like.                                     *)
(***************************************************************************)
LEMMA BodyTasksFit ==
  ASSUME TypeOK, NEW b \in Body
  PROVE  /\ BodyTasks(b) \in Seq(Task)
         /\ \A t \in Elements(BodyTasks(b)) : Fit(t) /\ t.op \in {"begin", "stmt", "end"}
<1> DEFINE stmts == [i \in DOMAIN project.body[b] |-> Do("stmt", b, i)]
<1>1. project.body[b] \in Seq(Stmt)
  BY ProjectType
<1>2. DOMAIN project.body[b] = 1 .. Len(project.body[b]) /\ Len(project.body[b]) \in Nat
  BY <1>1, LenProperties
<1>3. stmts \in Seq(Task)
  <2>1. \A i \in 1 .. Len(project.body[b]) : Do("stmt", b, i) \in Task
    BY DEF Do, Task
  <2> QED BY <1>2, <2>1, SeqDef
<1>4. \A t \in Elements(stmts) : t.op = "stmt" /\ t.of = b /\ t.at \in DOMAIN project.body[b]
  <2>1. \A i \in DOMAIN project.body[b] :
          stmts[i].op = "stmt" /\ stmts[i].of = b /\ stmts[i].at \in DOMAIN project.body[b]
    BY DEF Do
  <2>2. \A t \in Elements(stmts) : \E i \in DOMAIN project.body[b] : t = stmts[i]
    BY DEF Elements
  <2> HIDE DEF stmts
  <2> QED BY <2>1, <2>2
<1>5. Do("begin", b, 0) \in Task /\ Do("end", b, 0) \in Task
  BY DEF Do, Task
<1> DEFINE first == <<Do("begin", b, 0)>>
           last == <<Do("end", b, 0)>>
<1>6. /\ first \in Seq(Task) /\ Elements(first) = {Do("begin", b, 0)}
      /\ last \in Seq(Task) /\ Elements(last) = {Do("end", b, 0)}
  BY <1>5, Single
<1>7. BodyTasks(b) = (first \o stmts) \o last
  BY DEF BodyTasks
<1> DEFINE head == first \o stmts
<1> HIDE DEF stmts, first, last
<1>8. head \in Seq(Task) /\ Elements(head) = Elements(first) \cup Elements(stmts)
  BY <1>3, <1>6, ElementsConcat
<1>0. BodyTasks(b) = head \o last
  BY <1>7
<1> HIDE DEF head
<1>9. BodyTasks(b) \in Seq(Task) /\ Elements(BodyTasks(b)) = Elements(head) \cup Elements(last)
  BY <1>0, <1>6, <1>8, ElementsConcat
<1>10. \A t \in Elements(BodyTasks(b)) : t \in Elements(stmts) \/ t = Do("begin", b, 0) \/ t = Do("end", b, 0)
  BY <1>6, <1>8, <1>9
<1>11. ASSUME NEW t \in Elements(BodyTasks(b))
       PROVE Fit(t) /\ t.op \in {"begin", "stmt", "end"}
  <2>1. CASE t \in Elements(stmts)
    BY <1>4, <2>1 DEF Fit
  <2>2. CASE t = Do("begin", b, 0) \/ t = Do("end", b, 0)
    BY <2>2 DEF Fit, Do
  <2> QED BY <1>10, <2>1, <2>2
<1> QED BY <1>9, <1>11

LEMMA GenerateFits ==
  ASSUME NEW c \in Class
  PROVE  /\ Do("generate", c, 0) \in Task /\ Fit(Do("generate", c, 0))
         /\ Do("generate", c, 0).op = "generate" /\ Do("generate", c, 0).of = c
BY DEF Do, Task, Body, Fit

LEMMA TurnFits ==
  ASSUME TypeOK, NEW f \in File
  PROVE  /\ Turn(f) \in Seq(Task)
         /\ \A t \in Elements(Turn(f)) : Fit(t) /\ t.op # "construct"
         /\ \A c \in Elements(project.types[f]) :
              \E t \in Elements(Turn(f)) : t.op = "generate" /\ t.of = c
<1> DEFINE types == [i \in DOMAIN project.types[f] |-> Do("generate", project.types[f][i], 0)]
<1>1. project.types[f] \in Seq(Class)
  BY ProjectType
<1>2. DOMAIN project.types[f] = 1 .. Len(project.types[f]) /\ Len(project.types[f]) \in Nat
      /\ \A i \in DOMAIN project.types[f] : project.types[f][i] \in Class
  BY <1>1, LenProperties, ElementOfSeq
<1>3. types \in Seq(Task)
  <2>1. \A i \in 1 .. Len(project.types[f]) : Do("generate", project.types[f][i], 0) \in Task
    BY <1>2, GenerateFits
  <2> QED BY <1>2, <2>1, SeqDef
<1>4. \A t \in Elements(types) : \E c \in Class : t = Do("generate", c, 0)
  BY <1>2 DEF Elements
<1>5. \A c \in Elements(project.types[f]) : Do("generate", c, 0) \in Elements(types)
  BY DEF Elements
<1>6. /\ BodyTasks(f) \in Seq(Task)
      /\ \A t \in Elements(BodyTasks(f)) : Fit(t) /\ t.op # "construct"
  BY BodyTasksFit DEF Body
<1>7. Turn(f) = types \o BodyTasks(f)
  BY DEF Turn
<1> HIDE DEF types
<1>8. Turn(f) \in Seq(Task) /\ Elements(Turn(f)) = Elements(types) \cup Elements(BodyTasks(f))
  BY <1>3, <1>6, <1>7, ElementsConcat
<1>9. \A t \in Elements(Turn(f)) : Fit(t) /\ t.op # "construct"
  BY <1>4, <1>6, <1>8, GenerateFits
<1>10. \A c \in Elements(project.types[f]) : c \in Class
  BY <1>1, ElementsIn
<1>11. \A c \in Elements(project.types[f]) :
         \E t \in Elements(Turn(f)) : t.op = "generate" /\ t.of = c
  BY <1>5, <1>8, <1>10, GenerateFits
<1> QED BY <1>8, <1>9, <1>11

-----------------------------------------------------------------------------
(***************************************************************************)
(* The globals of a module.                                                *)
(***************************************************************************)
LEMMA Numbered ==
  ASSUME IsFiniteSet(globals), NEW c
  PROVE  Number(c) \in Nat
<1>1. {g \in globals : g.in = file /\ g.of = c} \subseteq globals
  OBVIOUS
<1> QED BY <1>1, FS_Subset, FS_CardinalityType DEF Number

LEMMA CreatedType ==
  ASSUME IsFiniteSet(globals), file \in File, NEW c \in Class, NEW def \in BOOLEAN
  PROVE  Created(c, def) \in Global
BY Numbered DEF Created, Global

LEMMA Declarations ==
  ASSUME IsFiniteSet(globals), globals \subseteq Global, file \in File, NEW used \in SUBSET Class
  PROVE  IsFiniteSet(DeclarationsAfter(used)) /\ DeclarationsAfter(used) \subseteq Global
<1>1. Declared(used) \subseteq Class /\ IsFiniteSet(Declared(used))
  BY NamesAssumption, FS_Subset DEF Declared
<1> DEFINE created == {Created(c, FALSE) : c \in Declared(used)}
<1>2. IsFiniteSet(created)
  <2>1. [c \in Declared(used) |-> Created(c, FALSE)] \in Surjection(Declared(used), created)
    BY DEF Surjection
  <2> QED BY <1>1, <2>1, FS_Surjection
<1>3. created \subseteq Global
  BY <1>1, CreatedType
<1> QED BY <1>2, <1>3, FS_Union DEF DeclarationsAfter

LEMMA InfosType ==
  ASSUME TypeOK, IsFiniteSet(globals), file \in File, NEW used \in SUBSET Class
  PROVE  InfosAfter(used) \in [Class -> Handle]
<1>1. \A c \in Class : [init |-> TRUE, in |-> file, n |-> Number(c)] \in Handle
  BY Numbered DEF Handle
<1> QED BY <1>1 DEF InfosAfter, TypeOK

\* What a step touches it touches from the current module.
LEMMA AcrossTouches ==
  ASSUME IInv, pc = "gen", NEW handles \in SUBSET (File \cup {NoFile})
  PROVE  /\ Across(handles) \subseteq File \X File
         /\ \A r \in Across(handles) : Touched(r)
<1>1. pos \in DOMAIN project.order /\ file = project.order[pos] /\ file \in File /\ pos \in Nat
  BY CurrentFile DEF IInv, InTime, TypeOK
<1>2. Across(handles) \subseteq File \X File
  BY <1>1 DEF Across
<1>3. ASSUME NEW r \in Across(handles) PROVE Touched(r)
  BY <1>1 DEF Across, Touched
<1> QED BY <1>2, <1>3

LEMMA InfosTouch ==
  ASSUME IInv, pc = "gen", NEW used \in SUBSET Class
  PROVE  InfosRefs(used) \subseteq File \X File /\ \A r \in InfosRefs(used) : Touched(r)
<1>1. {infos[c].in : c \in used \ Declared(used)} \subseteq File \cup {NoFile}
  BY DEF IInv, TypeOK, Handle
<1> QED BY <1>1, AcrossTouches DEF InfosRefs

-----------------------------------------------------------------------------
(***************************************************************************)
(* The steps of a turn that emit no class: one lemma for what they do to   *)
(* the story told in time, then one per action.                            *)
(***************************************************************************)
LEMMA QuietStep ==
  ASSUME IInv, pc = "gen", todo # <<>>, UNCHANGED <<sigIn, emitIn>>,
         NEW tasks \in Seq(Task), Continue(tasks), \A t \in Elements(tasks) : Fit(t),
         Head(todo).op = "generate" => Emitted(Head(todo).of),
         \A r \in refs' : r \in refs \/ Touched(r)
  PROVE  todo' \in Seq(Task) /\ InTime'
<1>1. UNCHANGED <<project, pc, pos>> /\ todo' = tasks \o Tail(todo)
  BY DEF Continue
<1>2. \A c \in Class : Emitted(c) => emitIn'[c] # NoFile
  BY DEF Emitted
<1>3. Head(todo).op = "generate" => emitIn'[Head(todo).of] # NoFile
  BY DEF Emitted
<1>4. \A c \in Class : emitIn'[c] # NoFile /\ project.super[c] # NoClass => Emitted(c) \/
           \E t \in Elements(tasks) : t.op = "generate" /\ t.of = project.super[c]
  BY DEF Emitted
<1> QED BY <1>1, <1>2, <1>3, <1>4, TurnStep

LEMMA PlainStep ==
  ASSUME IInv, pc = "gen", todo # <<>>, UNCHANGED <<sigIn, emitIn>>, Continue(<<>>),
         Head(todo).op = "generate" => Emitted(Head(todo).of),
         \A r \in refs' : r \in refs \/ Touched(r)
  PROVE  todo' \in Seq(Task) /\ InTime'
<1>1. <<>> \in Seq(Task) /\ Elements(<<>>) = {}
  BY None
<1> QED BY <1>1, QuietStep

\* The task that is next fits.
LEMMA HeadFits ==
  ASSUME IInv, todo # <<>>
  PROVE  Head(todo) \in Task /\ Head(todo) \in Elements(todo) /\ Fit(Head(todo))
<1>1. Head(todo) \in Task /\ Head(todo) \in Elements(todo)
  BY ElementsPop DEF IInv, TypeOK
<1> QED BY <1>1 DEF IInv, InTime, TasksFit

LEMMA GenerateAgainKeeps ==
  ASSUME IInv, GenerateAgain
  PROVE  IInv'
<1>1. todo' \in Seq(Task) /\ InTime'
  BY PlainStep DEF GenerateAgain, Current, classVars, Emitted
<1>2. TypeOK' /\ IsFiniteSet(globals)'
  BY <1>1 DEF IInv, TypeOK, GenerateAgain, Continue, classVars, bodyVars
<1> QED BY <1>1, <1>2 DEF IInv

LEMMA TypeInfoKeeps ==
  ASSUME IInv, TypeInfo
  PROVE  IInv'
<1> DEFINE c == Head(todo).of
<1>1. pc = "gen" /\ todo # <<>> /\ Head(todo).op = "typeInfo"
  BY DEF TypeInfo, Current
<1>2. c \in Class /\ Ancestors(c) \in SUBSET Class
  BY <1>1, HeadFits, LineageUp DEF Fit
<1>3. file \in File
  BY <1>1, CurrentFile DEF IInv, InTime
<1> HIDE DEF c
<1>4. InfosRefs(Ancestors(c)) \subseteq File \X File /\ \A r \in InfosRefs(Ancestors(c)) : Touched(r)
  BY <1>1, <1>2, InfosTouch
<1>5. /\ globals' = DeclarationsAfter(Ancestors(c)) \cup {Created(c, TRUE)}
      /\ infos' = [InfosAfter(Ancestors(c)) EXCEPT ![c].in = file, ![c].n = Number(c)]
      /\ refs' = refs \cup InfosRefs(Ancestors(c))
  BY DEF TypeInfo, c
<1>6. todo' \in Seq(Task) /\ InTime'
  BY <1>1, <1>4, <1>5, PlainStep DEF TypeInfo
<1>7. IsFiniteSet(globals') /\ globals' \subseteq Global
  <2>1. /\ IsFiniteSet(DeclarationsAfter(Ancestors(c)))
        /\ DeclarationsAfter(Ancestors(c)) \subseteq Global
    BY <1>2, <1>3, Declarations DEF IInv, TypeOK
  <2>2. Created(c, TRUE) \in Global
    BY <1>2, <1>3, CreatedType DEF IInv
  <2> QED BY <1>5, <2>1, <2>2, FS_AddElement
<1>8. infos' \in [Class -> Handle]
  <2>1. InfosAfter(Ancestors(c)) \in [Class -> Handle]
    BY <1>2, <1>3, InfosType DEF IInv
  <2>2. Number(c) \in Nat
    BY Numbered DEF IInv
  <2> QED BY <1>2, <1>3, <1>5, <2>1, <2>2 DEF Handle
<1>9. TypeOK'
  BY <1>4, <1>5, <1>6, <1>7, <1>8 DEF IInv, TypeOK, TypeInfo, Continue, bodyVars
<1> QED BY <1>6, <1>7, <1>9 DEF IInv

LEMMA VtableKeeps ==
  ASSUME IInv, Vtable
  PROVE  IInv'
<1> DEFINE used == Lineage(Head(todo).of)
<1>1. pc = "gen" /\ todo # <<>> /\ Head(todo).op = "vtable"
  BY DEF Vtable, Current
<1>2. used \in SUBSET Class
  BY <1>1, HeadFits, LineageUp DEF Fit
<1>3. file \in File
  BY <1>1, CurrentFile DEF IInv, InTime
<1> HIDE DEF used
<1>4. {methodIn[c] : c \in used} \subseteq File \cup {NoFile}
  BY <1>2 DEF IInv, TypeOK
<1>5. /\ Across({methodIn[c] : c \in used}) \subseteq File \X File
      /\ \A r \in Across({methodIn[c] : c \in used}) : Touched(r)
  BY <1>1, <1>4, AcrossTouches
<1>6. /\ methodIn' = [c \in Class |-> IF c \in used /\ methodIn[c] = NoFile THEN file ELSE methodIn[c]]
      /\ refs' = refs \cup Across({methodIn[c] : c \in used})
  BY DEF Vtable, used
<1>7. todo' \in Seq(Task) /\ InTime'
  BY <1>1, <1>5, <1>6, PlainStep DEF Vtable
<1>8. methodIn' \in [Class -> File \cup {NoFile}]
  BY <1>3, <1>6 DEF IInv, TypeOK
<1>9. TypeOK' /\ IsFiniteSet(globals)'
  BY <1>5, <1>6, <1>7, <1>8 DEF IInv, TypeOK, Vtable, Continue, bodyVars
<1> QED BY <1>7, <1>9 DEF IInv

\* The module of the constructor that gets its body is still to be written.
LEMMA ConstructTouches ==
  ASSUME IInv, pc = "gen", todo # <<>>, Head(todo).op = "construct"
  PROVE  LET c == Head(todo).of IN
         /\ c \in Class
         /\ CtorModule(c) \in File
         /\ CtorUses(c) \subseteq File
         /\ \A f : Touched(<<CtorModule(c), f>>)
<1> DEFINE c == Head(todo).of
<1>1. /\ c \in Class
      /\ \E i \in DOMAIN project.order : i >= pos /\ sigIn[c] = project.order[i]
  BY HeadFits DEF Fit
<1>2. pos \in DOMAIN project.order /\ file = project.order[pos] /\ file \in File /\ pos \in Nat
  BY CurrentFile DEF IInv, InTime, TypeOK
<1> HIDE DEF c
<1>3. \E i \in DOMAIN project.order : i >= pos /\ CtorModule(c) = project.order[i]
  BY <1>1, <1>2 DEF CtorModule
<1>4. CtorModule(c) \in File
  BY <1>3, ProjectType DEF IInv
<1>5. \A f : Touched(<<CtorModule(c), f>>)
  BY <1>3 DEF Touched
<1>6. CtorUses(c) \subseteq File
  <2>1. CASE CallsDefault(c) /\ DefaultIn(project.super[c]) # NoFile
    <3>1. project.super[c] \in Class
      BY <1>1, <2>1, ProjectType DEF CallsDefault, IInv
    <3>2. DefaultIn(project.super[c]) \in File \cup {NoFile}
      BY <3>1 DEF DefaultIn, IInv, TypeOK
    <3> QED BY <1>2, <2>1, <3>2 DEF CtorUses
  <2>2. CASE ~ (CallsDefault(c) /\ DefaultIn(project.super[c]) # NoFile)
    BY <1>2, <2>2 DEF CtorUses
  <2> QED BY <2>1, <2>2
<1> QED BY <1>1, <1>4, <1>5, <1>6 DEF c

LEMMA ConstructKeeps ==
  ASSUME IInv, Construct
  PROVE  IInv'
<1> DEFINE c == Head(todo).of
           s == project.super[c]
           touched == {<<CtorModule(c), f>> : f \in CtorUses(c) \ {CtorModule(c)}}
<1>1. pc = "gen" /\ todo # <<>> /\ Head(todo).op = "construct" /\ Continue(<<>>)
      /\ UNCHANGED <<sigIn, emitIn, globals, methodIn, dropped, silent>> /\ point' = NoFile
  BY DEF Construct, Current
<1>2. /\ c \in Class /\ CtorModule(c) \in File /\ CtorUses(c) \subseteq File
      /\ \A f : Touched(<<CtorModule(c), f>>)
  BY <1>1, ConstructTouches
<1>3. file \in File
  BY <1>1, CurrentFile DEF IInv, InTime
<1>4. /\ ~ NoDefault(c)
      /\ ctorIn' = IF CallsDefault(c) /\ project.ctor[s] = "implicit" /\ ctorIn[s] = NoFile
                   THEN [ctorIn EXCEPT ![s] = file] ELSE ctorIn
      /\ refs' = refs \cup touched
      /\ calls' = calls \cup (IF CallsDefault(c) THEN {<<s, "constructor">>} ELSE {})
                        \cup (IF project.ctor[c] = "super" THEN {<<s, SuperNamed>>} ELSE {})
      /\ constructible' = constructible \cup {c}
      /\ infos' = [infos EXCEPT ![c].init = TRUE]
      /\ lastUnreachable' \in BOOLEAN
  BY DEF Construct
<1> HIDE DEF c
<1>5. touched \subseteq File \X File /\ \A r \in touched : Touched(r)
  BY <1>2
<1> HIDE DEF touched
<1>6. todo' \in Seq(Task) /\ InTime'
  BY <1>1, <1>4, <1>5, PlainStep
<1>7. project.super[c] # NoClass => s \in Class
  BY <1>2, ProjectType DEF IInv
<1>8. CallsDefault(c) => s \in Class
  BY <1>7 DEF CallsDefault
<1>9. project.ctor[c] = "super" => s \in Class
  BY <1>4, <1>7 DEF NoDefault
<1>10. ctorIn' \in [Class -> File \cup {NoFile}]
  BY <1>3, <1>4 DEF IInv, TypeOK
<1>11. calls' \subseteq Class \X {"constructor", "function"}
  BY <1>4, <1>8, <1>9 DEF IInv, TypeOK, SuperNamed
<1>12. infos' \in [Class -> Handle]
  BY <1>2, <1>4 DEF IInv, TypeOK, Handle
<1>13. refs' \subseteq File \X File /\ constructible' \subseteq Class
  BY <1>2, <1>4, <1>5 DEF IInv, TypeOK
<1>14. TypeOK' /\ IsFiniteSet(globals)'
  BY <1>1, <1>4, <1>6, <1>10, <1>11, <1>12, <1>13 DEF IInv, TypeOK, Continue
<1> QED BY <1>6, <1>14 DEF IInv

LEMMA BeginBodyKeeps ==
  ASSUME IInv, BeginBody
  PROVE  IInv'
<1>1. pc = "gen" /\ todo # <<>> /\ Head(todo).op = "begin" /\ Continue(<<>>)
      /\ UNCHANGED <<classVars, dropped, silent>>
  BY DEF BeginBody, Current
<1>2. todo' \in Seq(Task) /\ InTime'
  BY <1>1, PlainStep DEF classVars
<1>3. point' \in Body
  BY <1>1, HeadFits DEF BeginBody, Task
<1>4. TypeOK' /\ IsFiniteSet(globals)'
  BY <1>1, <1>2, <1>3 DEF IInv, TypeOK, BeginBody, Continue, classVars
<1> QED BY <1>2, <1>4 DEF IInv

\* A statement of a body that is in the code.
LEMMA StatementFits ==
  ASSUME IInv, pc = "gen", todo # <<>>, Head(todo).op \in {"stmt", "infos"}
  PROVE  /\ Head(todo).of \in Body /\ Head(todo).at \in Nat
         /\ statement \in Stmt
         /\ statement.op \in {"new", "throw", "catch"} => statement.of \in Class
         /\ Head(todo).op = "infos" => statement.of \in Class
<1> DEFINE b == Head(todo).of
           at == Head(todo).at
<1>1. b \in Body /\ at \in Nat /\ at \in DOMAIN project.body[b] /\ Fit(Head(todo))
  BY HeadFits DEF Fit, Task
<1>2. project.body[b] \in Seq(Stmt)
  BY <1>1, ProjectType DEF IInv
<1>3. statement = project.body[b][at]
  BY DEF statement
<1>4. Head(todo).op = "infos" => project.body[b][at].of \in Class
  BY <1>1 DEF Fit
<1> HIDE DEF b, at
<1>5. project.body[b][at] \in Stmt
  BY <1>1, <1>2, LenProperties, ElementOfSeq
<1>6. project.body[b][at].op \in {"new", "throw", "catch"} => project.body[b][at].of \in Class
  BY <1>5 DEF Stmt
<1> QED BY <1>1, <1>3, <1>4, <1>5, <1>6 DEF b, at

LEMMA SkippedKeeps ==
  ASSUME IInv, Skipped
  PROVE  IInv'
<1>1. pc = "gen" /\ todo # <<>> /\ Head(todo).op = "stmt" /\ Continue(<<>>)
      /\ UNCHANGED <<classVars, point, lastUnreachable, silent>>
      /\ dropped' = dropped \cup {<<Head(todo).of, Head(todo).at>>}
  BY DEF Skipped, Current
<1>2. todo' \in Seq(Task) /\ InTime'
  BY <1>1, PlainStep DEF classVars
<1>3. Head(todo).of \in Body /\ Head(todo).at \in Nat
  BY <1>1, StatementFits
<1>4. dropped' \subseteq Body \X Nat
  BY <1>1, <1>3 DEF IInv, TypeOK
<1>5. TypeOK' /\ IsFiniteSet(globals)'
  BY <1>1, <1>2, <1>4 DEF IInv, TypeOK, Continue, classVars
<1> QED BY <1>2, <1>5 DEF IInv

LEMMA ReturnKeeps ==
  ASSUME IInv, Return
  PROVE  IInv'
<1>1. pc = "gen" /\ todo # <<>> /\ Head(todo).op = "stmt" /\ Continue(<<>>)
      /\ UNCHANGED <<classVars, point, dropped, silent>> /\ lastUnreachable' = TRUE
  BY DEF Return, Statement, Current
<1>2. todo' \in Seq(Task) /\ InTime'
  BY <1>1, PlainStep DEF classVars
<1>3. TypeOK' /\ IsFiniteSet(globals)'
  BY <1>1, <1>2 DEF IInv, TypeOK, Continue, classVars
<1> QED BY <1>2, <1>3 DEF IInv

LEMMA NewKeeps ==
  ASSUME IInv, New
  PROVE  IInv'
<1>1. pc = "gen" /\ todo # <<>> /\ Head(todo).op = "stmt" /\ Continue(<<>>)
      /\ statement.op = "new"
      /\ UNCHANGED <<sigIn, emitIn, constructible, infos, globals, methodIn, ctorIn, refs,
                     point, lastUnreachable, dropped>>
  BY DEF New, Statement, Current
<1>2. todo' \in Seq(Task) /\ InTime'
  BY <1>1, PlainStep
<1>3. Head(todo).of \in Body /\ Head(todo).at \in Nat /\ statement.of \in Class
  BY <1>1, StatementFits
<1>4. calls' \subseteq Class \X {"constructor", "function"} /\ silent' \subseteq Body \X Nat
  BY <1>3 DEF IInv, TypeOK, New
<1>5. TypeOK' /\ IsFiniteSet(globals)'
  BY <1>1, <1>2, <1>4 DEF IInv, TypeOK, Continue
<1> QED BY <1>2, <1>5 DEF IInv

\* The class of a throw or a catch is generated, then its infos are asked for.
LEMMA HandledFits ==
  ASSUME IInv, pc = "gen", todo # <<>>, Head(todo).op = "stmt",
         statement.op \in {"throw", "catch"}
  PROVE  LET tasks == <<Do("generate", statement.of, 0), [Head(todo) EXCEPT !.op = "infos"]>>
         IN tasks \in Seq(Task) /\ \A t \in Elements(tasks) : Fit(t)
<1> DEFINE asked == Do("generate", statement.of, 0)
           after == [Head(todo) EXCEPT !.op = "infos"]
<1>1. statement.of \in Class
  BY StatementFits
<1>2. asked \in Task /\ Fit(asked)
  BY <1>1, GenerateFits
<1>3. Head(todo) \in Task /\ Fit(Head(todo))
  BY HeadFits
<1>4. /\ after \in Task /\ after.op = "infos"
      /\ after.of = Head(todo).of /\ after.at = Head(todo).at
  BY <1>3 DEF Task
<1>5. Fit(after)
  BY <1>1, <1>3, <1>4 DEF Fit, statement
<1> HIDE DEF asked, after
<1>6. <<asked, after>> \in Seq(Task) /\ \A t \in Elements(<<asked, after>>) : Fit(t)
  BY <1>2, <1>4, <1>5 DEF Elements
<1> QED BY <1>6 DEF asked, after

LEMMA ThrowKeeps ==
  ASSUME IInv, Throw
  PROVE  IInv'
<1> DEFINE tasks == <<Do("generate", statement.of, 0), [Head(todo) EXCEPT !.op = "infos"]>>
<1>1. pc = "gen" /\ todo # <<>> /\ Head(todo).op = "stmt" /\ Continue(tasks)
      /\ statement.op = "throw" /\ lastUnreachable' = TRUE
      /\ UNCHANGED <<classVars, point, dropped, silent>>
  BY DEF Throw, Statement, Current
<1>2. tasks \in Seq(Task) /\ \A t \in Elements(tasks) : Fit(t)
  BY <1>1, HandledFits
<1> HIDE DEF tasks
<1>3. todo' \in Seq(Task) /\ InTime'
  BY <1>1, <1>2, QuietStep DEF classVars
<1>4. TypeOK' /\ IsFiniteSet(globals)'
  BY <1>1, <1>3 DEF IInv, TypeOK, Continue, classVars
<1> QED BY <1>3, <1>4 DEF IInv

LEMMA CatchKeeps ==
  ASSUME IInv, Catch
  PROVE  IInv'
<1> DEFINE tasks == <<Do("generate", statement.of, 0), [Head(todo) EXCEPT !.op = "infos"]>>
<1>1. pc = "gen" /\ todo # <<>> /\ Head(todo).op = "stmt" /\ Continue(tasks)
      /\ statement.op = "catch" /\ lastUnreachable' = FALSE
      /\ UNCHANGED <<classVars, point, dropped, silent>>
  BY DEF Catch, Statement, Current
<1>2. tasks \in Seq(Task) /\ \A t \in Elements(tasks) : Fit(t)
  BY <1>1, HandledFits
<1> HIDE DEF tasks
<1>3. todo' \in Seq(Task) /\ InTime'
  BY <1>1, <1>2, QuietStep DEF classVars
<1>4. TypeOK' /\ IsFiniteSet(globals)'
  BY <1>1, <1>3 DEF IInv, TypeOK, Continue, classVars
<1> QED BY <1>3, <1>4 DEF IInv

LEMMA UseInfosKeeps ==
  ASSUME IInv, UseInfos
  PROVE  IInv'
<1> DEFINE used == {statement.of}
<1>1. pc = "gen" /\ todo # <<>> /\ Head(todo).op = "infos" /\ Continue(<<>>)
      /\ UNCHANGED <<sigIn, emitIn, constructible, methodIn, ctorIn, calls,
                     lastUnreachable, dropped, silent>>
      /\ infos' = InfosAfter(used) /\ globals' = DeclarationsAfter(used)
      /\ refs' = refs \cup InfosRefs(used)
  BY DEF UseInfos, Current
<1>2. used \in SUBSET Class /\ Head(todo).of \in Body
  BY <1>1, StatementFits
<1> HIDE DEF used
<1>3. file \in File
  BY <1>1, CurrentFile DEF IInv, InTime
<1>4. InfosRefs(used) \subseteq File \X File /\ \A r \in InfosRefs(used) : Touched(r)
  BY <1>1, <1>2, InfosTouch
<1>5. todo' \in Seq(Task) /\ InTime'
  BY <1>1, <1>4, PlainStep
<1>6. IsFiniteSet(globals') /\ globals' \subseteq Global /\ infos' \in [Class -> Handle]
  BY <1>1, <1>2, <1>3, Declarations, InfosType DEF IInv, TypeOK
<1>7. point' \in Body \cup {NoFile}
  BY <1>2 DEF UseInfos, IInv, TypeOK
<1>8. TypeOK'
  BY <1>1, <1>4, <1>5, <1>6, <1>7 DEF IInv, TypeOK, Continue
<1> QED BY <1>5, <1>6, <1>8 DEF IInv

LEMMA EndBodyKeeps ==
  ASSUME IInv, EndBody
  PROVE  IInv'
<1>1. pc = "gen" /\ todo # <<>> /\ Head(todo).op = "end" /\ Continue(<<>>)
      /\ UNCHANGED <<classVars, bodyVars>>
  BY DEF EndBody, Current
<1>2. todo' \in Seq(Task) /\ InTime'
  BY <1>1, PlainStep DEF classVars
<1>3. TypeOK' /\ IsFiniteSet(globals)'
  BY <1>1, <1>2 DEF IInv, TypeOK, Continue, classVars, bodyVars
<1> QED BY <1>2, <1>3 DEF IInv

(***************************************************************************)
(* Class::generate emits.  A class not emitted yet was signed in a file    *)
(* whose turn is not over, so its constructor goes there in time.          *)
(***************************************************************************)
LEMMA SignedInTime ==
  ASSUME IInv, pc = "gen", NEW c \in Class, ~ Emitted(c)
  PROVE  \E i \in DOMAIN project.order : i >= pos /\ sigIn[c] = project.order[i]
<1>1. PICK f \in Elements(project.order) : c \in Elements(project.types[f])
  BY DEF IInv, TypeOK, Project
<1>2. PICK j \in DOMAIN project.order : f = project.order[j]
  BY <1>1 DEF Elements
<1>3. sigIn[c] # NoFile
  BY <1>1, <1>2 DEF IInv, InTime, Signatures, TypesOf
<1>4. PICK i \in DOMAIN project.order : SignedAt(c, i)
  BY <1>3 DEF IInv, InTime, Signatures
<1>5. ~ (i < pos)
  BY <1>4 DEF IInv, InTime, InTheirTurn
<1>6. i \in Nat /\ pos \in Nat
  BY ProjectType DEF IInv, TypeOK
<1> QED BY <1>4, <1>5, <1>6 DEF SignedAt

LEMMA SuperclassFits ==
  ASSUME IInv, NEW c \in Class
  PROVE  /\ Superclass(c) \in Seq(Task)
         /\ \A t \in Elements(Superclass(c)) : Fit(t)
         /\ project.super[c] # NoClass =>
              \E t \in Elements(Superclass(c)) : t.op = "generate" /\ t.of = project.super[c]
<1>1. CASE project.super[c] = NoClass
  BY <1>1, None DEF Superclass
<1>2. CASE project.super[c] # NoClass
  <2> DEFINE task == Do("generate", project.super[c], 0)
  <2>1. project.super[c] \in Class
    BY <1>2, ProjectType DEF IInv
  <2>2. task \in Task /\ Fit(task) /\ task.op = "generate" /\ task.of = project.super[c]
    BY <2>1, GenerateFits
  <2>3. Superclass(c) = <<task>>
    BY <1>2 DEF Superclass
  <2> HIDE DEF task
  <2>4. Superclass(c) \in Seq(Task) /\ Elements(Superclass(c)) = {task}
    BY <2>2, <2>3, Single
  <2> QED BY <2>2, <2>4
<1> QED BY <1>1, <1>2

LEMMA ClassTasksFit ==
  ASSUME IInv, pc = "gen", NEW c \in Class, ~ Emitted(c)
  PROVE  LET tasks == Superclass(c) \o <<Do("typeInfo", c, 0), Do("vtable", c, 0)>>
                        \o BodyTasks(c) \o <<Do("construct", c, 0)>>
         IN /\ tasks \in Seq(Task)
            /\ \A t \in Elements(tasks) : Fit(t)
            /\ project.super[c] # NoClass =>
                 \E t \in Elements(tasks) : t.op = "generate" /\ t.of = project.super[c]
<1> DEFINE two == <<Do("typeInfo", c, 0), Do("vtable", c, 0)>>
           last == <<Do("construct", c, 0)>>
           start == Superclass(c) \o two
           middle == start \o BodyTasks(c)
           tasks == Superclass(c) \o two \o BodyTasks(c) \o last
<1>1. tasks = middle \o last
  OBVIOUS
<1>2. two \in Seq(Task) /\ \A t \in Elements(two) : Fit(t)
  <2>1. /\ Do("typeInfo", c, 0) \in Task /\ Fit(Do("typeInfo", c, 0))
        /\ Do("vtable", c, 0) \in Task /\ Fit(Do("vtable", c, 0))
    BY DEF Do, Task, Fit, Body
  <2> QED BY <2>1 DEF Elements
<1>3. last \in Seq(Task) /\ \A t \in Elements(last) : Fit(t)
  <2>1. Do("construct", c, 0) \in Task
    BY DEF Do, Task, Body
  <2>2. Fit(Do("construct", c, 0))
    BY SignedInTime DEF Fit, Do
  <2> QED BY <2>1, <2>2, Single
<1>4. BodyTasks(c) \in Seq(Task) /\ \A t \in Elements(BodyTasks(c)) : Fit(t)
  BY BodyTasksFit DEF IInv, Body
<1> HIDE DEF two, last, tasks
<1>5. start \in Seq(Task) /\ Elements(start) = Elements(Superclass(c)) \cup Elements(two)
  BY <1>2, SuperclassFits, ElementsConcat
<1> HIDE DEF start
<1>6. middle \in Seq(Task) /\ Elements(middle) = Elements(start) \cup Elements(BodyTasks(c))
  BY <1>4, <1>5, ElementsConcat
<1> HIDE DEF middle
<1>7. tasks \in Seq(Task) /\ Elements(tasks) = Elements(middle) \cup Elements(last)
  BY <1>1, <1>3, <1>6, ElementsConcat
<1>8. /\ \A t \in Elements(tasks) : Fit(t)
      /\ project.super[c] # NoClass =>
           \E t \in Elements(tasks) : t.op = "generate" /\ t.of = project.super[c]
  BY <1>2, <1>3, <1>4, <1>5, <1>6, <1>7, SuperclassFits
<1> QED BY <1>7, <1>8 DEF tasks, two, last

LEMMA GenerateClassKeeps ==
  ASSUME IInv, GenerateClass
  PROVE  IInv'
<1> DEFINE c == Head(todo).of
           tasks == Superclass(c) \o <<Do("typeInfo", c, 0), Do("vtable", c, 0)>>
                      \o BodyTasks(c) \o <<Do("construct", c, 0)>>
<1>1. /\ pc = "gen" /\ todo # <<>> /\ Head(todo).op = "generate"
      /\ ~ Emitted(c) /\ emitIn' = [emitIn EXCEPT ![c] = file] /\ Continue(tasks)
      /\ UNCHANGED <<sigIn, constructible, infos, globals, methodIn, ctorIn, refs, calls, bodyVars>>
  BY DEF GenerateClass, Current, Emitted
<1>2. c \in Class
  BY <1>1, HeadFits DEF Fit
<1>3. file \in File /\ file # NoFile
  BY <1>1, CurrentFile, NamesAssumption DEF IInv, InTime, Body
<1>4. emitIn' \in [Class -> File \cup {NoFile}]
  BY <1>1, <1>3 DEF IInv, TypeOK
<1>5. \A d \in Class : emitIn'[d] # NoFile <=> d = c \/ Emitted(d)
  BY <1>1, <1>2, <1>3 DEF IInv, TypeOK, Emitted
<1>6. /\ tasks \in Seq(Task) /\ \A t \in Elements(tasks) : Fit(t)
      /\ project.super[c] # NoClass =>
           \E t \in Elements(tasks) : t.op = "generate" /\ t.of = project.super[c]
  BY <1>1, <1>2, ClassTasksFit
<1>7. Head(todo).of = c
  OBVIOUS
<1> HIDE DEF tasks, c
<1>8. todo' = tasks \o Tail(todo) /\ UNCHANGED <<project, pc, pos, sigIn>>
  BY <1>1 DEF Continue
<1>9. todo' \in Seq(Task) /\ InTime'
  BY <1>1, <1>2, <1>5, <1>6, <1>7, <1>8, TurnStep
<1>10. TypeOK' /\ IsFiniteSet(globals)'
  BY <1>1, <1>4, <1>8, <1>9 DEF IInv, TypeOK, bodyVars
<1> QED BY <1>9, <1>10 DEF IInv

-----------------------------------------------------------------------------
(***************************************************************************)
(* The steps between the turns, and the ends.                              *)
(***************************************************************************)
LEMMA EndKeeps ==
  ASSUME IInv, pc = "gen" \/ (pc = "sigs" /\ pos <= Len(project.order)),
         NEW how \in {"refused", "error", "crashed"}, End(how)
  PROVE  IInv'
<1>1. pc' = how /\ UNCHANGED <<project, pos, todo, classVars, bodyVars>>
  BY DEF End
<1>2. TypeOK' /\ IsFiniteSet(globals)'
  BY <1>1 DEF IInv, TypeOK, classVars, bodyVars, Ended
<1>3. /\ \A t : Fit(t)' = Fit(t)
      /\ \A r : Touched(r)' = Touched(r)
      /\ \A c, i : SignedAt(c, i)' = SignedAt(c, i)
      /\ \A c : Awaited(c)' = Awaited(c)
  BY <1>1, SameProject DEF Fit, Touched, SignedAt, Awaited, classVars
<1>4. Positions' /\ StaleIsSeen'
  BY <1>1 DEF IInv, InTime, Positions, StaleIsSeen
<1>5. Signatures' /\ AncestorsToo'
  BY <1>1, <1>3, SameProject DEF IInv, InTime, Signatures, AncestorsToo, Emitted, classVars
<1>6. InTheirTurn'
  BY <1>1, <1>3 DEF IInv, InTime, InTheirTurn, Emitted, classVars
<1>7. TasksFit' /\ StillToWrite'
  BY <1>1, <1>3 DEF IInv, InTime, TasksFit, StillToWrite, classVars
<1> QED BY <1>2, <1>4, <1>5, <1>6, <1>7 DEF IInv, InTime

LEMMA FailuresKeep ==
  ASSUME IInv, ConstructFails \/ NotFound \/ EndBodyFails \/ WriteFails \/ SigsCrash
  PROVE  IInv'
<1>1. CASE ConstructFails
  BY <1>1, EndKeeps DEF ConstructFails, Current
<1>2. CASE NotFound
  <2>1. pc = "gen"
    BY <1>2 DEF NotFound, Statement, Current
  <2>2. End("error") \/ End("crashed")
    BY <1>2 DEF NotFound
  <2> QED BY <2>1, <2>2, EndKeeps
<1>3. CASE EndBodyFails
  <2>1. pc = "gen"
    BY <1>3 DEF EndBodyFails, Current
  <2>2. End("error") \/ End("refused")
    BY <1>3 DEF EndBodyFails
  <2> QED BY <2>1, <2>2, EndKeeps
<1>4. CASE WriteFails
  BY <1>4, EndKeeps DEF WriteFails
<1>5. CASE SigsCrash
  BY <1>5, EndKeeps DEF SigsCrash
<1> QED BY <1>1, <1>2, <1>3, <1>4, <1>5

\* A file's signatures: those of its classes and of all their ancestors.
LEMMA GenerateSigsKeeps ==
  ASSUME IInv, GenerateSigs
  PROVE  IInv'
<1>1. /\ pc = "sigs" /\ pos <= Len(project.order) /\ pos' = pos + 1
      /\ \A c \in Signed : c \notin Ancestors(c)
      /\ sigIn' = [c \in Class |-> IF c \in Signed /\ sigIn[c] = NoFile THEN file ELSE sigIn[c]]
      /\ UNCHANGED <<project, pc, todo, emitIn, constructible, infos, globals, methodIn, ctorIn,
                     refs, calls, bodyVars>>
  BY DEF GenerateSigs, RoundAndRound
<1>2. pos \in Nat \ {0} /\ pos \in DOMAIN project.order
      /\ file = project.order[pos] /\ file \in File /\ file # NoFile
  <2>1. pos \in Nat \ {0}
    BY DEF IInv, TypeOK
  <2>2. pos \in DOMAIN project.order
    BY <1>1, <2>1, ProjectType DEF IInv
  <2>3. file = project.order[pos] /\ file \in File
    BY <2>2, ProjectType DEF IInv, file
  <2> QED BY <2>1, <2>2, <2>3, NamesAssumption DEF Body
<1>3. sigIn' \in [Class -> File \cup {NoFile}]
  BY <1>1, <1>2 DEF IInv, TypeOK
<1>4. TypeOK' /\ IsFiniteSet(globals)'
  BY <1>1, <1>2, <1>3 DEF IInv, TypeOK, bodyVars
<1>5. todo = <<>> /\ refs = {} /\ \A c \in Class : emitIn[c] = NoFile
  BY <1>1 DEF IInv, InTime, Positions
<1>6. Positions'
  BY <1>1, <1>2, <1>5, ProjectType DEF IInv, Positions
<1>7. AncestorsToo' /\ InTheirTurn'
  BY <1>1, <1>5 DEF AncestorsToo, InTheirTurn, Emitted
<1>8. TasksFit' /\ StillToWrite' /\ StaleIsSeen'
  BY <1>1, <1>5, None DEF TasksFit, StillToWrite, StaleIsSeen
<1>9. \A c \in Class : c \in Signed <=> \E d \in TypesOf(pos) : c \in Lineage(d)
  BY <1>2 DEF Signed, TypesOf
<1>10. ASSUME NEW i \in DOMAIN project.order, i < pos + 1, NEW c \in TypesOf(i)
       PROVE  sigIn'[c] # NoFile /\ c \notin Ancestors(c)
  <2>1. c \in Class /\ i \in Nat
    BY ProjectType DEF IInv
  <2>2. CASE i < pos
    <3>1. sigIn[c] # NoFile /\ c \notin Ancestors(c)
      BY <1>1, <2>2 DEF IInv, InTime, Signatures
    <3> QED BY <1>1, <1>2, <2>1, <3>1
  <2>3. CASE i = pos
    <3>1. c \in Signed
      BY <1>9, <2>1, <2>3, LineageUp
    <3> QED BY <1>1, <1>2, <2>1, <3>1
  <2> QED BY <1>2, <1>10, <2>1, <2>2, <2>3
<1>11. ASSUME NEW c \in Class, sigIn'[c] # NoFile
       PROVE  \E i \in DOMAIN project.order :
                sigIn'[c] = project.order[i] /\ \E d \in TypesOf(i) : c \in Lineage(d)
  <2>1. CASE sigIn[c] # NoFile
    <3>1. PICK i \in DOMAIN project.order : SignedAt(c, i)
      BY <2>1 DEF IInv, InTime, Signatures
    <3>2. sigIn'[c] = sigIn[c]
      BY <1>1, <2>1
    <3> QED BY <3>1, <3>2 DEF SignedAt
  <2>2. CASE sigIn[c] = NoFile
    <3>1. sigIn'[c] = file /\ c \in Signed
      BY <1>1, <1>11, <2>2
    <3> QED BY <1>2, <1>9, <3>1
  <2> QED BY <2>1, <2>2
<1>12. \A c, i : SignedAt(c, i)' <=>
         sigIn'[c] = project.order[i] /\ \E d \in TypesOf(i) : c \in Lineage(d)
  BY <1>1, SameProject DEF SignedAt
<1>13. Signatures'
  <2>1. /\ \A i : TypesOf(i)' = TypesOf(i)
        /\ \A c : Ancestors(c)' = Ancestors(c)
    BY <1>1, SameProject
  <2>2. \A i \in DOMAIN project.order : i < pos' =>
          \A c \in TypesOf(i)' : sigIn'[c] # NoFile /\ c \notin Ancestors(c)'
    BY <1>1, <1>10, <2>1
  <2>3. \A c \in Class : sigIn'[c] # NoFile => \E i \in DOMAIN project.order : SignedAt(c, i)'
    BY <1>11, <1>12
  <2> QED BY <1>1, <2>2, <2>3 DEF Signatures
<1> QED BY <1>4, <1>6, <1>7, <1>8, <1>13 DEF IInv, InTime

\* A turn begins with a task for each type of the file.
LEMMA TurnBegins ==
  ASSUME TypeOK, NEW i \in DOMAIN project.order, project' = project,
         todo' = Turn(project.order[i])
  PROVE  /\ todo' \in Seq(Task) /\ TasksFit'
         /\ \A c : (\E d \in TypesOf(i) : c \in Lineage(d)) => Awaited(c)'
<1>1. project.order[i] \in File
  BY ProjectType
<1>2. /\ todo' \in Seq(Task) /\ \A t \in Elements(todo') : Fit(t) /\ t.op # "construct"
      /\ \A d \in TypesOf(i) : \E t \in Elements(todo') : t.op = "generate" /\ t.of = d
  BY <1>1, TurnFits DEF TypesOf
<1>3. \A t : t.op # "construct" => Fit(t)' = Fit(t)
  BY DEF Fit
<1>4. TasksFit'
  BY <1>2, <1>3 DEF TasksFit
<1>5. \A c : Awaited(c)' <=> \E t \in Elements(todo') : t.op = "generate" /\ c \in Lineage(t.of)
  BY SameProject DEF Awaited
<1> QED BY <1>2, <1>4, <1>5

LEMMA StartGenKeeps ==
  ASSUME IInv, StartGen
  PROVE  IInv'
<1>1. /\ pc = "sigs" /\ pos > Len(project.order) /\ pc' = "gen" /\ pos' = 1
      /\ todo' = Turn(project.order[1])
      /\ UNCHANGED <<project, classVars, bodyVars>>
  BY DEF StartGen
<1>2. 1 \in DOMAIN project.order /\ Len(project.order) \in Nat /\ pos \in Nat /\ 1 <= Len(project.order)
      /\ DOMAIN project.order = 1 .. Len(project.order)
  BY ProjectType DEF IInv, TypeOK
<1>3. /\ todo' \in Seq(Task) /\ TasksFit'
      /\ \A c : (\E d \in TypesOf(1) : c \in Lineage(d)) => Awaited(c)'
  BY <1>1, <1>2, TurnBegins DEF IInv
<1>4. TypeOK' /\ IsFiniteSet(globals)'
  BY <1>1, <1>3 DEF IInv, TypeOK, classVars, bodyVars
<1>5. refs = {} /\ \A c \in Class : emitIn[c] = NoFile
  BY <1>1 DEF IInv, InTime, Positions
<1>6. Positions' /\ AncestorsToo' /\ StillToWrite' /\ StaleIsSeen'
  BY <1>1, <1>2, <1>5 DEF Positions, AncestorsToo, Emitted, StillToWrite, StaleIsSeen, classVars
<1>7. \A c, i : SignedAt(c, i)' = SignedAt(c, i)
  BY <1>1, SameProject DEF SignedAt, classVars
<1>8. Signatures'
  <2>1. \A i \in DOMAIN project.order : i < pos
    BY <1>1, <1>2
  <2> QED BY <1>1, <1>7, <2>1, SameProject DEF IInv, InTime, Signatures, classVars
<1>9. InTheirTurn'
  <2>1. \A i \in DOMAIN project.order : ~ (i < 1)
    BY <1>2
  <2> QED BY <1>1, <1>3, <1>7, <2>1 DEF InTheirTurn, SignedAt
<1> QED BY <1>3, <1>4, <1>6, <1>8, <1>9 DEF IInv, InTime

(***************************************************************************)
(* Generator::write.  What it lets pass touches the current module in no   *)
(* reference, so each of them touches one that comes later.                *)
(***************************************************************************)
LEMMA WriteKeeps ==
  ASSUME IInv, Write
  PROVE  IInv'
<1> DEFINE own == Elements(project.types[file])
           last == pos = Len(project.order)
<1>1. /\ pc = "gen" /\ todo = <<>> /\ ~ Crossed
      /\ infos' = [c \in Class |-> IF c \in own THEN [infos[c] EXCEPT !.init = FALSE] ELSE infos[c]]
      /\ methodIn' = [c \in Class |-> IF c \in own THEN NoFile ELSE methodIn[c]]
      /\ UNCHANGED <<project, sigIn, emitIn, constructible, globals, ctorIn, refs, calls, bodyVars>>
      /\ \/ last /\ pc' = "done" /\ UNCHANGED <<pos, todo>>
         \/ ~ last /\ pos' = pos + 1 /\ todo' = Turn(project.order[pos + 1]) /\ UNCHANGED pc
  BY DEF Write
<1> HIDE DEF own
<1>2. /\ pos \in DOMAIN project.order /\ file = project.order[pos]
      /\ pos \in Nat \ {0} /\ Len(project.order) \in Nat /\ pos <= Len(project.order)
      /\ DOMAIN project.order = 1 .. Len(project.order)
  BY <1>1, CurrentFile, ProjectType, SMTT(30) DEF IInv, InTime, TypeOK
<1>3. /\ infos' \in [Class -> Handle] /\ methodIn' \in [Class -> File \cup {NoFile}]
  BY <1>1 DEF IInv, TypeOK, Handle
<1>4. ASSUME NEW r \in refs PROVE \E i \in DOMAIN project.order : i >= pos + 1 /\ project.order[i] \in {r[1], r[2]}
  <2>1. PICK i \in DOMAIN project.order : i >= pos /\ project.order[i] \in {r[1], r[2]}
    BY <1>1 DEF IInv, InTime, StillToWrite, Touched
  <2>2. i # pos
    BY <1>1, <1>2, <2>1 DEF Crossed
  <2> QED BY <1>2, <2>1, <2>2
<1>5. /\ \A c : ~ Awaited(c)
      /\ \A c \in Class : Emitted(c) /\ project.super[c] # NoClass => Emitted(project.super[c])
  BY <1>1, None DEF Awaited, IInv, InTime, AncestorsToo
<1>6. \A c \in Class : \A i \in DOMAIN project.order : SignedAt(c, i) /\ i < pos + 1 => Emitted(c)
  <2>1. \A i \in DOMAIN project.order : i < pos + 1 => i < pos \/ i = pos
    BY <1>2
  <2> QED BY <1>1, <1>5, <2>1 DEF IInv, InTime, InTheirTurn
<1>7. /\ \A c, i : SignedAt(c, i)' = SignedAt(c, i)
      /\ \A c : Emitted(c)' = Emitted(c)
  BY <1>1, SameProject DEF SignedAt, Emitted
<1>8. Signatures'
  BY <1>1, <1>7, SameProject DEF IInv, InTime, Signatures
<1>9. AncestorsToo'
  BY <1>1, <1>5 DEF AncestorsToo, Emitted
<1>10. CASE last /\ pc' = "done" /\ UNCHANGED <<pos, todo>>
  <2>1. TypeOK' /\ IsFiniteSet(globals)'
    BY <1>1, <1>3, <1>10 DEF IInv, TypeOK, Ended, bodyVars
  <2>2. refs = {}
    BY <1>2, <1>4, <1>10
  <2>3. Positions' /\ StillToWrite' /\ StaleIsSeen' /\ TasksFit'
    BY <1>1, <1>2, <1>10, <2>2, None DEF Positions, StillToWrite, StaleIsSeen, TasksFit
  <2>4. InTheirTurn'
    <3>1. \A i \in DOMAIN project.order : (i < pos => i < pos + 1) /\ (i = pos => i < pos + 1)
      BY <1>2
    <3> QED BY <1>1, <1>6, <1>7, <1>10, <3>1 DEF InTheirTurn
  <2> QED BY <1>8, <1>9, <2>1, <2>3, <2>4 DEF IInv, InTime
<1>11. CASE ~ last /\ pos' = pos + 1 /\ todo' = Turn(project.order[pos + 1]) /\ UNCHANGED pc
  <2>0. pos + 1 \in DOMAIN project.order
    BY <1>2, <1>11
  <2>1. /\ todo' \in Seq(Task) /\ TasksFit'
        /\ \A c : (\E d \in TypesOf(pos + 1) : c \in Lineage(d)) => Awaited(c)'
    BY <1>1, <1>11, <2>0, TurnBegins DEF IInv
  <2>2. TypeOK' /\ IsFiniteSet(globals)'
    BY <1>1, <1>2, <1>3, <1>11, <2>1 DEF IInv, TypeOK, bodyVars
  <2>3. Positions' /\ StillToWrite' /\ StaleIsSeen'
    BY <1>1, <1>2, <1>4, <1>11, <2>0 DEF Positions, StillToWrite, Touched, StaleIsSeen
  <2>4. InTheirTurn'
    BY <1>1, <1>6, <1>7, <1>11, <2>1 DEF InTheirTurn, SignedAt
  <2> QED BY <1>8, <1>9, <2>1, <2>2, <2>3, <2>4 DEF IInv, InTime
<1> QED BY <1>1, <1>10, <1>11

-----------------------------------------------------------------------------
LEMMA InitKeeps ==
  ASSUME Init
  PROVE  IInv
<1>1. project \in Project
  BY ProjectsAssumption DEF Init
<1>2. TypeOK
  <2>1. <<>> \in Seq(Task)
    BY None
  <2>2. infos \in [Class -> Handle]
    BY DEF Init, Handle
  <2>3. /\ sigIn \in [Class -> File \cup {NoFile}] /\ emitIn \in [Class -> File \cup {NoFile}]
        /\ methodIn \in [Class -> File \cup {NoFile}] /\ ctorIn \in [Class -> File \cup {NoFile}]
    BY DEF Init
  <2>4. /\ constructible \subseteq Class /\ globals \subseteq Global /\ refs \subseteq File \X File
        /\ calls \subseteq Class \X {"constructor", "function"}
        /\ dropped \subseteq Body \X Nat /\ silent \subseteq Body \X Nat
    BY DEF Init
  <2>5. /\ pc \in {"sigs", "gen"} \cup Ended /\ pos \in Nat \ {0} /\ todo \in Seq(Task)
        /\ point \in Body \cup {NoFile}
    BY <2>1 DEF Init
  <2>6. lastUnreachable \in BOOLEAN
    BY DEF Init
  <2> QED BY <1>1, <2>1, <2>2, <2>3, <2>4, <2>5, <2>6 DEF TypeOK
<1>3. Len(project.order) \in Nat \ {0}
  BY <1>2, ProjectType
<1>4. IsFiniteSet(globals)
  BY FS_EmptySet DEF Init
<1>5. Elements(todo) = {}
  BY None DEF Init
<1>6. Positions /\ AncestorsToo /\ InTheirTurn /\ TasksFit /\ StillToWrite /\ StaleIsSeen
  BY <1>3, <1>5 DEF Init, Positions, AncestorsToo, Emitted, InTheirTurn, TasksFit, StillToWrite,
                    StaleIsSeen
<1>7. Signatures
  <2>1. \A i \in DOMAIN project.order : ~ (i < pos)
    BY <1>2, ProjectType DEF Init
  <2> QED BY <2>1 DEF Init, Signatures
<1> QED BY <1>2, <1>4, <1>6, <1>7 DEF IInv, InTime

LEMMA StutterKeeps ==
  ASSUME IInv, UNCHANGED vars
  PROVE  IInv'
<1>1. UNCHANGED <<project, pc, pos, todo, sigIn, emitIn, constructible, infos, globals, methodIn,
                  ctorIn, refs, calls, point, lastUnreachable, dropped, silent>>
  BY DEF vars, classVars, bodyVars
<1>2. /\ \A t : Fit(t)' = Fit(t)
      /\ \A r : Touched(r)' = Touched(r)
      /\ \A c, i : SignedAt(c, i)' = SignedAt(c, i)
      /\ \A c : Awaited(c)' = Awaited(c)
  BY <1>1, SameProject DEF Fit, Touched, SignedAt, Awaited
<1>3. TypeOK' /\ IsFiniteSet(globals)'
  BY <1>1 DEF IInv, TypeOK
<1>4. Positions' /\ StaleIsSeen' /\ TasksFit' /\ StillToWrite'
  BY <1>1, <1>2 DEF IInv, InTime, Positions, StaleIsSeen, TasksFit, StillToWrite
<1>5. Signatures' /\ AncestorsToo' /\ InTheirTurn'
  BY <1>1, <1>2, SameProject DEF IInv, InTime, Signatures, AncestorsToo, Emitted, InTheirTurn
<1> QED BY <1>3, <1>4, <1>5 DEF IInv, InTime

LEMMA NextKeeps ==
  ASSUME IInv, [Next]_vars
  PROVE  IInv'
<1>1. CASE UNCHANGED vars \/ Finished
  BY <1>1, StutterKeeps DEF Finished
<1>2. CASE GenerateSigs \/ StartGen \/ Write
  BY <1>2, GenerateSigsKeeps, StartGenKeeps, WriteKeeps
<1>3. CASE GenerateAgain \/ GenerateClass \/ TypeInfo \/ Vtable \/ Construct
  BY <1>3, GenerateAgainKeeps, GenerateClassKeeps, TypeInfoKeeps, VtableKeeps, ConstructKeeps
<1>4. CASE BeginBody \/ Skipped \/ Return \/ New \/ Throw \/ Catch \/ UseInfos \/ EndBody
  BY <1>4, BeginBodyKeeps, SkippedKeeps, ReturnKeeps, NewKeeps, ThrowKeeps, CatchKeeps,
     UseInfosKeeps, EndBodyKeeps
<1>5. CASE ConstructFails \/ NotFound \/ EndBodyFails \/ WriteFails \/ SigsCrash
  BY <1>5, FailuresKeep
<1> QED BY <1>1, <1>2, <1>3, <1>4, <1>5 DEF Next

THEOREM Invariant == Spec => []IInv
BY InitKeeps, NextKeeps, PTL DEF Spec

(***************************************************************************)
(* Every variable of the emission keeps its type: among others, no task is *)
(* ever made for a superclass that does not exist.                         *)
(***************************************************************************)
THEOREM TypeCorrect == Spec => []TypeOK
<1>1. IInv => TypeOK
  BY DEF IInv
<1> QED BY <1>1, Invariant, PTL

(***************************************************************************)
(* Whatever the project, in whatever order its files are compiled: what    *)
(* Generator::write lets pass has no reference from one module to another. *)
(***************************************************************************)
THEOREM StaleSeen == Spec => []StaleIsSeen
<1>1. IInv => StaleIsSeen
  BY DEF IInv, InTime
<1> QED BY <1>1, Invariant, PTL
=============================================================================
