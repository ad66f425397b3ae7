-------------------------- MODULE TypeOrderProofs ---------------------------
(***************************************************************************)
(* What TypeEmission keeps for every ordered project: CompleteIfOrdered,   *)
(* SilentByRule and LinkedByRule.  Class::generate can run in the middle   *)
(* of the body of another class or function and leave lastUnreachable and  *)
(* the set of finished constructors in any state.  In an ordered project   *)
(* it never does: whatever a body asks for was generated before.           *)
(***************************************************************************)
EXTENDS TypeEmissionProofs

(***************************************************************************)
(* The inductive invariant.  A task to generate a class that is emitted    *)
(* does nothing.  The others stand in the order of the text: the parts of  *)
(* one class first, then the classes still to come by their rank, then the *)
(* function of the file, each body from its beginning to its end.          *)
(***************************************************************************)
Idle(t) == t.op = "generate" /\ Emitted(t.of)

Stage(t) ==
  CASE t.op = "generate" -> 0
    [] t.op = "typeInfo" -> 1
    [] t.op = "vtable" -> 2
    [] t.op = "begin" -> 3
    [] t.op \in {"stmt", "infos"} -> 3 + t.at
    [] t.op = "end" -> 4 + Len(project.body[t.of])
    [] t.op = "construct" -> 5 + Len(project.body[t.of])

Leads(t, u) ==
  \/ Idle(t) \/ Idle(u)
  \/ /\ u.op = "generate" => t.of \in Class /\ Rank(t.of) < Rank(u.of)
     /\ u.op # "generate" /\ u.of \in Class => t.op # "generate" /\ t.of = u.of
     /\ u.op # "generate" /\ t.op # "generate" /\ t.of = u.of => Stage(t) < Stage(u)

InLine == \A i, j \in DOMAIN todo : i < j => Leads(todo[i], todo[j])

Here(b) == b = file \/ (b \in Class /\ Home(b) = file)
OfTheTurn == \A t \in Elements(todo) : ~ Idle(t) => Here(t.of)

\* The classes are emitted in the order they are declared in.
Waits(op, b) == Do(op, b, 0) \in Elements(todo)
EmittedInTurn ==
  \A c \in Class :
    /\ Place(Home(c)) < pos => Emitted(c)
    /\ Emitted(c) => Place(Home(c)) <= pos
    /\ Home(c) = file => Emitted(c) \/ Waits("generate", c)
InOrder ==
  \A t \in Elements(todo) : \A d \in Class :
    ~ Idle(t) /\ t.of \in Class /\ Emitted(d) /\ Home(d) = file => Rank(d) <= Rank(t.of)

\* An emitted class has its constructor unless it is the one in progress.
Constructed ==
  \A c \in Class :
    /\ Emitted(c) => c \in constructible \/ Waits("construct", c)
    /\ c \in constructible => Emitted(c)
    /\ \A t \in Elements(todo) :
         t.op # "generate" /\ t.of = c => Emitted(c) /\ c \notin constructible /\ Waits("construct", c)

\* While the flag is set, every body with statements left is still to begin.
FlagOfEnded == lastUnreachable => \A t \in Elements(todo) : t.op = "stmt" => Waits("begin", t.of)
FileLast == \A t \in Elements(todo) : ~ Idle(t) /\ t.of \in Class => Waits("begin", file)

\* The `new` of a class that has no constructor by then, those done and those to come
IsEarly(b, i) ==
  /\ b \in Body /\ i \in DOMAIN project.body[b] /\ project.body[b][i].op = "new"
  /\ TooEarly(b, project.body[b][i].of)
Pending(b, i) ==
  \/ Do("stmt", b, i) \in Elements(todo)
  \/ b \in Class /\ ~ Emitted(b)
  \/ b \in File /\ Place(b) > pos
EarlyCounted == \A b \in Body : \A i \in Nat : IsEarly(b, i) => Pending(b, i) \/ <<b, i>> \in silent
OnlyEarly == \A at \in silent : IsEarly(at[1], at[2]) /\ at = <<at[1], at[2]>>

Line == InLine /\ OfTheTurn /\ EmittedInTurn /\ InOrder
Progress == Constructed /\ FlagOfEnded /\ FileLast /\ EarlyCounted

InTextOrder ==
  /\ dropped = {} /\ OnlyEarly
  /\ pc \in {"gen", "done"} => Line /\ Progress
  /\ pc = "done" => todo = <<>> /\ pos = Len(project.order)
  /\ pc = "sigs" => constructible = {}

OInv == IInv /\ (Ordered => InTextOrder)

-----------------------------------------------------------------------------
(***************************************************************************)
(* Places in the text.                                                     *)
(***************************************************************************)
LEMMA Where ==
  ASSUME TypeOK, DeclaredOnce
  PROVE  /\ \A f \in File : Place(f) \in DOMAIN project.order /\ project.order[Place(f)] = f
         /\ \A i \in DOMAIN project.order : Place(project.order[i]) = i
         /\ \A c \in Class : Home(c) \in File
         /\ \A c \in Class : /\ Rank(c) \in DOMAIN project.types[Home(c)]
                             /\ project.types[Home(c)][Rank(c)] = c
         /\ \A f \in File : \A i \in DOMAIN project.types[f] :
              project.types[f][i] \in Class /\ Home(project.types[f][i]) = f /\ Rank(project.types[f][i]) = i
<1>1. \A f \in File : Place(f) \in DOMAIN project.order /\ project.order[Place(f)] = f
  <2> SUFFICES ASSUME NEW f \in File PROVE Place(f) \in DOMAIN project.order /\ project.order[Place(f)] = f
    OBVIOUS
  <2>1. \E i \in DOMAIN project.order : project.order[i] = f
    BY DEF DeclaredOnce, Elements
  <2> QED BY <2>1 DEF Place
<1>2. \A i \in DOMAIN project.order : project.order[i] \in File
  BY ProjectType
<1>3. \A i \in DOMAIN project.order : Place(project.order[i]) = i
  BY <1>1, <1>2 DEF DeclaredOnce
<1>4. ASSUME NEW c \in Class
      PROVE  /\ Home(c) \in File /\ Rank(c) \in DOMAIN project.types[Home(c)]
             /\ project.types[Home(c)][Rank(c)] = c
  <2>1. \E f \in Elements(project.order) : c \in Elements(project.types[f])
    BY DEF TypeOK, Project
  <2>2. Home(c) \in File /\ c \in Elements(project.types[Home(c)])
    BY <2>1 DEF DeclaredOnce, Home
  <2>3. \E i \in DOMAIN project.types[Home(c)] : project.types[Home(c)][i] = c
    BY <2>2 DEF Elements
  <2>4. Rank(c) \in DOMAIN project.types[Home(c)] /\ project.types[Home(c)][Rank(c)] = c
    BY <2>3 DEF Rank
  <2> QED BY <2>2, <2>4
<1>5. ASSUME NEW f \in File, NEW i \in DOMAIN project.types[f]
      PROVE  project.types[f][i] \in Class /\ Home(project.types[f][i]) = f /\ Rank(project.types[f][i]) = i
  <2>1. project.types[f] \in Seq(Class)
    BY ProjectType
  <2>2. project.types[f][i] \in Class
    BY <2>1, ElementOfSeq, LenProperties
  <2> QED BY <1>4, <2>2 DEF DeclaredOnce
<1> QED BY <1>1, <1>3, <1>4, <1>5

LEMMA Numbers ==
  ASSUME TypeOK, DeclaredOnce
  PROVE  /\ \A f \in File : Place(f) \in Nat /\ Place(f) <= Len(project.order)
         /\ \A f, g \in File : Place(f) = Place(g) => f = g
         /\ \A c \in Class : Rank(c) \in Nat
         /\ \A c, d \in Class : Home(c) = Home(d) /\ Rank(c) = Rank(d) => c = d
         /\ \A b \in Body : Len(project.body[b]) \in Nat /\ DOMAIN project.body[b] = 1 .. Len(project.body[b])
<1>1. DOMAIN project.order = 1 .. Len(project.order) /\ Len(project.order) \in Nat
  BY ProjectType
<1>2. \A f \in File : Place(f) \in Nat /\ Place(f) <= Len(project.order)
  BY <1>1, Where
<1>3. \A f, g \in File : Place(f) = Place(g) => f = g
  BY Where
<1>4. ASSUME NEW c \in Class PROVE Rank(c) \in Nat
  <2>1. project.types[Home(c)] \in Seq(Class)
    BY Where, ProjectType
  <2>2. DOMAIN project.types[Home(c)] \subseteq Nat
    BY <2>1, LenProperties
  <2> QED BY <2>2, Where
<1>5. \A c, d \in Class : Home(c) = Home(d) /\ Rank(c) = Rank(d) => c = d
  BY Where
<1>6. ASSUME NEW b \in Body PROVE Len(project.body[b]) \in Nat /\ DOMAIN project.body[b] = 1 .. Len(project.body[b])
  <2>1. project.body[b] \in Seq(Stmt)
    BY ProjectType
  <2> QED BY <2>1, LenProperties
<1> QED BY <1>2, <1>3, <1>4, <1>5, <1>6

\* A class is of the current file exactly if its file stands at the position.
LEMMA HereIsPos ==
  ASSUME TypeOK, Positions, DeclaredOnce, pc = "gen"
  PROVE  /\ file \in File /\ Place(file) = pos /\ pos \in Nat
         /\ \A c \in Class : Home(c) = file <=> Place(Home(c)) = pos
<1>1. pos \in DOMAIN project.order /\ file = project.order[pos] /\ file \in File
  BY CurrentFile
<1>2. Place(file) = pos
  BY <1>1, Where
<1> QED BY <1>1, <1>2, Where, Numbers DEF TypeOK

\* All of this depends on the project alone.
LEMMA SameText ==
  ASSUME project' = project
  PROVE  /\ \A f : Place(f)' = Place(f)
         /\ \A c : Home(c)' = Home(c)
         /\ \A c : Rank(c)' = Rank(c)
         /\ \A t : Stage(t)' = Stage(t)
         /\ \A b, c : TooEarly(b, c)' = TooEarly(b, c)
         /\ \A b, i : IsEarly(b, i)' = IsEarly(b, i)
         /\ DeclaredOnce' = DeclaredOnce /\ Ordered' = Ordered
BY DEF Place, Home, Rank, Stage, TooEarly, DeclaredBefore, IsEarly, DeclaredOnce, Ordered, Handled, Asked,
       Ancestors, UpClosed

-----------------------------------------------------------------------------
(***************************************************************************)
(* Lines: sequences in which what comes earlier is related to what comes   *)
(* later.                                                                  *)
(***************************************************************************)
Related(s, R) == \A i, j \in DOMAIN s : i < j => <<s[i], s[j]>> \in R

LEMMA RelatedConcat ==
  ASSUME NEW S, NEW R, NEW s \in Seq(S), NEW t \in Seq(S),
         Related(s, R), Related(t, R),
         \A x \in Elements(s), y \in Elements(t) : <<x, y>> \in R
  PROVE  Related(s \o t, R)
<1> DEFINE st == s \o t
<1>1. /\ Len(s) \in Nat /\ Len(t) \in Nat /\ DOMAIN s = 1 .. Len(s) /\ DOMAIN t = 1 .. Len(t)
      /\ DOMAIN st = 1 .. Len(s) + Len(t)
      /\ \A i \in 1 .. Len(s) + Len(t) : st[i] = IF i <= Len(s) THEN s[i] ELSE t[i - Len(s)]
  BY ConcatProperties, LenProperties
<1> HIDE DEF st
<1> SUFFICES ASSUME NEW i \in DOMAIN st, NEW j \in DOMAIN st, i < j PROVE <<st[i], st[j]>> \in R
  BY DEF Related, st
<1>2. CASE j <= Len(s)
  BY <1>1, <1>2 DEF Related
<1>3. CASE Len(s) < i
  <2>1. /\ i - Len(s) \in DOMAIN t /\ j - Len(s) \in DOMAIN t /\ i - Len(s) < j - Len(s)
        /\ st[i] = t[i - Len(s)] /\ st[j] = t[j - Len(s)]
    BY <1>1, <1>3
  <2> QED BY <2>1 DEF Related
<1>4. CASE i <= Len(s) /\ Len(s) < j
  <2>1. i \in DOMAIN s /\ st[i] = s[i] /\ j - Len(s) \in DOMAIN t /\ st[j] = t[j - Len(s)]
    BY <1>1, <1>4
  <2> QED BY <2>1 DEF Elements
<1> QED BY <1>1, <1>2, <1>3, <1>4

LEMMA RelatedPop ==
  ASSUME NEW S, NEW R, NEW s \in Seq(S), s # <<>>, Related(s, R)
  PROVE  Related(Tail(s), R) /\ \A y \in Elements(Tail(s)) : <<Head(s), y>> \in R
<1> DEFINE t == Tail(s)
<1>1. /\ Head(s) = s[1] /\ t \in Seq(S) /\ Len(t) = Len(s) - 1
      /\ \A i \in 1 .. Len(s) - 1 : t[i] = s[i + 1]
  BY HeadTailProperties
<1>2. Len(s) \in Nat \ {0} /\ DOMAIN s = 1 .. Len(s) /\ DOMAIN t = 1 .. Len(s) - 1
  BY <1>1, EmptySeq, LenProperties
<1> HIDE DEF t
<1>3. \A i \in DOMAIN t : i + 1 \in DOMAIN s /\ t[i] = s[i + 1] /\ 1 < i + 1 /\ i \in Nat
  BY <1>1, <1>2
<1>4. Related(t, R)
  <2> SUFFICES ASSUME NEW i \in DOMAIN t, NEW j \in DOMAIN t, i < j PROVE <<t[i], t[j]>> \in R
    BY DEF Related
  <2>1. i + 1 < j + 1
    BY <1>3
  <2> QED BY <1>3, <2>1 DEF Related
<1>5. \A y \in Elements(t) : <<Head(s), y>> \in R
  <2>1. \A i \in DOMAIN t : <<s[1], t[i]>> \in R
    BY <1>2, <1>3 DEF Related
  <2> QED BY <1>1, <2>1 DEF Elements
<1> QED BY <1>4, <1>5 DEF t

LEMMA RelatedSingle ==
  ASSUME NEW R, NEW e
  PROVE  Related(<<e>>, R) /\ Related(<<>>, R)
BY DEF Related

LEMMA RelatedPair ==
  ASSUME NEW R, NEW d, NEW e, <<d, e>> \in R
  PROVE  Related(<<d, e>>, R)
BY DEF Related

LEMMA Pair ==
  ASSUME NEW S, NEW d \in S, NEW e \in S
  PROVE  <<d, e>> \in Seq(S) /\ Elements(<<d, e>>) = {d, e}
<1>1. Elements(<<d, e>>) = {d, e}
  <2>1. DOMAIN <<d, e>> = {1, 2} /\ <<d, e>>[1] = d /\ <<d, e>>[2] = e
    OBVIOUS
  <2> QED BY <2>1 DEF Elements
<1> QED BY <1>1

-----------------------------------------------------------------------------
(***************************************************************************)
(* What the tasks are, and that they stand in line.                        *)
(***************************************************************************)
InLineWith == {p \in Task \X Task : Leads(p[1], p[2])}

LEMMA LineIsRelated ==
  ASSUME todo \in Seq(Task)
  PROVE  InLine <=> Related(todo, InLineWith)
<1>1. \A i \in DOMAIN todo : todo[i] \in Task
  BY ElementOfSeq, LenProperties
<1>2. \A i, j \in DOMAIN todo : <<todo[i], todo[j]>> \in InLineWith <=> Leads(todo[i], todo[j])
  BY <1>1 DEF InLineWith
<1> QED BY <1>2 DEF InLine, Related

LEMMA BodyElements ==
  ASSUME TypeOK, NEW b \in Body
  PROVE  /\ BodyTasks(b) \in Seq(Task)
         /\ Elements(BodyTasks(b)) =
              {Do("begin", b, 0), Do("end", b, 0)} \cup {Do("stmt", b, i) : i \in DOMAIN project.body[b]}
<1> DEFINE stmts == [i \in DOMAIN project.body[b] |-> Do("stmt", b, i)]
           first == <<Do("begin", b, 0)>>
           last == <<Do("end", b, 0)>>
           head == first \o stmts
<1>1. DOMAIN project.body[b] = 1 .. Len(project.body[b]) /\ Len(project.body[b]) \in Nat
  <2>1. project.body[b] \in Seq(Stmt)
    BY ProjectType
  <2> QED BY <2>1, LenProperties
<1>2. stmts \in Seq(Task)
  <2>1. \A i \in 1 .. Len(project.body[b]) : Do("stmt", b, i) \in Task
    BY DEF Do, Task
  <2> QED BY <1>1, <2>1, SeqDef
<1>3. Elements(stmts) = {Do("stmt", b, i) : i \in DOMAIN project.body[b]}
  BY DEF Elements
<1>4. Do("begin", b, 0) \in Task /\ Do("end", b, 0) \in Task
  BY DEF Do, Task
<1>5. /\ first \in Seq(Task) /\ Elements(first) = {Do("begin", b, 0)}
      /\ last \in Seq(Task) /\ Elements(last) = {Do("end", b, 0)}
  BY <1>4, Single
<1>6. BodyTasks(b) = head \o last
  BY DEF BodyTasks
<1> HIDE DEF stmts, first, last
<1>7. head \in Seq(Task) /\ Elements(head) = Elements(first) \cup Elements(stmts)
  BY <1>2, <1>5, ElementsConcat
<1> HIDE DEF head
<1>8. head \o last \in Seq(Task) /\ Elements(head \o last) = Elements(head) \cup Elements(last)
  BY <1>5, <1>7, ElementsConcat
<1> QED BY <1>3, <1>5, <1>6, <1>7, <1>8

LEMMA Stages ==
  ASSUME NEW b, NEW i \in Nat
  PROVE  /\ Stage(Do("typeInfo", b, 0)) = 1 /\ Stage(Do("vtable", b, 0)) = 2
         /\ Stage(Do("begin", b, 0)) = 3 /\ Stage(Do("stmt", b, i)) = 3 + i
         /\ Stage(Do("infos", b, i)) = 3 + i
         /\ Stage(Do("end", b, 0)) = 4 + Len(project.body[b])
         /\ Stage(Do("construct", b, 0)) = 5 + Len(project.body[b])
BY DEF Stage, Do

\* Parts of one class or function, the earlier first
InBody ==
  {p \in Task \X Task : /\ p[1].op # "generate" /\ p[2].op # "generate" /\ p[1].of = p[2].of
                        /\ Stage(p[1]) < Stage(p[2])}

LEMMA InBodyLeads == InBody \subseteq InLineWith
<1>1. \A p \in InBody : Leads(p[1], p[2])
  BY DEF InBody, Leads
<1> QED BY <1>1 DEF InBody, InLineWith

LEMMA BodyLine ==
  ASSUME TypeOK, NEW b \in Body
  PROVE  Related(BodyTasks(b), InBody)
<1> DEFINE stmts == [i \in DOMAIN project.body[b] |-> Do("stmt", b, i)]
           first == <<Do("begin", b, 0)>>
           last == <<Do("end", b, 0)>>
           head == first \o stmts
<1>1. DOMAIN project.body[b] = 1 .. Len(project.body[b]) /\ Len(project.body[b]) \in Nat
  <2>1. project.body[b] \in Seq(Stmt)
    BY ProjectType
  <2> QED BY <2>1, LenProperties
<1>2. \A i \in DOMAIN project.body[b] : Do("stmt", b, i) \in Task
  BY <1>1 DEF Do, Task
<1>3. Do("begin", b, 0) \in Task /\ Do("end", b, 0) \in Task
  BY DEF Do, Task
<1>4. \A op, i : Do(op, b, i).op = op /\ Do(op, b, i).of = b
  BY DEF Do
<1>5. stmts \in Seq(Task)
  BY <1>1, <1>2, SeqDef
<1>6. Elements(stmts) = {Do("stmt", b, i) : i \in DOMAIN project.body[b]}
  BY DEF Elements
<1>7. /\ first \in Seq(Task) /\ Elements(first) = {Do("begin", b, 0)}
      /\ last \in Seq(Task) /\ Elements(last) = {Do("end", b, 0)}
  BY <1>3, Single
<1>8. Related(stmts, InBody)
  <2> SUFFICES ASSUME NEW i \in DOMAIN project.body[b], NEW j \in DOMAIN project.body[b], i < j
               PROVE  <<Do("stmt", b, i), Do("stmt", b, j)>> \in InBody
    BY DEF Related
  <2>1. Stage(Do("stmt", b, i)) = 3 + i /\ Stage(Do("stmt", b, j)) = 3 + j
    BY <1>1, Stages
  <2> QED BY <1>1, <1>2, <1>4, <2>1 DEF InBody
<1>9. Related(first, InBody) /\ Related(last, InBody)
  BY RelatedSingle
<1>10. \A x \in Elements(first), y \in Elements(stmts) : <<x, y>> \in InBody
  <2>1. \A i \in DOMAIN project.body[b] :
          Stage(Do("begin", b, 0)) = 3 /\ Stage(Do("stmt", b, i)) = 3 + i /\ i \in Nat \ {0}
    BY <1>1, Stages
  <2>2. \A i \in DOMAIN project.body[b] : <<Do("begin", b, 0), Do("stmt", b, i)>> \in InBody
    BY <1>2, <1>3, <1>4, <2>1 DEF InBody
  <2> QED BY <1>6, <1>7, <2>2
<1>11. \A x \in Elements(first) \cup Elements(stmts), y \in Elements(last) : <<x, y>> \in InBody
  <2>1. Stage(Do("begin", b, 0)) = 3 /\ Stage(Do("end", b, 0)) = 4 + Len(project.body[b])
    BY Stages
  <2>2. \A i \in DOMAIN project.body[b] :
          Stage(Do("stmt", b, i)) = 3 + i /\ i \in Nat /\ i <= Len(project.body[b])
    BY <1>1, Stages
  <2>3. <<Do("begin", b, 0), Do("end", b, 0)>> \in InBody
    BY <1>1, <1>3, <1>4, <2>1 DEF InBody
  <2>4. \A i \in DOMAIN project.body[b] : <<Do("stmt", b, i), Do("end", b, 0)>> \in InBody
    BY <1>1, <1>2, <1>3, <1>4, <2>1, <2>2 DEF InBody
  <2> QED BY <1>6, <1>7, <2>3, <2>4
<1>12. BodyTasks(b) = head \o last
  BY DEF BodyTasks
<1> HIDE DEF stmts, first, last, InBody
<1>13. head \in Seq(Task) /\ Elements(head) = Elements(first) \cup Elements(stmts)
  BY <1>5, <1>7, ElementsConcat
<1>14. Related(head, InBody)
  BY <1>5, <1>7, <1>8, <1>9, <1>10, RelatedConcat
<1> HIDE DEF head
<1>15. Related(head \o last, InBody)
  BY <1>7, <1>9, <1>11, <1>13, <1>14, RelatedConcat
<1> QED BY <1>12, <1>15

-----------------------------------------------------------------------------
(***************************************************************************)
(* A step that emits no class: the head goes, what takes its place does    *)
(* nothing or asks for infos at the same place.                            *)
(***************************************************************************)
Instead(x) == Idle(x) \/ (Head(todo).op = "stmt" /\ x = [Head(todo) EXCEPT !.op = "infos"])

Advance(tasks) ==
  /\ pc = "gen" /\ todo # <<>> /\ tasks \in Seq(Task) /\ todo' = tasks \o Tail(todo)
  /\ UNCHANGED <<project, pc, pos, emitIn>>
  /\ Head(todo).op = "generate" => Idle(Head(todo))
  /\ \A x \in Elements(tasks) : Instead(x)
  /\ \A i, j \in DOMAIN tasks : i < j => Idle(tasks[i])
  /\ constructible' = constructible \cup (IF Head(todo).op = "construct" THEN {Head(todo).of} ELSE {})
  /\ lastUnreachable' =>
       \/ lastUnreachable /\ Head(todo).op # "begin"
       \/ Head(todo).op = "stmt" /\ Head(todo).at = Len(project.body[Head(todo).of])

LEMMA HeadLeads ==
  ASSUME TypeOK, InLine, todo # <<>>
  PROVE  \A y \in Elements(Tail(todo)) : Leads(Head(todo), y)
<1>1. todo \in Seq(Task)
  BY DEF TypeOK
<1>2. Related(todo, InLineWith)
  BY <1>1, LineIsRelated
<1>3. \A y \in Elements(Tail(todo)) : <<Head(todo), y>> \in InLineWith
  BY <1>1, <1>2, RelatedPop
<1> QED BY <1>3 DEF InLineWith

LEMMA AdvanceTasks ==
  ASSUME TypeOK, NEW tasks, Advance(tasks)
  PROVE  /\ \A t : Idle(t)' = Idle(t)
         /\ \A t, u : Leads(t, u)' = Leads(t, u)
         /\ \A b : Here(b)' = Here(b)
         /\ file' = file
         /\ Head(todo) \in Task
         /\ Elements(todo) = {Head(todo)} \cup Elements(Tail(todo))
         /\ Elements(todo') = Elements(tasks) \cup Elements(Tail(todo))
         /\ \A t \in Elements(todo') : t \in Elements(Tail(todo)) \/ Instead(t)
         /\ \A op, b : Waits(op, b) /\ Head(todo) # Do(op, b, 0) => Waits(op, b)'
<1>1. todo \in Seq(Task)
  BY DEF TypeOK
<1>2. /\ Head(todo) \in Task
      /\ Elements(todo) = {Head(todo)} \cup Elements(Tail(todo))
      /\ Elements(todo') = Elements(tasks) \cup Elements(Tail(todo))
  BY <1>1, Continued DEF Advance
<1>3. UNCHANGED <<project, pos, emitIn>>
  BY DEF Advance
<1>4. \A t : Idle(t)' = Idle(t)
  BY <1>3 DEF Idle, Emitted
<1>5. \A c : Rank(c)' = Rank(c) /\ Home(c)' = Home(c)
  BY <1>3, SameText
<1>6. \A t : Stage(t)' = Stage(t)
  BY <1>3, SameText
<1>7. \A t, u : Leads(t, u)' = Leads(t, u)
  BY <1>4, <1>5, <1>6 DEF Leads
<1>8. file' = file
  BY <1>3 DEF file
<1>9. \A b : Here(b)' = Here(b)
  BY <1>5, <1>8 DEF Here
<1>10. \A op, b : Waits(op, b) /\ Head(todo) # Do(op, b, 0) => Waits(op, b)'
  BY <1>2 DEF Waits, Do
<1>11. \A t \in Elements(todo') : t \in Elements(Tail(todo)) \/ Instead(t)
  BY <1>2 DEF Advance
<1> QED BY <1>2, <1>4, <1>7, <1>8, <1>9, <1>10, <1>11

LEMMA AdvanceLine ==
  ASSUME TypeOK, InLine, OfTheTurn, NEW tasks, Advance(tasks)
  PROVE  InLine' /\ OfTheTurn'
<1>1. /\ todo \in Seq(Task) /\ tasks \in Seq(Task) /\ Tail(todo) \in Seq(Task)
      /\ todo' = tasks \o Tail(todo) /\ todo # <<>>
  BY ElementsPop DEF TypeOK, Advance
<1>2. Related(todo, InLineWith)
  BY <1>1, LineIsRelated
<1>3. Related(Tail(todo), InLineWith)
  BY <1>1, <1>2, RelatedPop
<1>4. \A i \in DOMAIN tasks : tasks[i] \in Task
  BY <1>1, ElementOfSeq, LenProperties
<1>5. Related(tasks, InLineWith)
  BY <1>4 DEF Related, Advance, InLineWith, Leads
<1>6. ASSUME NEW x \in Elements(tasks), NEW y \in Elements(Tail(todo)) PROVE <<x, y>> \in InLineWith
  <2>1. x \in Task /\ y \in Task
    BY <1>1, ElementsIn
  <2>2. Leads(Head(todo), y)
    BY <1>1, HeadLeads
  <2>3. CASE Idle(x)
    BY <2>1, <2>3 DEF InLineWith, Leads
  <2>4. CASE Head(todo).op = "stmt" /\ x = [Head(todo) EXCEPT !.op = "infos"]
    <3>1. Head(todo) \in Task
      BY <1>1, ElementsPop
    <3>2. x.op = "infos" /\ x.of = Head(todo).of /\ x.at = Head(todo).at
      BY <2>4, <3>1 DEF Task
    <3>3. Stage(x) = Stage(Head(todo))
      BY <2>4, <3>2 DEF Stage
    <3>4. Leads(x, y)
      BY <2>2, <2>4, <3>2, <3>3 DEF Leads, Idle
    <3> QED BY <2>1, <3>4 DEF InLineWith
  <2> QED BY <2>3, <2>4 DEF Advance, Instead
<1>7. Related(todo', InLineWith)
  BY <1>1, <1>3, <1>5, <1>6, RelatedConcat
<1>8. InLine'
  <2>1. \A i, j \in DOMAIN todo' : i < j => Leads(todo'[i], todo'[j])
    BY <1>7 DEF Related, InLineWith
  <2>2. \A t, u : Leads(t, u)' = Leads(t, u)
    BY AdvanceTasks
  <2> QED BY <2>1, <2>2 DEF InLine
<1>9. OfTheTurn'
  <2> SUFFICES ASSUME NEW t \in Elements(todo'), ~ Idle(t) PROVE Here(t.of)
    BY AdvanceTasks DEF OfTheTurn
  <2>1. CASE t \in Elements(Tail(todo))
    BY <2>1, AdvanceTasks DEF OfTheTurn
  <2>2. CASE Instead(t)
    <3>1. Head(todo) \in Elements(todo) /\ Head(todo) \in Task
      BY AdvanceTasks
    <3>2. Head(todo).op = "stmt" /\ t.of = Head(todo).of
      BY <2>2, <3>1 DEF Instead, Task
    <3>3. ~ Idle(Head(todo))
      BY <3>2 DEF Idle
    <3> QED BY <3>1, <3>2, <3>3 DEF OfTheTurn
  <2> QED BY <2>1, <2>2, AdvanceTasks
<1> QED BY <1>8, <1>9

\* A part put in place of the head stands for the same class or function.
LEMMA Replaced ==
  ASSUME TypeOK, NEW tasks, Advance(tasks), NEW t \in Elements(todo'), ~ Idle(t)
  PROVE  \/ t \in Elements(Tail(todo))
         \/ /\ Head(todo) \in Elements(todo) /\ ~ Idle(Head(todo)) /\ Head(todo).op = "stmt"
            /\ t.op = "infos" /\ t.of = Head(todo).of
<1>1. Head(todo) \in Elements(todo) /\ Head(todo) \in Task
  BY AdvanceTasks
<1>2. t \in Elements(Tail(todo)) \/ Instead(t)
  BY AdvanceTasks
<1>3. CASE Instead(t)
  BY <1>1, <1>3 DEF Instead, Task, Idle
<1> QED BY <1>2, <1>3

LEMMA AdvanceEmission ==
  ASSUME TypeOK, EmittedInTurn, InOrder, NEW tasks, Advance(tasks)
  PROVE  EmittedInTurn' /\ InOrder'
<1>1. UNCHANGED <<project, pos, emitIn>> /\ file' = file
  BY AdvanceTasks DEF Advance
<1>2. \A c : Emitted(c)' = Emitted(c)
  BY <1>1 DEF Emitted
<1>3. \A c : Rank(c)' = Rank(c) /\ Home(c)' = Home(c)
  BY <1>1, SameText
<1>4. \A f : Place(f)' = Place(f)
  BY <1>1, SameText
<1>5. EmittedInTurn'
  <2> SUFFICES ASSUME NEW c \in Class, Home(c) = file PROVE Emitted(c) \/ Waits("generate", c)'
    BY <1>1, <1>2, <1>3, <1>4 DEF EmittedInTurn
  <2>1. Head(todo) = Do("generate", c, 0) => Emitted(c)
    BY DEF Advance, Idle, Do
  <2>2. Waits("generate", c) /\ Head(todo) # Do("generate", c, 0) => Waits("generate", c)'
    BY AdvanceTasks
  <2> QED BY <2>1, <2>2 DEF EmittedInTurn
<1>6. InOrder'
  <2> SUFFICES ASSUME NEW t \in Elements(todo'), NEW d \in Class,
                      ~ Idle(t), t.of \in Class, Emitted(d), Home(d) = file
               PROVE  Rank(d) <= Rank(t.of)
    BY <1>1, <1>2, <1>3, AdvanceTasks DEF InOrder
  <2>1. CASE t \in Elements(Tail(todo))
    BY <2>1, AdvanceTasks DEF InOrder
  <2>2. CASE Head(todo) \in Elements(todo) /\ ~ Idle(Head(todo)) /\ t.of = Head(todo).of
    BY <2>2 DEF InOrder
  <2> QED BY <2>1, <2>2, Replaced
<1> QED BY <1>5, <1>6

\* The constructor is the last part of its class.
LEMMA ConstructLast ==
  ASSUME TypeOK, TasksFit, NEW t \in Elements(todo), t.op # "generate"
  PROVE  Stage(t) <= 5 + Len(project.body[t.of])
<1>1. t \in Task
  BY ElementsIn DEF TypeOK
<1>2. t.of \in Body /\ t.op \in {"typeInfo", "vtable", "begin", "stmt", "infos", "end", "construct"}
  BY <1>1 DEF Task
<1>3. Len(project.body[t.of]) \in Nat /\ DOMAIN project.body[t.of] = 1 .. Len(project.body[t.of])
  <2>1. project.body[t.of] \in Seq(Stmt)
    BY <1>2, ProjectType
  <2> QED BY <2>1, LenProperties
<1>4. t.op \in {"stmt", "infos"} => t.at \in 1 .. Len(project.body[t.of])
  BY <1>3 DEF TasksFit, Fit
<1>5. CASE t.op \in {"stmt", "infos"}
  BY <1>3, <1>4, <1>5 DEF Stage
<1>6. CASE t.op \in {"typeInfo", "vtable", "begin"}
  BY <1>3, <1>6 DEF Stage
<1>7. CASE t.op \in {"end", "construct"}
  BY <1>3, <1>7 DEF Stage
<1> QED BY <1>2, <1>5, <1>6, <1>7

LEMMA AfterConstruct ==
  ASSUME TypeOK, TasksFit, InLine, todo # <<>>, Head(todo).op = "construct",
         NEW t \in Elements(Tail(todo)), t.op # "generate", t.of \in Class
  PROVE  FALSE
<1>1. Head(todo) \in Task /\ Elements(todo) = {Head(todo)} \cup Elements(Tail(todo))
  BY ElementsPop DEF TypeOK
<1>2. Leads(Head(todo), t)
  BY HeadLeads
<1>3. Head(todo).of = t.of /\ Stage(Head(todo)) < Stage(t)
  BY <1>2 DEF Leads, Idle
<1>4. Stage(Head(todo)) = 5 + Len(project.body[t.of])
  BY <1>3 DEF Stage
<1>5. Stage(t) <= 5 + Len(project.body[t.of])
  BY <1>1, ConstructLast
<1>6. Len(project.body[t.of]) \in Nat
  <2>1. project.body[t.of] \in Seq(Stmt)
    BY ProjectType DEF Body
  <2> QED BY <2>1, LenProperties
<1>7. t \in Task
  BY <1>1, ElementsIn DEF TypeOK
<1>8. Stage(t) \in Nat
  BY <1>6, <1>7 DEF Stage, Task
<1> QED BY <1>3, <1>4, <1>5, <1>6, <1>8

LEMMA AdvanceConstructed ==
  ASSUME TypeOK, TasksFit, InLine, Constructed, NEW tasks, Advance(tasks)
  PROVE  Constructed'
<1>1. \A c : Emitted(c)' = Emitted(c)
  BY DEF Advance, Emitted
<1>2. /\ Head(todo) \in Elements(todo) /\ Head(todo) \in Task /\ todo # <<>>
      /\ Elements(todo) = {Head(todo)} \cup Elements(Tail(todo))
  BY AdvanceTasks DEF Advance
<1>3. \A c : c \in constructible' <=> c \in constructible \/ (Head(todo).op = "construct" /\ Head(todo).of = c)
  BY DEF Advance
<1> SUFFICES ASSUME NEW c \in Class
             PROVE  /\ Emitted(c) => c \in constructible' \/ Waits("construct", c)'
                    /\ c \in constructible' => Emitted(c)
                    /\ \A t \in Elements(todo') :
                         t.op # "generate" /\ t.of = c =>
                           Emitted(c) /\ c \notin constructible' /\ Waits("construct", c)'
  BY <1>1 DEF Constructed
<1>4. Waits("construct", c) => c \in constructible' \/ Waits("construct", c)'
  <2>1. Head(todo) = Do("construct", c, 0) => c \in constructible'
    BY <1>3 DEF Do
  <2>2. Waits("construct", c) /\ Head(todo) # Do("construct", c, 0) => Waits("construct", c)'
    BY AdvanceTasks
  <2> QED BY <2>1, <2>2
<1>5. Emitted(c) => c \in constructible' \/ Waits("construct", c)'
  BY <1>3, <1>4 DEF Constructed
<1>6. c \in constructible' => Emitted(c)
  BY <1>2, <1>3 DEF Constructed
<1>7. ASSUME NEW t \in Elements(todo'), t.op # "generate", t.of = c
      PROVE  Emitted(c) /\ c \notin constructible' /\ Waits("construct", c)'
  <2>1. ~ Idle(t)
    BY <1>7 DEF Idle
  <2>2. CASE t \in Elements(Tail(todo))
    <3>1. Head(todo).op # "construct"
      BY <1>2, <1>7, <2>2, AfterConstruct
    <3>2. Emitted(c) /\ c \notin constructible /\ Waits("construct", c)
      BY <1>2, <1>7, <2>2 DEF Constructed
    <3> QED BY <1>3, <1>4, <3>1, <3>2
  <2>3. CASE Head(todo).op = "stmt" /\ t.of = Head(todo).of
    <3>1. Emitted(c) /\ c \notin constructible /\ Waits("construct", c)
      BY <1>2, <1>7, <2>3 DEF Constructed
    <3> QED BY <1>3, <1>4, <2>3, <3>1
  <2> QED BY <2>1, <2>2, <2>3, Replaced
<1> QED BY <1>5, <1>6, <1>7

LEMMA AdvanceFileLast ==
  ASSUME TypeOK, InLine, FileLast, pc = "gen", file \in File, NEW tasks, Advance(tasks)
  PROVE  FileLast'
<1>1. file' = file /\ Head(todo) \in Elements(todo) /\ todo # <<>>
      /\ Elements(todo) = {Head(todo)} \cup Elements(Tail(todo))
  BY AdvanceTasks DEF Advance
<1> SUFFICES ASSUME NEW t \in Elements(todo'), ~ Idle(t), t.of \in Class
             PROVE  Waits("begin", file)'
  BY <1>1, AdvanceTasks DEF FileLast
<1>2. Waits("begin", file)
  BY <1>1, Replaced DEF FileLast
<1>3. Head(todo) # Do("begin", file, 0)
  <2> SUFFICES ASSUME Head(todo) = Do("begin", file, 0) PROVE FALSE
    OBVIOUS
  <2>1. Head(todo).op = "begin" /\ Head(todo).of = file
    BY DEF Do
  <2>2. t \in Elements(Tail(todo))
    BY <2>1, Replaced
  <2>3. Leads(Head(todo), t)
    BY <1>1, <2>2, HeadLeads
  <2>4. file \in Class
    BY <2>1, <2>3 DEF Leads, Idle
  <2> QED BY <2>4, NamesAssumption
<1> QED BY <1>2, <1>3, AdvanceTasks

\* When a body ends in a jump, no statement of a body already begun is left.
LEMMA NothingAfter ==
  ASSUME TypeOK, Positions, TasksFit, InLine, OfTheTurn, FileLast, pc = "gen", DeclaredOnce,
         todo # <<>>, Head(todo).op = "stmt",
         Head(todo).at = Len(project.body[Head(todo).of]),
         NEW t \in Elements(Tail(todo)), t.op = "stmt"
  PROVE  Waits("begin", t.of) /\ t.of = file
<1>1. Head(todo) \in Task /\ Elements(todo) = {Head(todo)} \cup Elements(Tail(todo))
  BY ElementsPop DEF TypeOK
<1>2. t \in Task /\ t \in Elements(todo)
  BY <1>1, ElementsIn DEF TypeOK
<1>3. Leads(Head(todo), t) /\ ~ Idle(t) /\ ~ Idle(Head(todo))
  BY HeadLeads DEF Idle
<1>4. t.of # Head(todo).of
  <2> SUFFICES ASSUME t.of = Head(todo).of PROVE FALSE
    OBVIOUS
  <2>1. Stage(Head(todo)) < Stage(t)
    BY <1>3 DEF Leads
  <2>2. Stage(Head(todo)) = 3 + Len(project.body[t.of]) /\ Stage(t) = 3 + t.at
    BY DEF Stage
  <2>3. t.at \in DOMAIN project.body[t.of]
    BY <1>2 DEF TasksFit, Fit
  <2>4. t.of \in Body
    BY <1>2 DEF Task
  <2> QED BY <2>1, <2>2, <2>3, <2>4, Numbers
<1>5. t.of \notin Class
  BY <1>3, <1>4 DEF Leads
<1>6. t.of = file
  BY <1>2, <1>3, <1>5 DEF OfTheTurn, Here
<1>7. Head(todo).of \in Class
  BY <1>1, <1>3, <1>4, <1>6 DEF OfTheTurn, Here
<1>8. Waits("begin", file)
  BY <1>1, <1>3, <1>7 DEF FileLast
<1> QED BY <1>6, <1>8

LEMMA AdvanceFlag ==
  ASSUME TypeOK, Positions, TasksFit, InLine, OfTheTurn, FileLast, FlagOfEnded, DeclaredOnce,
         NEW tasks, Advance(tasks)
  PROVE  FlagOfEnded'
<1> SUFFICES ASSUME lastUnreachable', NEW t \in Elements(todo'), t.op = "stmt"
             PROVE  Waits("begin", t.of)'
  BY DEF FlagOfEnded
<1>1. Elements(todo) = {Head(todo)} \cup Elements(Tail(todo)) /\ todo # <<>> /\ pc = "gen"
  BY AdvanceTasks DEF Advance
<1>2. t \in Elements(Tail(todo))
  <2>1. ~ Idle(t)
    BY DEF Idle
  <2> QED BY <2>1, Replaced
<1>3. CASE lastUnreachable /\ Head(todo).op # "begin"
  <2>1. Waits("begin", t.of)
    BY <1>1, <1>2, <1>3 DEF FlagOfEnded
  <2>2. Head(todo) # Do("begin", t.of, 0)
    BY <1>3 DEF Do
  <2> QED BY <2>1, <2>2, AdvanceTasks
<1>4. CASE Head(todo).op = "stmt" /\ Head(todo).at = Len(project.body[Head(todo).of])
  <2>1. Waits("begin", t.of)
    BY <1>1, <1>2, <1>4, NothingAfter
  <2>2. Head(todo) # Do("begin", t.of, 0)
    BY <1>4 DEF Do
  <2> QED BY <2>1, <2>2, AdvanceTasks
<1> QED BY <1>3, <1>4 DEF Advance

-----------------------------------------------------------------------------
(***************************************************************************)
(* The `new` without a constructor call.                                   *)
(***************************************************************************)
\* What NodeTermClassNew finds is what the text says.
LEMMA NewByRule ==
  ASSUME TypeOK, Positions, TasksFit, DeclaredOnce, Line, Constructed, pc = "gen",
         todo # <<>>, Head(todo).op \in {"stmt", "infos", "typeInfo"}, NEW c \in Class
  PROVE  c \in constructible <=> ~ TooEarly(Head(todo).of, c)
<1> DEFINE b == Head(todo).of
<1>1. Head(todo) \in Task /\ Head(todo) \in Elements(todo)
      /\ Elements(todo) = {Head(todo)} \cup Elements(Tail(todo))
  BY ElementsPop DEF TypeOK
<1>2. ~ Idle(Head(todo)) /\ b \in Body /\ Here(b)
  BY <1>1 DEF Idle, Line, OfTheTurn, Task
<1>3. \A y \in Elements(Tail(todo)) : Leads(Head(todo), y)
  BY HeadLeads DEF Line
<1>4. /\ file \in File /\ Place(file) = pos /\ pos \in Nat
      /\ \A d \in Class : Home(d) = file <=> Place(Home(d)) = pos
  BY HereIsPos
<1>5. Place(Home(c)) \in Nat /\ Rank(c) \in Nat
  BY Where, Numbers
<1>6. EmittedInTurn /\ InOrder
  BY DEF Line
\* A class still to come
<1>7. Home(c) = file /\ ~ Emitted(c) => b \in Class /\ Rank(b) < Rank(c)
  <2> SUFFICES ASSUME Home(c) = file, ~ Emitted(c) PROVE b \in Class /\ Rank(b) < Rank(c)
    OBVIOUS
  <2>1. Waits("generate", c)
    BY <1>6 DEF EmittedInTurn
  <2>2. Do("generate", c, 0) \in Elements(Tail(todo))
    BY <1>1, <2>1 DEF Waits, Do
  <2>3. Leads(Head(todo), Do("generate", c, 0))
    BY <1>3, <2>2
  <2>4. Do("generate", c, 0).op = "generate" /\ Do("generate", c, 0).of = c
    BY DEF Do
  <2> QED BY <1>2, <2>3, <2>4 DEF Leads, Idle
\* A class in progress
<1>8. Emitted(c) /\ c \notin constructible => b = c /\ Home(c) = file
  <2> SUFFICES ASSUME Emitted(c), c \notin constructible PROVE b = c /\ Home(c) = file
    OBVIOUS
  <2>1. Waits("construct", c)
    BY DEF Constructed
  <2>2. Do("construct", c, 0).op = "construct" /\ Do("construct", c, 0).of = c
    BY DEF Do
  <2>3. Do("construct", c, 0) \in Elements(Tail(todo))
    BY <1>1, <2>1, <2>2 DEF Waits
  <2>4. Leads(Head(todo), Do("construct", c, 0))
    BY <1>3, <2>3
  <2>5. b = c
    BY <1>2, <2>2, <2>4 DEF Leads, Idle
  <2>6. c \notin File
    BY NamesAssumption
  <2> QED BY <1>2, <1>4, <2>5, <2>6 DEF Here
<1>9. c \in constructible => Emitted(c) /\ Place(Home(c)) <= pos
  BY <1>6 DEF Constructed, EmittedInTurn
<1>10. Place(Home(c)) < pos => Emitted(c)
  BY <1>6 DEF EmittedInTurn
<1> HIDE DEF b
<1>11. CASE b \in File
  <2>1. b = file /\ b \notin Class
    BY <1>2, <1>11, NamesAssumption DEF Here
  <2>2. TooEarly(b, c) <=> Place(Home(c)) > pos
    BY <1>4, <2>1 DEF TooEarly
  <2>3. Place(Home(c)) <= pos => Emitted(c)
    BY <1>4, <1>5, <1>7, <1>10, <2>1
  <2>4. Emitted(c) => c \in constructible
    BY <1>8, <2>1
  <2>5. Place(Home(c)) > pos <=> ~ (Place(Home(c)) <= pos)
    BY <1>4, <1>5
  <2> QED BY <1>9, <2>2, <2>3, <2>4, <2>5 DEF b
<1>12. CASE b \in Class
  <2>1. Home(b) = file /\ Rank(b) \in Nat
    BY <1>2, <1>4, <1>12, Numbers, NamesAssumption DEF Here
  <2>2. TooEarly(b, c) <=> ~ DeclaredBefore(c, b)
    BY <1>12 DEF TooEarly
  <2>3. DeclaredBefore(c, b) <=> Place(Home(c)) < pos \/ (Home(c) = file /\ Rank(c) < Rank(b))
    BY <1>4, <2>1 DEF DeclaredBefore
  <2>4. DeclaredBefore(c, b) => Emitted(c)
    BY <1>5, <1>7, <1>10, <2>1, <2>3
  <2>5. DeclaredBefore(c, b) => c \in constructible
    BY <1>4, <1>5, <1>8, <2>1, <2>3, <2>4
  <2>6. c \in constructible => DeclaredBefore(c, b)
    <3> SUFFICES ASSUME c \in constructible, Home(c) = file PROVE Rank(c) < Rank(b)
      BY <1>4, <1>5, <1>9, <2>3
    <3>1. Rank(c) <= Rank(b)
      BY <1>1, <1>2, <1>6, <1>9, <1>12 DEF InOrder, b
    <3>2. b \notin constructible
      BY <1>1, <1>12 DEF Constructed, b
    <3>3. Rank(c) # Rank(b)
      BY <2>1, <3>2, Numbers, <1>12
    <3> QED BY <1>5, <2>1, <3>1, <3>3
  <2> QED BY <2>2, <2>5, <2>6 DEF b
<1> QED BY <1>2, <1>11, <1>12 DEF Body, b

\* The step notes the statement it takes, if that is an early `new`, and no other.
NotesEarly ==
  /\ silent \subseteq silent'
  /\ Head(todo).op = "stmt" /\ IsEarly(Head(todo).of, Head(todo).at) =>
       <<Head(todo).of, Head(todo).at>> \in silent'
  /\ \A at \in silent' \ silent :
       at = <<Head(todo).of, Head(todo).at>> /\ IsEarly(Head(todo).of, Head(todo).at)

LEMMA AdvanceEarly ==
  ASSUME TypeOK, EarlyCounted, OnlyEarly, NotesEarly, NEW tasks, Advance(tasks)
  PROVE  EarlyCounted' /\ OnlyEarly'
<1>1. UNCHANGED <<project, pos, emitIn>>
  BY DEF Advance
<1>2. \A b, i : IsEarly(b, i)' = IsEarly(b, i)
  BY <1>1, SameText
<1>3. EarlyCounted'
  <2> SUFFICES ASSUME NEW b \in Body, NEW i \in Nat, IsEarly(b, i), <<b, i>> \notin silent'
               PROVE  Pending(b, i)'
    BY <1>1, <1>2 DEF EarlyCounted
  <2>1. Pending(b, i)
    BY DEF EarlyCounted, NotesEarly
  <2>2. CASE Do("stmt", b, i) \in Elements(todo)
    <3>1. Do("stmt", b, i).op = "stmt" /\ Do("stmt", b, i).of = b /\ Do("stmt", b, i).at = i
      BY DEF Do
    <3>2. Head(todo) # Do("stmt", b, i)
      BY <3>1 DEF NotesEarly
    <3>3. Do("stmt", b, i) \in Elements(todo')
      BY <2>2, <3>2, AdvanceTasks
    <3> QED BY <3>3 DEF Pending
  <2>3. CASE b \in Class /\ ~ Emitted(b)
    BY <1>1, <2>3 DEF Pending, Emitted
  <2>4. CASE b \in File /\ Place(b) > pos
    <3>1. Place(b)' = Place(b)
      BY <1>1, SameText
    <3> QED BY <1>1, <2>4, <3>1 DEF Pending
  <2> QED BY <2>1, <2>2, <2>3, <2>4 DEF Pending
<1>4. OnlyEarly'
  <2>1. ASSUME NEW at \in silent' PROVE IsEarly(at[1], at[2]) /\ at = <<at[1], at[2]>>
    <3>1. CASE at \in silent
      BY <3>1 DEF OnlyEarly
    <3>2. CASE at \notin silent
      <4>1. at = <<Head(todo).of, Head(todo).at>> /\ IsEarly(Head(todo).of, Head(todo).at)
        BY <3>2 DEF NotesEarly
      <4>2. at[1] = Head(todo).of /\ at[2] = Head(todo).at
        BY <4>1
      <4> QED BY <4>1, <4>2
    <3> QED BY <3>1, <3>2
  <2> QED BY <1>2, <2>1 DEF OnlyEarly
<1> QED BY <1>3, <1>4

LEMMA AdvanceKeeps ==
  ASSUME TypeOK, Positions, TasksFit, Ordered, InTextOrder, NotesEarly, dropped' = dropped,
         NEW tasks, Advance(tasks)
  PROVE  InTextOrder'
<1>1. pc = "gen" /\ pc' = "gen"
  BY DEF Advance
<1>2. /\ InLine /\ OfTheTurn /\ EmittedInTurn /\ InOrder /\ Constructed /\ FlagOfEnded /\ FileLast
      /\ EarlyCounted /\ OnlyEarly /\ dropped = {}
  BY <1>1 DEF InTextOrder, Line, Progress
<1>3. DeclaredOnce /\ file \in File
  BY <1>1, CurrentFile DEF Ordered
<1>4. InLine' /\ OfTheTurn'
  BY <1>2, AdvanceLine
<1>5. EmittedInTurn' /\ InOrder'
  BY <1>2, AdvanceEmission
<1>6. Constructed'
  BY <1>2, AdvanceConstructed
<1>7. FileLast'
  BY <1>1, <1>2, <1>3, AdvanceFileLast
<1>8. FlagOfEnded'
  BY <1>2, <1>3, AdvanceFlag
<1>9. EarlyCounted' /\ OnlyEarly'
  BY <1>2, AdvanceEarly
<1> QED BY <1>1, <1>2, <1>4, <1>5, <1>6, <1>7, <1>8, <1>9 DEF InTextOrder, Line, Progress

\* The steps that only take the head
LEMMA PopKeeps ==
  ASSUME TypeOK, Positions, TasksFit, Ordered, InTextOrder, NEW op, Current(op), Continue(<<>>),
         op = "generate" => Idle(Head(todo)), op \notin {"stmt", "construct"},
         UNCHANGED <<emitIn, constructible, dropped, silent>>,
         lastUnreachable' => lastUnreachable /\ op # "begin"
  PROVE  InTextOrder'
<1>1. Head(todo).op = op /\ pc = "gen" /\ todo # <<>> /\ <<>> \in Seq(Task)
      /\ Elements(<<>>) = {} /\ UNCHANGED <<project, pc, pos>> /\ todo' = <<>> \o Tail(todo)
  BY None DEF Current, Continue
<1>2. Advance(<<>>)
  BY <1>1 DEF Advance
<1>3. NotesEarly
  BY <1>1 DEF NotesEarly
<1> QED BY <1>2, <1>3, AdvanceKeeps

LEMMA GenerateAgainInOrder ==
  ASSUME TypeOK, Positions, TasksFit, Ordered, InTextOrder, GenerateAgain
  PROVE  InTextOrder'
<1>1. Idle(Head(todo))
  BY DEF GenerateAgain, Current, Idle, Emitted
<1> QED BY <1>1, PopKeeps DEF GenerateAgain, classVars, bodyVars

LEMMA TypeInfoInOrder ==
  ASSUME TypeOK, Positions, TasksFit, Ordered, InTextOrder, TypeInfo
  PROVE  InTextOrder'
BY PopKeeps DEF TypeInfo, bodyVars

LEMMA VtableInOrder ==
  ASSUME TypeOK, Positions, TasksFit, Ordered, InTextOrder, Vtable
  PROVE  InTextOrder'
BY PopKeeps DEF Vtable, bodyVars

LEMMA BeginBodyInOrder ==
  ASSUME TypeOK, Positions, TasksFit, Ordered, InTextOrder, BeginBody
  PROVE  InTextOrder'
BY PopKeeps DEF BeginBody, classVars

LEMMA UseInfosInOrder ==
  ASSUME TypeOK, Positions, TasksFit, Ordered, InTextOrder, UseInfos
  PROVE  InTextOrder'
BY PopKeeps DEF UseInfos

LEMMA EndBodyInOrder ==
  ASSUME TypeOK, Positions, TasksFit, Ordered, InTextOrder, EndBody
  PROVE  InTextOrder'
BY PopKeeps DEF EndBody, classVars, bodyVars

-----------------------------------------------------------------------------
(***************************************************************************)
(* Statements.                                                             *)
(***************************************************************************)
LEMMA HeadStatement ==
  ASSUME IInv, Ordered, InTextOrder, pc = "gen", todo # <<>>, Head(todo).op = "stmt"
  PROVE  /\ Head(todo) \in Task /\ Head(todo) \in Elements(todo)
         /\ Elements(todo) = {Head(todo)} \cup Elements(Tail(todo))
         /\ Head(todo).of \in Body /\ Head(todo).at \in DOMAIN project.body[Head(todo).of]
         /\ ~ Idle(Head(todo)) /\ Here(Head(todo).of)
         /\ \A y \in Elements(Tail(todo)) : Leads(Head(todo), y)
<1>1. Head(todo) \in Task /\ Elements(todo) = {Head(todo)} \cup Elements(Tail(todo))
  BY ElementsPop DEF IInv, TypeOK
<1>2. Head(todo).of \in Body /\ ~ Idle(Head(todo))
  BY <1>1 DEF Task, Idle
<1>3. Fit(Head(todo))
  BY HeadFits
<1>4. InLine /\ OfTheTurn
  BY DEF InTextOrder, Line
<1>5. \A y \in Elements(Tail(todo)) : Leads(Head(todo), y)
  BY <1>4, HeadLeads DEF IInv
<1> QED BY <1>1, <1>2, <1>3, <1>4, <1>5 DEF Fit, OfTheTurn

LEMMA JumpsAreLast ==
  ASSUME IInv, pc = "gen", todo # <<>>, Head(todo).op = "stmt", statement.op \in {"return", "throw"}
  PROVE  Head(todo).at = Len(project.body[Head(todo).of])
<1>1. Head(todo) \in Task /\ Fit(Head(todo))
  BY HeadFits
<1>2. Head(todo).of \in Body /\ Head(todo).at \in DOMAIN project.body[Head(todo).of]
  BY <1>1 DEF Task, Fit
<1>3. project \in Project
  BY DEF IInv, TypeOK
<1> QED BY <1>2, <1>3 DEF Project, statement

\* What a body handles was generated before.
LEMMA HandledEmitted ==
  ASSUME IInv, Ordered, InTextOrder, pc = "gen", todo # <<>>, Head(todo).op = "stmt",
         statement.op \in {"throw", "catch"}
  PROVE  statement.of \in Class /\ Emitted(statement.of)
<1> DEFINE b == Head(todo).of
           d == statement.of
<1>1. d \in Class
  BY StatementFits
<1>2. /\ b \in Body /\ ~ Idle(Head(todo)) /\ Here(b) /\ Head(todo) \in Elements(todo)
      /\ Head(todo).at \in DOMAIN project.body[b]
      /\ Elements(todo) = {Head(todo)} \cup Elements(Tail(todo))
      /\ \A y \in Elements(Tail(todo)) : Leads(Head(todo), y)
  BY HeadStatement
<1>3. d \in Handled(b)
  BY <1>2 DEF Handled, Asked, statement
<1>4. TypeOK /\ Positions /\ DeclaredOnce /\ EmittedInTurn /\ Constructed
  BY DEF IInv, InTime, Ordered, InTextOrder, Line, Progress
<1>5. /\ file \in File /\ Place(file) = pos /\ pos \in Nat
      /\ \A c \in Class : Home(c) = file <=> Place(Home(c)) = pos
  BY <1>4, HereIsPos
<1>6. Place(Home(d)) \in Nat /\ Rank(d) \in Nat
  BY <1>1, <1>4, Where, Numbers
<1>7. Place(Home(d)) < pos => Emitted(d)
  BY <1>1, <1>4 DEF EmittedInTurn
<1>8. Home(d) = file /\ ~ Emitted(d) => b \in Class /\ Rank(b) < Rank(d)
  <2> SUFFICES ASSUME Home(d) = file, ~ Emitted(d) PROVE b \in Class /\ Rank(b) < Rank(d)
    OBVIOUS
  <2>1. Waits("generate", d)
    BY <1>1, <1>4 DEF EmittedInTurn
  <2>2. Do("generate", d, 0).op = "generate" /\ Do("generate", d, 0).of = d
    BY DEF Do
  <2>3. Do("generate", d, 0) \in Elements(Tail(todo))
    BY <1>2, <2>1, <2>2 DEF Waits
  <2>4. Leads(Head(todo), Do("generate", d, 0))
    BY <1>2, <2>3
  <2> HIDE DEF d
  <2> QED BY <1>2, <2>2, <2>4 DEF Leads, Idle
<1> HIDE DEF b, d
<1>9. CASE b \in File
  <2>1. b = file /\ b \notin Class
    BY <1>2, <1>9, NamesAssumption DEF Here
  <2>2. Place(Home(d)) <= pos
    BY <1>3, <1>5, <1>9, <2>1 DEF Ordered
  <2> QED BY <1>1, <1>5, <1>6, <1>7, <1>8, <2>1, <2>2 DEF d
<1>10. CASE b \in Class
  <2>1. Home(b) = file /\ Rank(b) \in Nat
    BY <1>2, <1>4, <1>5, <1>10, Numbers, NamesAssumption DEF Here
  <2>2. CASE d = b
    <3>1. Emitted(b)
      BY <1>2, <1>4, <1>10 DEF Constructed, b
    <3> QED BY <1>1, <2>2, <3>1 DEF d
  <2>3. CASE DeclaredBefore(d, b)
    <3>1. Place(Home(d)) < pos \/ (Home(d) = file /\ Rank(d) < Rank(b))
      BY <1>5, <2>1, <2>3 DEF DeclaredBefore
    <3> QED BY <1>1, <1>6, <1>7, <1>8, <2>1, <3>1 DEF d
  <2> QED BY <1>3, <1>10, <2>2, <2>3 DEF Ordered
<1> QED BY <1>2, <1>9, <1>10 DEF Body

\* A statement of a body is never dropped.
LEMMA NotSkipped ==
  ASSUME IInv, Ordered, InTextOrder, Skipped
  PROVE  FALSE
<1> DEFINE b == Head(todo).of
           start == Do("begin", b, 0)
<1>1. pc = "gen" /\ todo # <<>> /\ Head(todo).op = "stmt" /\ lastUnreachable
  BY DEF Skipped, Current
<1>2. /\ Head(todo) \in Elements(todo) /\ Head(todo).at \in DOMAIN project.body[b] /\ b \in Body
      /\ Elements(todo) = {Head(todo)} \cup Elements(Tail(todo)) /\ ~ Idle(Head(todo))
      /\ \A y \in Elements(Tail(todo)) : Leads(Head(todo), y)
  BY <1>1, HeadStatement
<1>3. start \in Elements(todo)
  BY <1>1, <1>2 DEF InTextOrder, Progress, FlagOfEnded, Waits
<1>4. start.op = "begin" /\ start.of = b
  BY DEF Do
<1> HIDE DEF start
<1>5. Leads(Head(todo), start)
  BY <1>1, <1>2, <1>3, <1>4
<1>6. Stage(Head(todo)) < Stage(start)
  BY <1>1, <1>2, <1>4, <1>5 DEF Leads, Idle
<1>7. Stage(Head(todo)) = 3 + Head(todo).at /\ Stage(start) = 3
  BY <1>1, <1>4 DEF Stage
<1>8. Head(todo).at \in Nat
  BY <1>1, <1>2, HeadStatement DEF Task
<1> QED BY <1>6, <1>7, <1>8

LEMMA ReturnInOrder ==
  ASSUME IInv, Ordered, InTextOrder, Return
  PROVE  InTextOrder'
<1>1. /\ pc = "gen" /\ todo # <<>> /\ Head(todo).op = "stmt" /\ statement.op = "return"
      /\ todo' = <<>> \o Tail(todo) /\ UNCHANGED <<project, pc, pos>>
      /\ UNCHANGED <<emitIn, constructible, dropped, silent>>
  BY DEF Return, Statement, Current, Continue, classVars
<1>2. Head(todo).at = Len(project.body[Head(todo).of])
  BY <1>1, JumpsAreLast
<1>3. <<>> \in Seq(Task) /\ Elements(<<>>) = {}
  BY None
<1>4. Advance(<<>>)
  BY <1>1, <1>2, <1>3 DEF Advance
<1>5. NotesEarly
  BY <1>1 DEF NotesEarly, IsEarly, statement
<1> QED BY <1>1, <1>4, <1>5, AdvanceKeeps DEF IInv, InTime

LEMMA NewInOrder ==
  ASSUME IInv, Ordered, InTextOrder, New
  PROVE  InTextOrder'
<1> DEFINE b == Head(todo).of
           i == Head(todo).at
           c == statement.of
<1>1. /\ pc = "gen" /\ todo # <<>> /\ Head(todo).op = "stmt" /\ statement.op = "new"
      /\ todo' = <<>> \o Tail(todo) /\ UNCHANGED <<project, pc, pos>>
      /\ UNCHANGED <<emitIn, constructible, lastUnreachable, dropped>>
      /\ silent' = IF c \in constructible THEN silent ELSE silent \cup {<<b, i>>}
  BY DEF New, Statement, Current, Continue
<1>2. <<>> \in Seq(Task) /\ Elements(<<>>) = {}
  BY None
<1>3. Advance(<<>>)
  BY <1>1, <1>2 DEF Advance
<1>4. b \in Body /\ i \in DOMAIN project.body[b]
  BY <1>1, HeadStatement
<1>5. c \in Class
  BY <1>1, StatementFits
<1>6. c \in constructible <=> ~ TooEarly(b, c)
  <2>1. /\ TypeOK /\ Positions /\ TasksFit /\ DeclaredOnce /\ Line /\ Constructed
    BY <1>1 DEF IInv, InTime, Ordered, InTextOrder, Progress
  <2> QED BY <1>1, <1>5, <2>1, NewByRule
<1>7. IsEarly(b, i) <=> c \notin constructible
  BY <1>1, <1>4, <1>6 DEF IsEarly, statement
<1> HIDE DEF b, i, c
<1>8. silent \subseteq silent' /\ silent' \ silent \subseteq {<<b, i>>}
      /\ (IsEarly(b, i) => <<b, i>> \in silent')
      /\ (silent' \ silent # {} => IsEarly(b, i))
  BY <1>1, <1>7
<1>9. NotesEarly
  BY <1>8 DEF NotesEarly, b, i
<1> QED BY <1>1, <1>3, <1>9, AdvanceKeeps DEF IInv, InTime

\* A throw or a catch: the class is there, its infos are asked for.
LEMMA HandlingInOrder ==
  ASSUME IInv, Ordered, InTextOrder, Current("stmt"), statement.op \in {"throw", "catch"},
         Continue(<<Do("generate", statement.of, 0), [Head(todo) EXCEPT !.op = "infos"]>>),
         lastUnreachable' => statement.op = "throw", UNCHANGED <<classVars, dropped, silent>>
  PROVE  InTextOrder'
<1> DEFINE asked == Do("generate", statement.of, 0)
           after == [Head(todo) EXCEPT !.op = "infos"]
<1>1. /\ pc = "gen" /\ todo # <<>> /\ Head(todo).op = "stmt"
      /\ todo' = <<asked, after>> \o Tail(todo) /\ UNCHANGED <<project, pc, pos>>
      /\ UNCHANGED <<emitIn, constructible>>
  BY DEF Current, Continue, classVars
<1>2. lastUnreachable' => Head(todo).at = Len(project.body[Head(todo).of])
  BY <1>1, JumpsAreLast
<1>3. statement.of \in Class /\ Emitted(statement.of)
  BY <1>1, HandledEmitted
<1>4. Idle(asked) /\ asked \in Task
  BY <1>3 DEF Idle, Do, Task, Body
<1>5. after \in Task
  BY <1>1, HeadStatement DEF Task
<1>6. Instead(after)
  BY <1>1 DEF Instead
<1> HIDE DEF asked, after
<1>7. <<asked, after>> \in Seq(Task) /\ Elements(<<asked, after>>) = {asked, after}
  BY <1>4, <1>5, Pair
<1>8. Instead(asked)
  BY <1>4 DEF Instead
<1>9. \A j, k \in DOMAIN <<asked, after>> : j < k => Idle(<<asked, after>>[j])
  BY <1>4
<1>10. Advance(<<asked, after>>)
  BY <1>1, <1>2, <1>6, <1>7, <1>8, <1>9 DEF Advance
<1>11. NotesEarly
  BY <1>1 DEF NotesEarly, IsEarly, statement
<1> QED BY <1>1, <1>10, <1>11, AdvanceKeeps DEF IInv, InTime

LEMMA ThrowInOrder ==
  ASSUME IInv, Ordered, InTextOrder, Throw
  PROVE  InTextOrder'
BY HandlingInOrder DEF Throw, Statement

LEMMA CatchInOrder ==
  ASSUME IInv, Ordered, InTextOrder, Catch
  PROVE  InTextOrder'
BY HandlingInOrder DEF Catch, Statement

LEMMA ConstructInOrder ==
  ASSUME IInv, Ordered, InTextOrder, Construct
  PROVE  InTextOrder'
<1>1. /\ pc = "gen" /\ todo # <<>> /\ Head(todo).op = "construct"
      /\ todo' = <<>> \o Tail(todo) /\ UNCHANGED <<project, pc, pos>>
      /\ UNCHANGED <<emitIn, dropped, silent>>
      /\ constructible' = constructible \cup {Head(todo).of}
      /\ lastUnreachable' => lastUnreachable
  BY DEF Construct, Current, Continue
<1>2. <<>> \in Seq(Task) /\ Elements(<<>>) = {}
  BY None
<1>3. Advance(<<>>)
  BY <1>1, <1>2 DEF Advance
<1>4. NotesEarly
  BY <1>1 DEF NotesEarly
<1> QED BY <1>1, <1>3, <1>4, AdvanceKeeps DEF IInv, InTime

-----------------------------------------------------------------------------
(***************************************************************************)
(* Class::generate of a class that is not emitted.                         *)
(***************************************************************************)
LEMMA RelatedMore ==
  ASSUME NEW s, NEW R, NEW Q, R \subseteq Q, Related(s, R)
  PROVE  Related(s, Q)
BY DEF Related

LEMMA ClassLine ==
  ASSUME TypeOK, NEW c \in Class, Superclass(c) \in Seq(Task), NEW R, InBody \subseteq R,
         \A x \in Elements(Superclass(c)), y \in Task : <<x, y>> \in R
  PROVE  LET tasks == Superclass(c) \o <<Do("typeInfo", c, 0), Do("vtable", c, 0)>>
                        \o BodyTasks(c) \o <<Do("construct", c, 0)>>
         IN /\ tasks \in Seq(Task)
            /\ Elements(tasks) = Elements(Superclass(c)) \cup {Do("typeInfo", c, 0), Do("vtable", c, 0)}
                                   \cup Elements(BodyTasks(c)) \cup {Do("construct", c, 0)}
            /\ Related(tasks, R)
<1> DEFINE two == <<Do("typeInfo", c, 0), Do("vtable", c, 0)>>
           last == <<Do("construct", c, 0)>>
           start == Superclass(c) \o two
           middle == start \o BodyTasks(c)
           tasks == Superclass(c) \o two \o BodyTasks(c) \o last
<1>1. tasks = middle \o last
  OBVIOUS
<1>2. c \in Body /\ Len(project.body[c]) \in Nat /\ DOMAIN project.body[c] = 1 .. Len(project.body[c])
  <2>1. c \in Body
    BY DEF Body
  <2>2. project.body[c] \in Seq(Stmt)
    BY <2>1, ProjectType
  <2> QED BY <2>1, <2>2, LenProperties
<1>3. /\ Do("typeInfo", c, 0) \in Task /\ Do("vtable", c, 0) \in Task /\ Do("construct", c, 0) \in Task
      /\ \A op, i : Do(op, c, i).op = op /\ Do(op, c, i).of = c
  BY <1>2 DEF Do, Task
<1>4. /\ Stage(Do("typeInfo", c, 0)) = 1 /\ Stage(Do("vtable", c, 0)) = 2
      /\ Stage(Do("construct", c, 0)) = 5 + Len(project.body[c])
  BY Stages
<1>5. BodyTasks(c) \in Seq(Task) /\ Related(BodyTasks(c), R)
  BY <1>2, BodyElements, BodyLine, RelatedMore
<1>6. \A t \in Elements(BodyTasks(c)) :
        /\ t \in Task /\ t.op # "generate" /\ t.of = c
        /\ Stage(t) \in Nat /\ 2 < Stage(t) /\ Stage(t) < 5 + Len(project.body[c])
  <2>0. \A i \in DOMAIN project.body[c] : Stage(Do("stmt", c, i)) = 3 + i
    BY <1>2, Stages
  <2>1. Stage(Do("begin", c, 0)) = 3 /\ Stage(Do("end", c, 0)) = 4 + Len(project.body[c])
    BY Stages
  <2>2. \A t \in Elements(BodyTasks(c)) : t \in Task
    BY <1>5, ElementsIn
  <2>3. ASSUME NEW t \in Elements(BodyTasks(c))
        PROVE  /\ t.op # "generate" /\ t.of = c
               /\ Stage(t) \in Nat /\ 2 < Stage(t) /\ Stage(t) < 5 + Len(project.body[c])
    <3>1. CASE t = Do("begin", c, 0)
      BY <1>2, <1>3, <2>1, <3>1
    <3>2. CASE t = Do("end", c, 0)
      BY <1>2, <1>3, <2>1, <3>2
    <3>3. CASE t \in {Do("stmt", c, i) : i \in DOMAIN project.body[c]}
      <4>1. PICK i \in DOMAIN project.body[c] : t = Do("stmt", c, i)
        BY <3>3
      <4> QED BY <1>2, <1>3, <2>0, <4>1
    <3> QED BY <1>2, <3>1, <3>2, <3>3, BodyElements
  <2> QED BY <2>2, <2>3
<1>7. two \in Seq(Task) /\ Elements(two) = {Do("typeInfo", c, 0), Do("vtable", c, 0)}
  BY <1>3, Pair
<1>8. last \in Seq(Task) /\ Elements(last) = {Do("construct", c, 0)}
  BY <1>3, Single
<1>9. <<Do("typeInfo", c, 0), Do("vtable", c, 0)>> \in R
  BY <1>3, <1>4 DEF InBody
<1>10. Related(two, R) /\ Related(last, R)
  BY <1>9, RelatedPair, RelatedSingle
<1>11. Related(Superclass(c), R)
  BY RelatedSingle DEF Superclass
<1> DEFINE super == Superclass(c)
           body == BodyTasks(c)
<1> HIDE DEF two, last, super, body
<1>12. \A x \in Elements(super), y \in Task : <<x, y>> \in R
  BY DEF super
<1>13. /\ super \o two \in Seq(Task) /\ Elements(super \o two) = Elements(super) \cup Elements(two)
  BY <1>7, ElementsConcat DEF super
<1>14. \A y \in Elements(two) : y \in Task
  BY <1>7, ElementsIn
<1>15. Related(super \o two, R)
  BY <1>7, <1>10, <1>11, <1>12, <1>14, RelatedConcat DEF super
<1> DEFINE head == super \o two
<1>h. head \in Seq(Task) /\ Elements(head) = Elements(super) \cup Elements(two) /\ Related(head, R)
  BY <1>13, <1>15
<1>b. body \in Seq(Task) /\ Related(body, R) /\ \A y \in Elements(body) : y \in Task
  BY <1>5, <1>6 DEF body
<1> HIDE DEF head
<1>16. \A x \in Elements(head), y \in Elements(body) : <<x, y>> \in R
  <2>1. ASSUME NEW x \in Elements(two), NEW y \in Elements(body) PROVE <<x, y>> \in InBody
    <3>1. y \in Task /\ y.op # "generate" /\ y.of = c /\ Stage(y) \in Nat /\ 2 < Stage(y)
      BY <1>6 DEF body
    <3>2. x \in Task /\ x.op # "generate" /\ x.of = c /\ (Stage(x) = 1 \/ Stage(x) = 2)
      BY <1>3, <1>4, <1>7
    <3> QED BY <3>1, <3>2 DEF InBody
  <2> QED BY <1>12, <1>h, <1>b, <2>1
<1>17. head \o body \in Seq(Task) /\ Elements(head \o body) = Elements(head) \cup Elements(body)
  BY <1>h, <1>b, ElementsConcat
<1>18. Related(head \o body, R)
  BY <1>16, <1>h, <1>b, RelatedConcat
<1> DEFINE front == head \o body
<1>f. front \in Seq(Task) /\ Elements(front) = Elements(head) \cup Elements(body) /\ Related(front, R)
  BY <1>17, <1>18
<1> HIDE DEF front
<1>19. \A x \in Elements(front), y \in Elements(last) : <<x, y>> \in R
  <2>1. \A x \in Elements(two) : <<x, Do("construct", c, 0)>> \in InBody
    BY <1>2, <1>3, <1>4, <1>7 DEF InBody
  <2>2. \A x \in Elements(body) : <<x, Do("construct", c, 0)>> \in InBody
    BY <1>3, <1>4, <1>6 DEF InBody, body
  <2>3. \A x \in Elements(super) : <<x, Do("construct", c, 0)>> \in R
    BY <1>3, <1>12
  <2> QED BY <1>8, <1>h, <1>f, <2>1, <2>2, <2>3
<1>20. front \o last \in Seq(Task) /\ Elements(front \o last) = Elements(front) \cup Elements(last)
  BY <1>8, <1>f, ElementsConcat
<1>21. Related(front \o last, R)
  BY <1>8, <1>10, <1>19, <1>f, RelatedConcat
<1>22. tasks = front \o last
  BY <1>1 DEF front, head, super, body, middle, start
<1>23. Elements(tasks) = Elements(super) \cup {Do("typeInfo", c, 0), Do("vtable", c, 0)}
                           \cup Elements(body) \cup {Do("construct", c, 0)}
  BY <1>7, <1>8, <1>20, <1>22, <1>h, <1>f
<1> QED BY <1>20, <1>21, <1>22, <1>23 DEF two, last, super, body

\* A superclass was generated before.
LEMMA SuperEmitted ==
  ASSUME IInv, Ordered, InTextOrder, Current("generate"), NEW c \in Class, Head(todo).of = c,
         ~ Emitted(c), project.super[c] # NoClass
  PROVE  project.super[c] \in Class /\ (project.super[c] = c \/ Emitted(project.super[c]))
<1> DEFINE d == project.super[c]
<1>1. d \in Class
  BY ProjectType DEF IInv
<1>2. d \in Ancestors(c)
  BY <1>1 DEF Ancestors, NamesAssumption
<1> HIDE DEF d
<1>3. TypeOK /\ Positions /\ DeclaredOnce /\ InLine /\ OfTheTurn /\ EmittedInTurn /\ pc = "gen" /\ todo # <<>>
      /\ Head(todo).op = "generate"
  BY DEF IInv, InTime, Ordered, InTextOrder, Line, Current
<1>4. Elements(todo) = {Head(todo)} \cup Elements(Tail(todo))
  BY <1>3, ElementsPop DEF TypeOK
<1>5. ~ Idle(Head(todo)) /\ Here(c)
  BY <1>3, <1>4 DEF Idle, OfTheTurn
<1>6. /\ file \in File /\ Place(file) = pos /\ pos \in Nat
      /\ \A e \in Class : Home(e) = file <=> Place(Home(e)) = pos
  BY <1>3, HereIsPos
<1>7. Home(c) = file /\ Rank(c) \in Nat /\ Rank(d) \in Nat
  BY <1>1, <1>3, <1>5, <1>6, Numbers, NamesAssumption DEF Here
<1>8. CASE d = c
  BY <1>1, <1>8 DEF d
<1>9. CASE DeclaredBefore(d, c)
  <2>1. CASE Place(Home(d)) < pos
    BY <1>1, <1>3, <2>1 DEF EmittedInTurn, d
  <2>2. CASE Home(d) = file /\ Rank(d) < Rank(c)
    <3> SUFFICES ASSUME ~ Emitted(d) PROVE FALSE
      BY <1>1 DEF d
    <3>1. Waits("generate", d)
      BY <1>1, <1>3, <2>2 DEF EmittedInTurn
    <3>2. Do("generate", d, 0).op = "generate" /\ Do("generate", d, 0).of = d
      BY DEF Do
    <3>3. d # c
      BY <1>7, <2>2
    <3>4. Do("generate", d, 0) \in Elements(Tail(todo))
      BY <1>4, <3>1, <3>2, <3>3 DEF Waits
    <3>5. Leads(Head(todo), Do("generate", d, 0))
      BY <1>3, <3>4, HeadLeads
    <3>6. Rank(c) < Rank(d)
      BY <1>5, <3>2, <3>5 DEF Leads, Idle
    <3> QED BY <1>7, <2>2, <3>6
  <2> QED BY <1>6, <1>7, <1>9, <2>1, <2>2 DEF DeclaredBefore
<1> QED BY <1>2, <1>8, <1>9 DEF Ordered

LedAfter == {p \in Task \X Task : Leads(p[1], p[2])'}

Expand(c, tasks) ==
  /\ pc = "gen" /\ todo # <<>> /\ c \in Class /\ ~ Emitted(c)
  /\ Head(todo).op = "generate" /\ Head(todo).of = c
  /\ tasks \in Seq(Task) /\ todo' = tasks \o Tail(todo)
  /\ UNCHANGED <<project, pc, pos, constructible, lastUnreachable, dropped, silent>>
  /\ \A d \in Class : Emitted(d)' <=> d = c \/ Emitted(d)
  /\ \A x \in Elements(tasks) : Idle(x)' \/ (x.op # "generate" /\ x.of = c)
  /\ Do("begin", c, 0) \in Elements(tasks) /\ Do("construct", c, 0) \in Elements(tasks)
  /\ Do("typeInfo", c, 0) \in Elements(tasks) /\ \A x \in Elements(tasks) : x.op # "infos"
  /\ \A i \in DOMAIN project.body[c] : Do("stmt", c, i) \in Elements(tasks)

LEMMA ExpandTasks ==
  ASSUME TypeOK, TasksFit, Line, NEW c, NEW tasks, Expand(c, tasks)
  PROVE  /\ \A t \in Elements(todo) : Idle(t) => Idle(t)'
         /\ file' = file
         /\ Head(todo) \in Task /\ ~ Idle(Head(todo)) /\ Here(c)
         /\ Elements(todo) = {Head(todo)} \cup Elements(Tail(todo))
         /\ Elements(todo') = Elements(tasks) \cup Elements(Tail(todo))
         /\ \A y \in Elements(Tail(todo)) : Leads(Head(todo), y)
         /\ \A t \in Elements(todo') : ~ Idle(t)' =>
              (t.op # "generate" /\ t.of = c) \/ (t \in Elements(Tail(todo)) /\ ~ Idle(t))
         /\ \A op, b : Waits(op, b) /\ op # "generate" => Waits(op, b)'
         /\ \A b : Here(b)' = Here(b)
<1>1. todo \in Seq(Task) /\ todo # <<>>
  BY DEF TypeOK, Expand
<1>2. /\ Head(todo) \in Task
      /\ Elements(todo) = {Head(todo)} \cup Elements(Tail(todo))
      /\ Elements(todo') = Elements(tasks) \cup Elements(Tail(todo))
  BY <1>1, Continued DEF Expand
<1>3. \A t \in Elements(todo) : Idle(t) => Idle(t)'
  BY DEF Idle, TasksFit, Fit, Expand
<1>4. UNCHANGED <<project, pos>> /\ file' = file
  BY DEF Expand, file
<1>5. ~ Idle(Head(todo)) /\ Here(c)
  BY <1>2 DEF Idle, Expand, Line, OfTheTurn
<1>6. \A y \in Elements(Tail(todo)) : Leads(Head(todo), y)
  BY <1>1, HeadLeads DEF Line
<1>7. \A t \in Elements(todo') : ~ Idle(t)' =>
        (t.op # "generate" /\ t.of = c) \/ (t \in Elements(Tail(todo)) /\ ~ Idle(t))
  BY <1>2, <1>3 DEF Expand
<1>8. \A op, b : Waits(op, b) /\ op # "generate" => Waits(op, b)'
  BY <1>2 DEF Waits, Do, Expand
<1>9. \A b : Here(b)' = Here(b)
  BY <1>4, SameText DEF Here
<1> QED BY <1>2, <1>3, <1>4, <1>5, <1>6, <1>7, <1>8, <1>9

LEMMA ExpandLine ==
  ASSUME TypeOK, TasksFit, Line, NEW c, NEW tasks, Expand(c, tasks), Related(tasks, LedAfter)
  PROVE  InLine' /\ OfTheTurn'
<1>1. /\ todo \in Seq(Task) /\ tasks \in Seq(Task) /\ Tail(todo) \in Seq(Task)
      /\ todo' = tasks \o Tail(todo) /\ todo # <<>> /\ project' = project
  BY ElementsPop DEF TypeOK, Expand
<1>2. \A t : Stage(t)' = Stage(t)
  BY <1>1, SameText
<1>3. \A d : Rank(d)' = Rank(d)
  BY <1>1, SameText
<1>4. Related(Tail(todo), LedAfter)
  <2>1. Related(todo, InLineWith)
    BY <1>1, LineIsRelated DEF Line
  <2>2. Related(Tail(todo), InLineWith)
    BY <1>1, <2>1, RelatedPop
  <2>3. ASSUME NEW t \in Elements(todo), NEW u \in Elements(todo), Leads(t, u) PROVE Leads(t, u)'
    <3>1. (Idle(t) => Idle(t)') /\ (Idle(u) => Idle(u)')
      BY ExpandTasks
    <3> QED BY <1>2, <1>3, <2>3, <3>1 DEF Leads
  <2>4. \A i \in DOMAIN Tail(todo) : Tail(todo)[i] \in Elements(todo)
    BY ExpandTasks DEF Elements
  <2> QED BY <2>2, <2>3, <2>4 DEF Related, InLineWith, LedAfter
<1>5. ASSUME NEW x \in Elements(tasks), NEW y \in Elements(Tail(todo)) PROVE <<x, y>> \in LedAfter
  <2>1. x \in Task /\ y \in Task
    BY <1>1, ElementsIn
  <2>2. CASE Idle(x)' \/ Idle(y)'
    BY <2>1, <2>2 DEF LedAfter, Leads
  <2>3. CASE ~ Idle(x)' /\ ~ Idle(y)'
    <3>1. x.op # "generate" /\ x.of = c /\ c \in Class
      BY <2>3 DEF Expand
    <3>2. ~ Idle(y) /\ ~ Idle(Head(todo)) /\ Leads(Head(todo), y)
      BY <2>3, ExpandTasks
    <3>3. /\ y.op = "generate" => Rank(c) < Rank(y.of)
          /\ y.op # "generate" => y.of \notin Class
      BY <3>2 DEF Leads, Expand
    <3>4. Leads(x, y)'
      BY <1>2, <1>3, <3>1, <3>3 DEF Leads
    <3> QED BY <2>1, <3>4 DEF LedAfter
  <2> QED BY <2>2, <2>3
<1>6. Related(todo', LedAfter)
  BY <1>1, <1>4, <1>5, RelatedConcat
<1>7. InLine'
  <2>1. \A x, y : <<x, y>> \in LedAfter => Leads(x, y)'
    BY DEF LedAfter
  <2>2. \A i, j \in DOMAIN todo' : i < j => <<todo'[i], todo'[j]>> \in LedAfter
    BY <1>6 DEF Related
  <2> QED BY <2>1, <2>2 DEF InLine
<1>8. OfTheTurn'
  <2> SUFFICES ASSUME NEW t \in Elements(todo'), ~ Idle(t)' PROVE Here(t.of)
    BY ExpandTasks DEF OfTheTurn
  <2> QED BY ExpandTasks DEF Line, OfTheTurn
<1> QED BY <1>7, <1>8

LEMMA ExpandEmission ==
  ASSUME TypeOK, Positions, TasksFit, DeclaredOnce, Line, NEW c, NEW tasks, Expand(c, tasks)
  PROVE  EmittedInTurn' /\ InOrder'
<1>1. /\ pc = "gen" /\ c \in Class /\ UNCHANGED <<project, pos>> /\ EmittedInTurn /\ InOrder
      /\ Head(todo).op = "generate" /\ Head(todo).of = c
      /\ \A d \in Class : Emitted(d)' <=> d = c \/ Emitted(d)
  BY DEF Expand, Line
<1>2. /\ file' = file /\ Head(todo) \in Task /\ ~ Idle(Head(todo)) /\ Here(c)
      /\ Elements(todo) = {Head(todo)} \cup Elements(Tail(todo))
      /\ Elements(todo') = Elements(tasks) \cup Elements(Tail(todo))
  BY ExpandTasks
<1>3. /\ file \in File /\ Place(file) = pos /\ pos \in Nat
      /\ \A d \in Class : Home(d) = file <=> Place(Home(d)) = pos
  BY <1>1, HereIsPos
<1>4. Home(c) = file /\ Place(Home(c)) = pos
  BY <1>1, <1>2, <1>3, NamesAssumption DEF Here
<1>5. \A d : Rank(d)' = Rank(d) /\ Home(d)' = Home(d)
  BY <1>1, SameText
<1>6. \A f : Place(f)' = Place(f)
  BY <1>1, SameText
<1>7. EmittedInTurn'
  <2> SUFFICES ASSUME NEW d \in Class
               PROVE  /\ Place(Home(d)) < pos => Emitted(d)'
                      /\ Emitted(d)' => Place(Home(d)) <= pos
                      /\ Home(d) = file => Emitted(d)' \/ Waits("generate", d)'
    BY <1>1, <1>2, <1>5, <1>6 DEF EmittedInTurn
  <2>1. Place(Home(d)) < pos => Emitted(d)'
    BY <1>1 DEF EmittedInTurn
  <2>2. Emitted(d)' => Place(Home(d)) <= pos
    BY <1>1, <1>3, <1>4 DEF EmittedInTurn
  <2>3. Home(d) = file => Emitted(d)' \/ Waits("generate", d)'
    <3>1. Waits("generate", d) => d = c \/ Waits("generate", d)'
      BY <1>1, <1>2 DEF Waits, Do
    <3> QED BY <1>1, <3>1 DEF EmittedInTurn
  <2> QED BY <2>1, <2>2, <2>3
<1>8. InOrder'
  <2> SUFFICES ASSUME NEW t \in Elements(todo'), NEW d \in Class,
                      ~ Idle(t)', t.of \in Class, Emitted(d)', Home(d) = file
               PROVE  Rank(d) <= Rank(t.of)
    BY <1>2, <1>5 DEF InOrder
  <2>1. Rank(c) \in Nat /\ Rank(t.of) \in Nat
    BY <1>1, Numbers
  <2>2. Emitted(d) => Rank(d) <= Rank(c)
    BY <1>1, <1>2 DEF InOrder
  <2>3. CASE t.op # "generate" /\ t.of = c
    BY <1>1, <2>1, <2>2, <2>3
  <2>4. CASE t \in Elements(Tail(todo)) /\ ~ Idle(t)
    <3>1. Leads(Head(todo), t)
      BY <2>4, ExpandTasks
    <3>2. Rank(c) < Rank(t.of)
      BY <1>1, <1>2, <2>4, <3>1 DEF Leads
    <3>3. Emitted(d) => Rank(d) <= Rank(t.of)
      BY <1>1, <1>2, <2>4 DEF InOrder
    <3> QED BY <1>1, <2>1, <3>2, <3>3
  <2> QED BY <2>3, <2>4, ExpandTasks
<1> QED BY <1>7, <1>8

LEMMA ExpandProgress ==
  ASSUME TypeOK, TasksFit, Line, Progress, OnlyEarly, NEW c, NEW tasks, Expand(c, tasks)
  PROVE  Progress' /\ OnlyEarly'
<1>1. /\ c \in Class /\ ~ Emitted(c) /\ UNCHANGED <<project, pos, constructible, lastUnreachable, silent>>
      /\ Head(todo).op = "generate" /\ Head(todo).of = c
      /\ \A d \in Class : Emitted(d)' <=> d = c \/ Emitted(d)
      /\ Do("begin", c, 0) \in Elements(tasks) /\ Do("construct", c, 0) \in Elements(tasks)
      /\ \A i \in DOMAIN project.body[c] : Do("stmt", c, i) \in Elements(tasks)
  BY DEF Expand
<1>2. /\ file' = file /\ ~ Idle(Head(todo))
      /\ Elements(todo) = {Head(todo)} \cup Elements(Tail(todo))
      /\ Elements(todo') = Elements(tasks) \cup Elements(Tail(todo))
      /\ \A op, b : Waits(op, b) /\ op # "generate" => Waits(op, b)'
  BY ExpandTasks
<1>3. Constructed /\ FlagOfEnded /\ FileLast /\ EarlyCounted
  BY DEF Progress
<1>4. \A t \in Elements(todo') : ~ Idle(t)' =>
        (t.op # "generate" /\ t.of = c) \/ (t \in Elements(Tail(todo)) /\ ~ Idle(t))
  BY ExpandTasks
<1>5. \A t : t.op # "generate" => ~ Idle(t)'
  BY DEF Idle
<1>6. \A t \in Elements(todo') : t.op # "generate" => t.of = c \/ t \in Elements(todo)
  BY <1>2, <1>4, <1>5
<1>7. Waits("begin", c)' /\ Waits("construct", c)'
  BY <1>1, <1>2 DEF Waits
<1>8. Constructed'
  <2> SUFFICES ASSUME NEW d \in Class
               PROVE  /\ Emitted(d)' => d \in constructible \/ Waits("construct", d)'
                      /\ d \in constructible => Emitted(d)'
                      /\ \A t \in Elements(todo') :
                           t.op # "generate" /\ t.of = d =>
                             Emitted(d)' /\ d \notin constructible /\ Waits("construct", d)'
    BY <1>1 DEF Constructed
  <2>1. Emitted(d)' => d \in constructible \/ Waits("construct", d)'
    BY <1>1, <1>2, <1>3, <1>7 DEF Constructed
  <2>2. d \in constructible => Emitted(d)'
    BY <1>1, <1>3 DEF Constructed
  <2>3. c \notin constructible
    BY <1>1, <1>3 DEF Constructed
  <2>4. ASSUME NEW t \in Elements(todo'), t.op # "generate", t.of = d
        PROVE  Emitted(d)' /\ d \notin constructible /\ Waits("construct", d)'
    <3>1. CASE d = c
      BY <1>1, <1>7, <2>3, <3>1
    <3>2. CASE d # c
      <4>1. t \in Elements(todo)
        BY <1>6, <2>4, <3>2
      <4> QED BY <1>1, <1>2, <1>3, <2>4, <4>1 DEF Constructed
    <3> QED BY <3>1, <3>2
  <2> QED BY <2>1, <2>2, <2>4
<1>9. FlagOfEnded'
  <2> SUFFICES ASSUME lastUnreachable, NEW t \in Elements(todo'), t.op = "stmt"
               PROVE  Waits("begin", t.of)'
    BY <1>1 DEF FlagOfEnded
  <2>1. t.of = c \/ t \in Elements(todo)
    BY <1>6
  <2> QED BY <1>2, <1>3, <1>7, <2>1 DEF FlagOfEnded
<1>10. FileLast'
  <2> SUFFICES ASSUME NEW t \in Elements(todo'), ~ Idle(t)', t.of \in Class
               PROVE  Waits("begin", file)'
    BY <1>2 DEF FileLast
  <2>1. Waits("begin", file)
    BY <1>1, <1>2, <1>3 DEF FileLast
  <2> QED BY <1>2, <2>1
<1>11. \A b, i : IsEarly(b, i)' = IsEarly(b, i)
  BY <1>1, SameText
<1>12. \A f : Place(f)' = Place(f)
  BY <1>1, SameText
<1>13. EarlyCounted'
  <2> SUFFICES ASSUME NEW b \in Body, NEW i \in Nat, IsEarly(b, i), <<b, i>> \notin silent
               PROVE  Pending(b, i)'
    BY <1>1, <1>11 DEF EarlyCounted
  <2>1. Pending(b, i)
    BY <1>3 DEF EarlyCounted
  <2>2. CASE Do("stmt", b, i) \in Elements(todo)
    <3>1. Do("stmt", b, i).op = "stmt"
      BY DEF Do
    <3>2. Do("stmt", b, i) \in Elements(todo')
      BY <1>1, <1>2, <2>2, <3>1
    <3> QED BY <3>2 DEF Pending
  <2>3. CASE b \in Class /\ ~ Emitted(b)
    <3>1. CASE b = c
      <4>1. i \in DOMAIN project.body[c]
        BY <3>1 DEF IsEarly
      <4>2. Do("stmt", b, i) \in Elements(todo')
        BY <1>1, <1>2, <3>1, <4>1
      <4> QED BY <4>2 DEF Pending
    <3>2. CASE b # c
      BY <1>1, <2>3, <3>2 DEF Pending
    <3> QED BY <3>1, <3>2
  <2>4. CASE b \in File /\ Place(b) > pos
    BY <1>1, <1>12, <2>4 DEF Pending
  <2> QED BY <2>1, <2>2, <2>3, <2>4 DEF Pending
<1>14. OnlyEarly'
  BY <1>1, <1>11 DEF OnlyEarly
<1> QED BY <1>8, <1>9, <1>10, <1>13, <1>14 DEF Progress

LEMMA GenerateClassExpands ==
  ASSUME IInv, Ordered, InTextOrder, GenerateClass
  PROVE  \E c \in Class, tasks \in Seq(Task) : Expand(c, tasks) /\ Related(tasks, LedAfter)
<1> DEFINE c == Head(todo).of
           tasks == Superclass(c) \o <<Do("typeInfo", c, 0), Do("vtable", c, 0)>>
                      \o BodyTasks(c) \o <<Do("construct", c, 0)>>
<1>1. /\ pc = "gen" /\ todo # <<>> /\ Head(todo).op = "generate" /\ Current("generate")
      /\ ~ Emitted(c) /\ emitIn' = [emitIn EXCEPT ![c] = file] /\ Continue(tasks)
      /\ UNCHANGED <<constructible, lastUnreachable, dropped, silent>>
  BY DEF GenerateClass, Current, Emitted, bodyVars
<1>2. c \in Class
  BY <1>1, HeadFits DEF Fit
<1>3. file \in File /\ file # NoFile
  BY <1>1, CurrentFile, NamesAssumption DEF IInv, InTime, Body
<1>4. \A d \in Class : Emitted(d)' <=> d = c \/ Emitted(d)
  BY <1>1, <1>2, <1>3 DEF IInv, TypeOK, Emitted
<1>5. Superclass(c) \in Seq(Task)
  BY <1>2, SuperclassFits
<1>6. \A x \in Elements(Superclass(c)) : Idle(x)'
  <2>1. CASE project.super[c] = NoClass
    BY <2>1, None DEF Superclass
  <2>2. CASE project.super[c] # NoClass
    <3>1. PICK d \in Class : d = project.super[c] /\ (d = c \/ Emitted(d))
      BY <1>1, <1>2, <2>2, SuperEmitted
    <3> DEFINE task == Do("generate", d, 0)
    <3>2. task \in Task /\ task.op = "generate" /\ task.of = d
      BY DEF Do, Task, Body
    <3>3. Superclass(c) = <<task>>
      BY <2>2, <3>1 DEF Superclass
    <3>4. Emitted(d)'
      BY <1>4, <3>1
    <3> HIDE DEF task, c
    <3>5. Elements(Superclass(c)) = {task}
      BY <3>2, <3>3, Single
    <3>6. Idle(task)'
      BY <3>2, <3>4 DEF Idle
    <3> QED BY <3>5, <3>6
  <2> QED BY <2>1, <2>2
<1> HIDE DEF c
<1>7. project' = project
  BY <1>1 DEF Continue
<1>8. InBody \subseteq LedAfter
  <2>1. \A t : Stage(t)' = Stage(t)
    BY <1>7, SameText
  <2>2. \A t, u : t.op # "generate" /\ u.op # "generate" /\ t.of = u.of /\ Stage(t) < Stage(u) => Leads(t, u)'
    BY <2>1 DEF Leads
  <2> QED BY <2>2 DEF InBody, LedAfter
<1>9. \A x \in Elements(Superclass(c)), y \in Task : <<x, y>> \in LedAfter
  <2>1. \A x \in Elements(Superclass(c)) : x \in Task
    BY <1>5, ElementsIn
  <2> QED BY <1>6, <2>1 DEF LedAfter, Leads
<1>10. /\ tasks \in Seq(Task)
       /\ Elements(tasks) = Elements(Superclass(c)) \cup {Do("typeInfo", c, 0), Do("vtable", c, 0)}
                              \cup Elements(BodyTasks(c)) \cup {Do("construct", c, 0)}
       /\ Related(tasks, LedAfter)
  BY <1>2, <1>5, <1>8, <1>9, ClassLine DEF IInv
<1> HIDE DEF tasks
<1>11. Elements(BodyTasks(c)) =
         {Do("begin", c, 0), Do("end", c, 0)} \cup {Do("stmt", c, i) : i \in DOMAIN project.body[c]}
  BY <1>2, BodyElements DEF IInv, Body
<1>12. \A op, i : Do(op, c, i).op = op /\ Do(op, c, i).of = c
  BY DEF Do
<1>13. \A x \in Elements(tasks) : Idle(x)' \/ (x.op # "generate" /\ x.of = c)
  <2>1. \A x \in Elements(BodyTasks(c)) : x.op # "generate" /\ x.of = c
    BY <1>11, <1>12
  <2>2. \A x \in {Do("typeInfo", c, 0), Do("vtable", c, 0), Do("construct", c, 0)} :
          x.op # "generate" /\ x.of = c
    BY <1>12
  <2> QED BY <1>6, <1>10, <2>1, <2>2
<1>14. Head(todo).of = c
  BY DEF c
<1>15. \A x \in Elements(tasks) : x.op # "infos"
  <2>1. \A x \in Elements(BodyTasks(c)) : x.op # "infos"
    BY <1>11, <1>12
  <2>2. \A x \in {Do("typeInfo", c, 0), Do("vtable", c, 0), Do("construct", c, 0)} : x.op # "infos"
    BY <1>12
  <2>3. \A x \in Elements(Superclass(c)) : x.op # "infos"
    BY <1>6 DEF Idle
  <2> QED BY <1>10, <2>1, <2>2, <2>3
<1>16. Expand(c, tasks)
  BY <1>1, <1>2, <1>4, <1>10, <1>11, <1>13, <1>14, <1>15 DEF Expand, Continue
<1> QED BY <1>2, <1>10, <1>16

LEMMA GenerateClassInOrder ==
  ASSUME IInv, Ordered, InTextOrder, GenerateClass
  PROVE  InTextOrder'
<1>1. PICK c \in Class, tasks \in Seq(Task) : Expand(c, tasks) /\ Related(tasks, LedAfter)
  BY GenerateClassExpands
<1>2. pc = "gen"
  BY <1>1 DEF Expand
<1>3. TypeOK /\ Positions /\ TasksFit /\ DeclaredOnce /\ Line /\ Progress /\ OnlyEarly /\ dropped = {}
  BY <1>2 DEF IInv, InTime, Ordered, InTextOrder
<1>4. InLine' /\ OfTheTurn'
  BY <1>1, <1>3, ExpandLine
<1>5. EmittedInTurn' /\ InOrder'
  BY <1>1, <1>3, ExpandEmission
<1>6. Progress' /\ OnlyEarly'
  BY <1>1, <1>3, ExpandProgress
<1>7. pc' = "gen" /\ dropped' = {}
  BY <1>1, <1>3 DEF Expand
<1> QED BY <1>4, <1>5, <1>6, <1>7 DEF InTextOrder, Line

-----------------------------------------------------------------------------
(***************************************************************************)
(* The turn of a file.                                                     *)
(***************************************************************************)
LEMMA TurnLine ==
  ASSUME TypeOK, DeclaredOnce, NEW f \in File
  PROVE  /\ Turn(f) \in Seq(Task)
         /\ Related(Turn(f), InLineWith)
         /\ Elements(Turn(f)) = {Do("generate", c, 0) : c \in Elements(project.types[f])}
                                  \cup Elements(BodyTasks(f))
<1> DEFINE types == [i \in DOMAIN project.types[f] |-> Do("generate", project.types[f][i], 0)]
           body == BodyTasks(f)
<1>1. f \in Body /\ f \notin Class
  BY NamesAssumption DEF Body
<1>2. /\ DOMAIN project.types[f] = 1 .. Len(project.types[f]) /\ Len(project.types[f]) \in Nat
      /\ \A i \in DOMAIN project.types[f] : project.types[f][i] \in Class
  <2>1. project.types[f] \in Seq(Class)
    BY ProjectType
  <2> QED BY <2>1, LenProperties, ElementOfSeq
<1>3. \A c \in Class : /\ Do("generate", c, 0) \in Task
                       /\ Do("generate", c, 0).op = "generate" /\ Do("generate", c, 0).of = c
  BY DEF Do, Task, Body
<1>4. types \in Seq(Task)
  <2>1. \A i \in 1 .. Len(project.types[f]) : Do("generate", project.types[f][i], 0) \in Task
    BY <1>2, <1>3
  <2> QED BY <1>2, <2>1, SeqDef
<1>5. Elements(types) = {Do("generate", c, 0) : c \in Elements(project.types[f])}
  BY DEF Elements
<1>6. Related(types, InLineWith)
  <2> SUFFICES ASSUME NEW i \in DOMAIN project.types[f], NEW j \in DOMAIN project.types[f], i < j
               PROVE  <<types[i], types[j]>> \in InLineWith
    BY DEF Related
  <2> DEFINE c == project.types[f][i]
             d == project.types[f][j]
  <2>1. c \in Class /\ d \in Class /\ Rank(c) = i /\ Rank(d) = j
    BY <1>2, Where
  <2>2. types[i] = Do("generate", c, 0) /\ types[j] = Do("generate", d, 0)
    OBVIOUS
  <2> HIDE DEF c, d, types
  <2>3. Leads(Do("generate", c, 0), Do("generate", d, 0))
    BY <1>3, <2>1 DEF Leads
  <2> QED BY <1>3, <2>1, <2>2, <2>3 DEF InLineWith
<1>7. body \in Seq(Task) /\ Related(body, InLineWith)
  BY <1>1, BodyElements, BodyLine, InBodyLeads, RelatedMore
<1>8. \A y \in Elements(body) : y.op # "generate" /\ y.of = f /\ y \in Task
  <2>1. \A op, i : Do(op, f, i).op = op /\ Do(op, f, i).of = f
    BY DEF Do
  <2>2. Elements(body) = {Do("begin", f, 0), Do("end", f, 0)} \cup {Do("stmt", f, i) : i \in DOMAIN project.body[f]}
    BY <1>1, BodyElements
  <2> QED BY <1>7, <2>1, <2>2, ElementsIn
<1>9. Turn(f) = types \o body
  BY DEF Turn
<1> HIDE DEF types, body
<1>10. \A x \in Elements(types), y \in Elements(body) : <<x, y>> \in InLineWith
  <2>1. \A x \in Elements(types) : x \in Task /\ x.op = "generate"
    <3>1. \A c \in Elements(project.types[f]) : c \in Class
      BY <1>2 DEF Elements
    <3> QED BY <1>3, <1>5, <3>1
  <2>2. \A x \in Elements(types), y \in Elements(body) : Leads(x, y)
    BY <1>1, <1>8, <2>1 DEF Leads
  <2> QED BY <1>8, <2>1, <2>2 DEF InLineWith
<1>11. /\ types \o body \in Seq(Task) /\ Elements(types \o body) = Elements(types) \cup Elements(body)
       /\ Related(types \o body, InLineWith)
  BY <1>4, <1>6, <1>7, <1>10, ElementsConcat, RelatedConcat
<1> QED BY <1>5, <1>9, <1>11 DEF body

\* A turn begins when all that comes before it is there and nothing else.
Opens ==
  /\ pc' = "gen" /\ pos' \in DOMAIN project.order /\ todo' = Turn(project.order[pos'])
  /\ UNCHANGED <<project, emitIn, constructible, lastUnreachable, dropped, silent>>
  /\ \A c \in Class : /\ Emitted(c) <=> Place(Home(c)) < pos'
                      /\ Emitted(c) <=> c \in constructible
  /\ \A b \in Body : \A i \in Nat : IsEarly(b, i) =>
       \/ b \in Class /\ ~ Emitted(b)
       \/ b \in File /\ Place(b) >= pos'
       \/ <<b, i>> \in silent

LEMMA TurnOpens ==
  ASSUME TypeOK, DeclaredOnce, dropped = {}, OnlyEarly, Opens
  PROVE  InTextOrder'
<1>0. PICK f \in File : f = project.order[pos']
  BY ProjectType DEF Opens
<1>1. f \in File /\ f \notin Class /\ f \in Body /\ Place(f) = pos' /\ pos' \in Nat
  BY <1>0, Where, ProjectType, NamesAssumption DEF Opens, Body
<1>2. file' = f
  BY <1>0 DEF Opens, file
<1>3. UNCHANGED <<project, emitIn, constructible, lastUnreachable, dropped, silent>> /\ todo' = Turn(f)
  BY <1>0 DEF Opens
<1>4. /\ \A c : Home(c)' = Home(c) /\ Rank(c)' = Rank(c)
      /\ \A t : Stage(t)' = Stage(t)
  BY <1>3, SameText
<1>5. /\ \A g : Place(g)' = Place(g)
      /\ \A b, i : IsEarly(b, i)' = IsEarly(b, i)
  BY <1>3, SameText
<1>6. \A c : Emitted(c)' = Emitted(c)
  BY <1>3 DEF Emitted
<1>7. /\ todo' \in Seq(Task) /\ Related(todo', InLineWith)
      /\ Elements(todo') = {Do("generate", c, 0) : c \in Elements(project.types[f])}
                             \cup Elements(BodyTasks(f))
  BY <1>1, <1>3, TurnLine
<1>8. Elements(BodyTasks(f)) =
        {Do("begin", f, 0), Do("end", f, 0)} \cup {Do("stmt", f, i) : i \in DOMAIN project.body[f]}
  BY <1>1, BodyElements
<1>9. \A op, b, i : Do(op, b, i).op = op /\ Do(op, b, i).of = b
  BY DEF Do
<1>10. \A t \in Elements(todo') :
         \/ t.op = "generate" /\ t.of \in Elements(project.types[f])
         \/ t.op # "generate" /\ t.of = f
  <2>1. \A t \in Elements(BodyTasks(f)) : t.op # "generate" /\ t.of = f
    BY <1>8, <1>9
  <2> QED BY <1>7, <1>9, <2>1
<1>11. \A c \in Elements(project.types[f]) : c \in Class /\ Home(c) = f
  BY <1>1, Where DEF Elements
<1>12. \A c \in Class : Home(c) = f => c \in Elements(project.types[f])
  BY Where DEF Elements
<1>13. Waits("begin", f)'
  BY <1>7, <1>8 DEF Waits
<1>14. InLine'
  <2>1. \A t, u : Leads(t, u)' = Leads(t, u)
    BY <1>4, <1>6 DEF Leads, Idle
  <2>2. \A i, j \in DOMAIN todo' : i < j => Leads(todo'[i], todo'[j])
    BY <1>7 DEF Related, InLineWith
  <2> QED BY <2>1, <2>2 DEF InLine
<1>15. \A c \in Class : Emitted(c) <=> Place(Home(c)) < pos'
  BY DEF Opens
<1>16. OfTheTurn'
  <2>1. \A t \in Elements(todo') : t.of = f \/ (t.of \in Class /\ Home(t.of) = f)
    BY <1>10, <1>11
  <2> QED BY <1>2, <1>4, <2>1 DEF OfTheTurn, Here
<1>17. EmittedInTurn'
  <2> SUFFICES ASSUME NEW c \in Class
               PROVE  /\ Place(Home(c)) < pos' => Emitted(c)
                      /\ Emitted(c) => Place(Home(c)) <= pos'
                      /\ Home(c) = f => Waits("generate", c)'
    BY <1>2, <1>4, <1>5, <1>6 DEF EmittedInTurn
  <2>1. Emitted(c) => Place(Home(c)) <= pos'
    BY <1>1, <1>15, Where, Numbers
  <2>2. Home(c) = f => Waits("generate", c)'
    BY <1>7, <1>12 DEF Waits
  <2> QED BY <1>15, <2>1, <2>2
<1>18. InOrder'
  <2> SUFFICES ASSUME NEW d \in Class, Emitted(d), Home(d) = f PROVE FALSE
    BY <1>2, <1>4, <1>6 DEF InOrder
  <2> QED BY <1>1, <1>15
<1>19. Constructed'
  <2> SUFFICES ASSUME NEW c \in Class
               PROVE  /\ Emitted(c) <=> c \in constructible
                      /\ \A t \in Elements(todo') : ~ (t.op # "generate" /\ t.of = c)
    BY <1>3, <1>6 DEF Constructed
  <2> QED BY <1>1, <1>10 DEF Opens
<1>20. FlagOfEnded'
  <2>1. \A t \in Elements(todo') : t.op = "stmt" => t.of = f
    BY <1>10
  <2> QED BY <1>13, <2>1 DEF FlagOfEnded
<1>21. FileLast'
  BY <1>2, <1>13 DEF FileLast
<1>22. EarlyCounted'
  <2> SUFFICES ASSUME NEW b \in Body, NEW i \in Nat, IsEarly(b, i), <<b, i>> \notin silent
               PROVE  Pending(b, i)'
    BY <1>3, <1>5 DEF EarlyCounted
  <2>1. CASE b \in Class /\ ~ Emitted(b)
    BY <1>6, <2>1 DEF Pending
  <2>2. CASE b \in File /\ Place(b) >= pos'
    <3>1. CASE b = f
      <4>1. i \in DOMAIN project.body[f]
        BY <3>1 DEF IsEarly
      <4>2. Do("stmt", b, i) \in Elements(todo')
        BY <1>7, <1>8, <3>1, <4>1
      <4> QED BY <4>2 DEF Pending
    <3>2. CASE b # f
      <4>1. Place(b) > pos'
        BY <1>1, <2>2, <3>2, Numbers
      <4> QED BY <1>5, <2>2, <4>1 DEF Pending
    <3> QED BY <3>1, <3>2
  <2> QED BY <2>1, <2>2 DEF Opens
<1>23. OnlyEarly' /\ dropped' = {} /\ pc' = "gen"
  BY <1>3, <1>5 DEF OnlyEarly, Opens
<1> QED BY <1>14, <1>16, <1>17, <1>18, <1>19, <1>20, <1>21, <1>22, <1>23 DEF InTextOrder, Line, Progress

\* What the invariant says depends on these variables only.
LEMMA TextUnchanged ==
  ASSUME UNCHANGED <<project, pos, todo, emitIn, constructible, lastUnreachable, silent>>
  PROVE  Line' = Line /\ Progress' = Progress /\ OnlyEarly' = OnlyEarly
<1>1. /\ \A c : Home(c)' = Home(c) /\ Rank(c)' = Rank(c)
      /\ \A t : Stage(t)' = Stage(t)
  BY SameText
<1>2. /\ \A f : Place(f)' = Place(f)
      /\ \A b, i : IsEarly(b, i)' = IsEarly(b, i)
  BY SameText
<1>3. /\ \A c : Emitted(c)' = Emitted(c)
      /\ \A t : Idle(t)' = Idle(t)
      /\ \A op, b : Waits(op, b)' = Waits(op, b)
      /\ file' = file
  BY DEF Emitted, Idle, Waits, file
<1>4. \A t, u : Leads(t, u)' = Leads(t, u)
  BY <1>1, <1>3 DEF Leads
<1>5. \A b : Here(b)' = Here(b)
  BY <1>1, <1>3 DEF Here
<1>6. \A b, i : Pending(b, i)' = Pending(b, i)
  BY <1>2, <1>3 DEF Pending
<1>7. InLine' = InLine
  BY <1>4 DEF InLine
<1>8. OfTheTurn' = OfTheTurn /\ EmittedInTurn' = EmittedInTurn /\ InOrder' = InOrder
  BY <1>1, <1>2, <1>3, <1>5 DEF OfTheTurn, EmittedInTurn, InOrder
<1>9. Constructed' = Constructed /\ FlagOfEnded' = FlagOfEnded /\ FileLast' = FileLast
  BY <1>3 DEF Constructed, FlagOfEnded, FileLast
<1>10. EarlyCounted' = EarlyCounted /\ OnlyEarly' = OnlyEarly
  BY <1>2, <1>6 DEF EarlyCounted, OnlyEarly
<1> QED BY <1>7, <1>8, <1>9, <1>10 DEF Line, Progress

LEMMA StartGenInOrder ==
  ASSUME IInv, Ordered, InTextOrder, StartGen
  PROVE  InTextOrder'
<1>1. /\ pc = "sigs" /\ pc' = "gen" /\ pos' = 1 /\ todo' = Turn(project.order[1])
      /\ UNCHANGED <<project, emitIn, constructible, lastUnreachable, dropped, silent>>
  BY DEF StartGen, classVars, bodyVars
<1>2. TypeOK /\ DeclaredOnce /\ dropped = {} /\ OnlyEarly /\ constructible = {}
  BY <1>1 DEF IInv, Ordered, InTextOrder
<1>3. \A c \in Class : ~ Emitted(c)
  BY <1>1 DEF IInv, InTime, Positions, Emitted
<1>4. 1 \in DOMAIN project.order /\ \A f \in File : Place(f) \in Nat /\ Place(f) >= 1
  <2>1. DOMAIN project.order = 1 .. Len(project.order) /\ Len(project.order) \in Nat \ {0}
    BY <1>2, ProjectType
  <2> QED BY <1>2, <2>1, Where
<1>5. \A c \in Class : ~ (Place(Home(c)) < 1)
  BY <1>2, <1>4, Where
<1>6. Opens
  BY <1>1, <1>2, <1>3, <1>4, <1>5 DEF Opens, Body
<1> QED BY <1>2, <1>6, TurnOpens

\* When nothing is left to do in a turn, all of the file is there.
LEMMA TurnIsOver ==
  ASSUME IInv, Ordered, InTextOrder, pc = "gen", todo = <<>>
  PROVE  /\ \A c \in Class : /\ Emitted(c) <=> Place(Home(c)) <= pos
                             /\ Emitted(c) <=> c \in constructible
         /\ \A b \in Body : \A i \in Nat : IsEarly(b, i) =>
              \/ b \in Class /\ ~ Emitted(b)
              \/ b \in File /\ Place(b) > pos
              \/ <<b, i>> \in silent
<1>1. TypeOK /\ Positions /\ DeclaredOnce /\ EmittedInTurn /\ Constructed /\ EarlyCounted
  BY DEF IInv, InTime, Ordered, InTextOrder, Line, Progress
<1>2. Elements(todo) = {} /\ \A op, b : ~ Waits(op, b)
  BY None DEF Waits
<1>3. /\ file \in File /\ pos \in Nat
      /\ \A c \in Class : Home(c) = file <=> Place(Home(c)) = pos
  BY <1>1, HereIsPos
<1>4. ASSUME NEW c \in Class PROVE Emitted(c) <=> Place(Home(c)) <= pos
  <2>1. Place(Home(c)) \in Nat
    BY <1>1, Where, Numbers
  <2>2. Place(Home(c)) = pos => Emitted(c)
    BY <1>1, <1>2, <1>3 DEF EmittedInTurn
  <2>3. (Place(Home(c)) < pos => Emitted(c)) /\ (Emitted(c) => Place(Home(c)) <= pos)
    BY <1>1 DEF EmittedInTurn
  <2> QED BY <1>3, <2>1, <2>2, <2>3
<1>5. \A c \in Class : Emitted(c) <=> c \in constructible
  BY <1>1, <1>2 DEF Constructed
<1>6. \A b \in Body : \A i \in Nat : IsEarly(b, i) =>
        \/ b \in Class /\ ~ Emitted(b)
        \/ b \in File /\ Place(b) > pos
        \/ <<b, i>> \in silent
  BY <1>1, <1>2 DEF EarlyCounted, Pending
<1> QED BY <1>4, <1>5, <1>6

LEMMA WriteInOrder ==
  ASSUME IInv, Ordered, InTextOrder, Write
  PROVE  InTextOrder'
<1>1. /\ pc = "gen" /\ todo = <<>>
      /\ UNCHANGED <<project, emitIn, constructible, lastUnreachable, dropped, silent>>
      /\ \/ pos = Len(project.order) /\ pc' = "done" /\ UNCHANGED <<pos, todo>>
         \/ pos # Len(project.order) /\ pos' = pos + 1 /\ todo' = Turn(project.order[pos + 1])
            /\ UNCHANGED pc
  BY DEF Write, bodyVars
<1>2. TypeOK /\ Positions /\ DeclaredOnce /\ dropped = {} /\ OnlyEarly
  BY DEF IInv, InTime, Ordered, InTextOrder
<1>3. CASE pos = Len(project.order) /\ pc' = "done" /\ UNCHANGED <<pos, todo>>
  <2>1. UNCHANGED <<project, pos, todo, emitIn, constructible, lastUnreachable, silent>>
    BY <1>1, <1>3
  <2>2. Line /\ Progress
    BY <1>1 DEF InTextOrder
  <2>3. Line' /\ Progress' /\ OnlyEarly'
    BY <1>2, <2>1, <2>2, TextUnchanged
  <2> QED BY <1>1, <1>2, <1>3, <2>3 DEF InTextOrder
<1>4. CASE pos # Len(project.order) /\ pos' = pos + 1 /\ todo' = Turn(project.order[pos + 1]) /\ UNCHANGED pc
  <2>1. pos \in DOMAIN project.order /\ pos \in Nat
    BY <1>1, <1>2, CurrentFile DEF TypeOK
  <2>2. DOMAIN project.order = 1 .. Len(project.order) /\ Len(project.order) \in Nat
    BY <1>2, ProjectType
  <2>3. pos + 1 \in DOMAIN project.order
    BY <1>4, <2>1, <2>2
  <2>4. /\ \A c \in Class : Place(Home(c)) \in Nat
        /\ \A f \in File : Place(f) \in Nat
    BY <1>2, Where, Numbers
  <2>5. \A n \in Nat : (n <= pos <=> n < pos + 1) /\ (n > pos => n >= pos + 1)
    BY <2>1
  <2>6. \A c \in Class : (Emitted(c) <=> Place(Home(c)) < pos + 1) /\ (Emitted(c) <=> c \in constructible)
    BY <1>1, <2>4, <2>5, TurnIsOver
  <2>7. \A b \in Body : \A i \in Nat : IsEarly(b, i) =>
          \/ b \in Class /\ ~ Emitted(b)
          \/ b \in File /\ Place(b) >= pos + 1
          \/ <<b, i>> \in silent
    BY <1>1, <2>4, <2>5, TurnIsOver
  <2>8. Opens
    BY <1>1, <1>4, <2>3, <2>6, <2>7 DEF Opens
  <2> QED BY <1>2, <2>8, TurnOpens
<1> QED BY <1>1, <1>3, <1>4

LEMMA FailsInOrder ==
  ASSUME Ordered, InTextOrder, NEW how \in {"refused", "error", "crashed"}, End(how)
  PROVE  InTextOrder'
<1>1. pc' = how /\ UNCHANGED <<project, dropped, silent>>
  BY DEF End, bodyVars
<1>2. \A b, i : IsEarly(b, i)' = IsEarly(b, i)
  BY <1>1, SameText
<1> QED BY <1>1, <1>2 DEF InTextOrder, OnlyEarly

LEMMA GenerateSigsInOrder ==
  ASSUME Ordered, InTextOrder, GenerateSigs
  PROVE  InTextOrder'
<1>1. pc = "sigs" /\ UNCHANGED <<project, pc, constructible, dropped, silent>>
  BY DEF GenerateSigs, bodyVars
<1>2. \A b, i : IsEarly(b, i)' = IsEarly(b, i)
  BY <1>1, SameText
<1> QED BY <1>1, <1>2 DEF InTextOrder, OnlyEarly

LEMMA StutterInOrder ==
  ASSUME Ordered, InTextOrder, UNCHANGED vars
  PROVE  InTextOrder'
<1>1. UNCHANGED <<project, pos, todo, emitIn, constructible, lastUnreachable, silent>>
      /\ UNCHANGED <<pc, dropped>>
  BY DEF vars, classVars, bodyVars
<1>2. Line' = Line /\ Progress' = Progress /\ OnlyEarly' = OnlyEarly
  BY <1>1, TextUnchanged
<1> QED BY <1>1, <1>2 DEF InTextOrder

LEMMA InitInOrder ==
  ASSUME Init
  PROVE  InTextOrder
BY DEF Init, InTextOrder, OnlyEarly

LEMMA NextInOrder ==
  ASSUME IInv, Ordered, InTextOrder, [Next]_vars
  PROVE  InTextOrder'
<1>1. TypeOK /\ Positions /\ TasksFit
  BY DEF IInv, InTime
<1>2. CASE UNCHANGED vars \/ Finished
  BY <1>2, StutterInOrder DEF Finished
<1>3. CASE GenerateSigs \/ StartGen \/ Write
  BY <1>3, GenerateSigsInOrder, StartGenInOrder, WriteInOrder
<1>4. CASE GenerateAgain \/ GenerateClass \/ TypeInfo \/ Vtable \/ Construct
  BY <1>1, <1>4, GenerateAgainInOrder, GenerateClassInOrder, TypeInfoInOrder, VtableInOrder,
     ConstructInOrder
<1>5. CASE BeginBody \/ UseInfos \/ EndBody
  BY <1>1, <1>5, BeginBodyInOrder, UseInfosInOrder, EndBodyInOrder
<1>6. CASE Skipped \/ Return \/ New \/ Throw \/ Catch
  BY <1>6, NotSkipped, ReturnInOrder, NewInOrder, ThrowInOrder, CatchInOrder
<1>7. CASE ConstructFails \/ EndBodyFails \/ WriteFails \/ SigsCrash
  <2>1. End("error") \/ End("refused") \/ End("crashed")
    BY <1>7 DEF ConstructFails, EndBodyFails, WriteFails, SigsCrash
  <2> QED BY <2>1, FailsInOrder
<1>8. CASE NotFound
  <2>1. End("error") \/ End("crashed")
    BY <1>8 DEF NotFound
  <2> QED BY <2>1, FailsInOrder
<1> QED BY <1>2, <1>3, <1>4, <1>5, <1>6, <1>7, <1>8 DEF Next

LEMMA OInvKeeps ==
  ASSUME OInv, [Next]_vars
  PROVE  OInv'
<1>1. IInv /\ IInv'
  BY NextKeeps DEF OInv
<1>2. project' = project
  BY DEF Next, vars, classVars, bodyVars, Finished, GenerateSigs, StartGen, Write, GenerateAgain,
         GenerateClass, TypeInfo, Vtable, Construct, BeginBody, UseInfos, EndBody, Skipped, Return, New,
         Throw, Catch, ConstructFails, EndBodyFails, WriteFails, SigsCrash, NotFound, End, Continue
<1>3. Ordered' = Ordered
  BY <1>2, SameText
<1>4. Ordered => InTextOrder'
  BY <1>1, NextInOrder DEF OInv
<1> QED BY <1>1, <1>3, <1>4 DEF OInv

THEOREM OrderInvariant == Spec => []OInv
<1>1. Init => OInv
  BY InitKeeps, InitInOrder DEF OInv
<1> QED BY <1>1, OInvKeeps, PTL DEF Spec

(***************************************************************************)
(* Whatever the ordered project: when it is compiled, every statement of   *)
(* every body has been generated, though Class::generate can run in the    *)
(* middle of any of them and leaves lastUnreachable as it pleases.         *)
(***************************************************************************)
THEOREM CompleteCorrect == Spec => []CompleteIfOrdered
<1>1. OInv => CompleteIfOrdered
  BY DEF OInv, InTextOrder, CompleteIfOrdered
<1> QED BY <1>1, OrderInvariant, PTL

(***************************************************************************)
(* Whatever the ordered project: NodeTermClassNew calls the constructor of *)
(* the classes declared before the body that creates them, and of no       *)
(* other.                                                                  *)
(***************************************************************************)
THEOREM SilentCorrect == Spec => []SilentByRule
<1>1. ASSUME OInv, pc = "done", Ordered
      PROVE  silent = {at \in UNION {News(b) : b \in Body} : TooEarly(at[1], project.body[at[1]][at[2]].of)}
  <2>1. /\ IInv /\ OnlyEarly /\ EmittedInTurn /\ EarlyCounted /\ todo = <<>> /\ pos = Len(project.order)
        /\ TypeOK /\ DeclaredOnce
    BY <1>1 DEF OInv, IInv, InTextOrder, Line, Progress, Ordered
  <2>2. \A b \in Body, i \in Nat : IsEarly(b, i) => <<b, i>> \in silent
    <3> SUFFICES ASSUME NEW b \in Body, NEW i \in Nat, IsEarly(b, i), <<b, i>> \notin silent PROVE FALSE
      OBVIOUS
    <3>1. Pending(b, i)
      BY <2>1 DEF EarlyCounted
    <3>2. Elements(todo) = {} /\ \A op, x : ~ Waits(op, x)
      BY <2>1, None DEF Waits
    <3>3. pos \in DOMAIN project.order /\ file = project.order[pos] /\ file \in File
      <4>1. Len(project.order) \in Nat \ {0} /\ DOMAIN project.order = 1 .. Len(project.order)
        BY <2>1, ProjectType
      <4>2. pos \in DOMAIN project.order
        BY <2>1, <4>1
      <4> QED BY <2>1, <4>2, Where, ProjectType DEF file
    <3>4. Place(file) = pos
      BY <2>1, <3>3, Where
    <3>5. CASE b \in Class /\ ~ Emitted(b)
      <4>1. Home(b) \in File /\ Place(Home(b)) \in Nat /\ Place(Home(b)) <= pos
        BY <2>1, <3>5, Where, Numbers
      <4>2. Place(Home(b)) = pos => Home(b) = file
        BY <2>1, <3>3, <3>4, <4>1, Numbers
      <4>3. ~ (Place(Home(b)) < pos) /\ Home(b) # file
        BY <2>1, <3>2, <3>5 DEF EmittedInTurn
      <4>4. pos \in Nat
        BY <2>1 DEF TypeOK
      <4> QED BY <4>1, <4>2, <4>3, <4>4
    <3>6. CASE b \in File /\ Place(b) > pos
      <4>1. Place(b) \in Nat /\ Place(b) <= pos /\ pos \in Nat
        BY <2>1, <3>6, Numbers DEF TypeOK
      <4> QED BY <3>6, <4>1
    <3> QED BY <3>1, <3>2, <3>5, <3>6 DEF Pending
  <2>3. \A b \in Body : DOMAIN project.body[b] \subseteq Nat
    BY <2>1, Numbers
  <2>4. ASSUME NEW at \in silent
        PROVE  /\ at \in UNION {News(b) : b \in Body}
               /\ TooEarly(at[1], project.body[at[1]][at[2]].of)
    <3>1. IsEarly(at[1], at[2]) /\ at = <<at[1], at[2]>>
      BY <2>1 DEF OnlyEarly
    <3>2. at[1] \in Body /\ <<at[1], at[2]>> \in News(at[1])
      BY <3>1 DEF IsEarly, News
    <3> QED BY <3>1, <3>2 DEF IsEarly
  <2>5. ASSUME NEW at \in UNION {News(b) : b \in Body}, TooEarly(at[1], project.body[at[1]][at[2]].of)
        PROVE  at \in silent
    <3>1. PICK b \in Body : at \in News(b)
      OBVIOUS
    <3>2. PICK i \in DOMAIN project.body[b] : at = <<b, i>> /\ project.body[b][i].op = "new"
      BY <3>1 DEF News
    <3>3. at[1] = b /\ at[2] = i
      BY <3>2
    <3>4. IsEarly(b, i)
      BY <2>5, <3>2, <3>3 DEF IsEarly
    <3> QED BY <2>2, <2>3, <3>2, <3>4
  <2> QED BY <2>4, <2>5
<1>2. OInv => SilentByRule
  BY <1>1 DEF SilentByRule
<1> QED BY <1>2, OrderInvariant, PTL

-----------------------------------------------------------------------------
(***************************************************************************)
(* LinkedByRule.  The typeinfo of a class is defined once, in the module   *)
(* of its own file, and before anything else can ask for it - unless a     *)
(* method of the class itself does, between the definition and the end of  *)
(* Class::generate.                                                        *)
(***************************************************************************)

(***************************************************************************)
(* The inductive invariant.  Only the definition of a class and what other *)
(* files declare of it get the number 0 of their module: a class forgets   *)
(* its infos when its file is written, and in another file everybody asks  *)
(* for a class that is complete.  A method that handles its own class      *)
(* finds the definition there and the infos not yet init, so a second      *)
(* global comes of it, and whatever it still has to handle will make one.  *)
(***************************************************************************)
SelfHandled(c) == c \in Handled(c)
Handling(b, i) == project.body[b][i].op \in {"throw", "catch"}
Definition(c) == [in |-> Home(c), of |-> c, n |-> 0, def |-> TRUE]
Due(op, b) == \E t \in Elements(todo) : t.op = op /\ t.of = b
Second(c) == \E g \in globals : g.of = c /\ g.n # 0

Defined == \A c \in Class : Emitted(c) => Due("typeInfo", c) \/ Definition(c) \in globals

GlobalFits(g) ==
  /\ Emitted(g.of) /\ ~ Due("typeInfo", g.of)
  /\ Place(g.in) <= pos
  /\ g.def => g.n = 0
  /\ g.n # 0 => SelfHandled(g.of)
  /\ pc = "gen" /\ g.in = file => infos[g.of].init \/ g.of \notin constructible
GlobalsFit == \A g \in globals : GlobalFits(g)

InitSeen == \A c \in Class : infos[c].init => c \in constructible \/ Second(c)

ToHandle(c) ==
  \E i \in DOMAIN project.body[c] :
    /\ Handling(c, i) /\ project.body[c][i].of = c
    /\ \E t \in Elements(todo) : t.op \in {"stmt", "infos"} /\ t.of = c /\ t.at = i
SelfSeen == \A c \in Class : Emitted(c) /\ SelfHandled(c) => ToHandle(c) \/ Second(c)

InfosHandled == \A t \in Elements(todo) : t.op = "infos" => Handling(t.of, t.at)

CallsFit ==
  /\ \A call \in calls : call[2] = "function" => \E c \in Class : project.ctor[c] = "super"
  /\ \A c \in constructible : project.ctor[c] = "super" => <<project.super[c], "function">> \in calls

Links == Defined /\ GlobalsFit /\ InitSeen /\ SelfSeen /\ InfosHandled /\ CallsFit
InLinkOrder ==
  /\ pc \in {"gen", "done"} => Links
  /\ pc = "sigs" => globals = {} /\ calls = {} /\ \A c \in Class : ~ infos[c].init

LInv == OInv /\ (Ordered => InLinkOrder)

-----------------------------------------------------------------------------
(***************************************************************************)
(* What the invariants say in the middle of a turn.                        *)
(***************************************************************************)
InTurn ==
  /\ TypeOK /\ Positions /\ TasksFit /\ Ordered /\ DeclaredOnce /\ Line /\ Progress
  /\ IsFiniteSet(globals) /\ Signatures /\ Links /\ pc = "gen"

LEMMA Middle ==
  ASSUME OInv, Ordered, InLinkOrder, pc = "gen"
  PROVE  InTurn
BY DEF OInv, IInv, InTime, Ordered, InTextOrder, InLinkOrder, InTurn

LEMMA SameHandling ==
  ASSUME project' = project
  PROVE  /\ \A c : SelfHandled(c)' = SelfHandled(c)
         /\ \A b, i : Handling(b, i)' = Handling(b, i)
         /\ \A c : Definition(c)' = Definition(c)
         /\ \A c : Home(c)' = Home(c)
         /\ \A f : Place(f)' = Place(f)
BY DEF SelfHandled, Handled, Asked, Handling, Definition, Home, Place

\* In an ordered project no class comes round to itself.
LEMMA NoCircle ==
  ASSUME InTurn, NEW c \in Class
  PROVE  c \notin Ancestors(c)
<1>1. PICK f \in Elements(project.order) : c \in Elements(project.types[f])
  BY DEF InTurn, TypeOK, Project
<1>2. PICK i \in DOMAIN project.order : f = project.order[i]
  BY DEF Elements
<1> QED BY <1>1, <1>2 DEF InTurn, Signatures, TypesOf

LEMMA HeadInTurn ==
  ASSUME InTurn, todo # <<>>
  PROVE  /\ Head(todo) \in Task /\ Head(todo) \in Elements(todo) /\ Fit(Head(todo))
         /\ Elements(todo) = {Head(todo)} \cup Elements(Tail(todo))
         /\ \A y \in Elements(Tail(todo)) : Leads(Head(todo), y)
         /\ Head(todo).op # "generate" => ~ Idle(Head(todo)) /\ Here(Head(todo).of)
<1>1. Head(todo) \in Task /\ Elements(todo) = {Head(todo)} \cup Elements(Tail(todo))
  BY ElementsPop DEF InTurn, TypeOK
<1>2. \A y \in Elements(Tail(todo)) : Leads(Head(todo), y)
  BY HeadLeads DEF InTurn, Line
<1> QED BY <1>1, <1>2 DEF InTurn, TasksFit, Line, OfTheTurn, Idle

\* A class with parts still to come is in progress, in its own file.
LEMMA InProgress ==
  ASSUME InTurn, NEW t \in Elements(todo), t.op # "generate", t.of \in Class
  PROVE  Emitted(t.of) /\ t.of \notin constructible /\ Home(t.of) = file
<1>1. Emitted(t.of) /\ t.of \notin constructible
  BY DEF InTurn, Progress, Constructed
<1>2. ~ Idle(t)
  BY DEF Idle
<1>3. Here(t.of)
  BY <1>2 DEF InTurn, Line, OfTheTurn
<1>4. file \in File
  BY HereIsPos DEF InTurn
<1> QED BY <1>1, <1>3, <1>4, NamesAssumption DEF Here

\* What a class derives from is complete when its typeinfo is made.
LEMMA AncestorsComplete ==
  ASSUME InTurn, todo # <<>>, Head(todo).op = "typeInfo", NEW d \in Ancestors(Head(todo).of)
  PROVE  d \in constructible
<1> DEFINE c == Head(todo).of
<1>1. c \in Class /\ d \in Class
  BY HeadInTurn DEF Fit, Ancestors
<1>2. d # c
  BY <1>1, NoCircle
<1>3. DeclaredBefore(d, c)
  BY <1>1, <1>2 DEF InTurn, Ordered
<1>4. ~ TooEarly(c, d)
  BY <1>1, <1>3 DEF TooEarly
<1> QED BY <1>1, <1>4, NewByRule DEF InTurn, Progress

\* So is a class that somebody else handles.
LEMMA HandledComplete ==
  ASSUME InTurn, todo # <<>>, Head(todo).op = "infos"
  PROVE  /\ statement.of \in Class
         /\ statement.of # Head(todo).of => statement.of \in constructible
         /\ statement.of = Head(todo).of => SelfHandled(statement.of)
<1> DEFINE b == Head(todo).of
           d == statement.of
<1>1. /\ b \in Body /\ Head(todo).at \in DOMAIN project.body[b] /\ d \in Class
      /\ Here(b) /\ statement.op \in {"throw", "catch"}
  BY HeadInTurn DEF Fit, Task, statement, InTurn, Links, InfosHandled, Handling
<1>2. d \in Handled(b)
  BY <1>1 DEF Handled, Asked, statement
<1>3. ASSUME d # b PROVE d \in constructible
  <2>1. CASE b \in Class
    <3>1. DeclaredBefore(d, b)
      BY <1>2, <1>3, <2>1 DEF InTurn, Ordered
    <3>2. ~ TooEarly(b, d)
      BY <2>1, <3>1 DEF TooEarly
    <3> QED BY <1>1, <3>2, NewByRule DEF InTurn, Progress
  <2>2. CASE b \in File
    <3>1. Place(Home(d)) <= Place(b) /\ b \notin Class
      BY <1>2, <2>2, NamesAssumption DEF InTurn, Ordered
    <3>2. Place(Home(d)) \in Nat /\ Place(b) \in Nat
      BY <1>1, <2>2, Where, Numbers DEF InTurn
    <3>3. ~ TooEarly(b, d)
      BY <3>1, <3>2 DEF TooEarly
    <3> QED BY <1>1, <3>3, NewByRule DEF InTurn, Progress
  <2> QED BY <1>1, <2>1, <2>2 DEF Body
<1> QED BY <1>1, <1>2, <1>3 DEF SelfHandled
-----------------------------------------------------------------------------
(***************************************************************************)
(* The number of a global.                                                 *)
(***************************************************************************)
LEMMA Unnumbered ==
  ASSUME NEW c, \A g \in globals : ~ (g.in = file /\ g.of = c)
  PROVE  Number(c) = 0
<1>1. {g \in globals : g.in = file /\ g.of = c} = {}
  OBVIOUS
<1> QED BY <1>1, FS_EmptySet DEF Number

LEMMA NumberedAgain ==
  ASSUME IsFiniteSet(globals), NEW c, NEW g \in globals, g.in = file, g.of = c
  PROVE  Number(c) # 0
<1>1. g \in {h \in globals : h.in = file /\ h.of = c}
  OBVIOUS
<1>2. IsFiniteSet({h \in globals : h.in = file /\ h.of = c})
  BY FS_Subset
<1> QED BY <1>1, <1>2, FS_EmptySet DEF Number

\* A complete class without infos has no global in the current module yet.
LEMMA FirstOfModule ==
  ASSUME InTurn, NEW d \in constructible, ~ infos[d].init
  PROVE  Number(d) = 0
BY Unnumbered DEF InTurn, Links, GlobalsFit, GlobalFits

-----------------------------------------------------------------------------
(***************************************************************************)
(* The steps of a turn that emit no class: what becomes of the tasks.      *)
(***************************************************************************)
LEMMA TasksLeft ==
  ASSUME InTurn, NEW tasks, Advance(tasks)
  PROVE  /\ todo # <<>> /\ pc' = "gen" /\ UNCHANGED <<project, pos>>
         /\ file' = file /\ \A c : Emitted(c)' = Emitted(c)
         /\ \A t \in Elements(todo') : t.op \notin {"generate", "infos"} => t \in Elements(Tail(todo))
         /\ \A t \in Elements(todo') : t.op = "infos" =>
              \/ t \in Elements(Tail(todo))
              \/ /\ Head(todo).op = "stmt" /\ t.of = Head(todo).of /\ t.at = Head(todo).at
         /\ \A t \in Elements(todo) : t = Head(todo) \/ t \in Elements(todo')
         /\ \A c : Due("typeInfo", c)' => Due("typeInfo", c)
         /\ \A c : Due("typeInfo", c) =>
              Due("typeInfo", c)' \/ (Head(todo).op = "typeInfo" /\ Head(todo).of = c)
<1>1. /\ file' = file /\ Head(todo) \in Task
      /\ Elements(todo) = {Head(todo)} \cup Elements(Tail(todo))
      /\ Elements(todo') = Elements(tasks) \cup Elements(Tail(todo))
      /\ \A t \in Elements(todo') : t \in Elements(Tail(todo)) \/ Instead(t)
  BY AdvanceTasks DEF InTurn
<1>2. todo # <<>> /\ pc' = "gen" /\ UNCHANGED <<project, pos, emitIn>>
  BY DEF Advance
<1>3. \A c : Emitted(c)' = Emitted(c)
  BY <1>2 DEF Emitted
<1>4. ASSUME NEW t, Instead(t)
      PROVE  t.op = "generate" \/ (t.op = "infos" /\ Head(todo).op = "stmt"
                                   /\ t.of = Head(todo).of /\ t.at = Head(todo).at)
  BY <1>1, <1>4 DEF Instead, Idle, Task
<1>5. \A t \in Elements(todo') : t.op \notin {"generate", "infos"} => t \in Elements(Tail(todo))
  BY <1>1, <1>4
<1>6. \A t \in Elements(todo') : t.op = "infos" =>
        \/ t \in Elements(Tail(todo))
        \/ /\ Head(todo).op = "stmt" /\ t.of = Head(todo).of /\ t.at = Head(todo).at
  BY <1>1, <1>4
<1>7. \A c : Due("typeInfo", c)' => Due("typeInfo", c)
  BY <1>1, <1>5 DEF Due
<1>8. \A c : Due("typeInfo", c) =>
        Due("typeInfo", c)' \/ (Head(todo).op = "typeInfo" /\ Head(todo).of = c)
  BY <1>1 DEF Due
<1>9. \A t \in Elements(todo) : t = Head(todo) \/ t \in Elements(todo')
  BY <1>1
<1> QED BY <1>1, <1>2, <1>3, <1>5, <1>6, <1>7, <1>8, <1>9

(***************************************************************************)
(* A step that makes no global: a class that becomes complete has its      *)
(* infos, and a statement that handles a class leaves a task for them.     *)
(***************************************************************************)
Quiet(tasks) ==
  /\ Advance(tasks) /\ Head(todo).op \notin {"typeInfo", "infos"}
  /\ globals' = globals
  /\ \A c \in Class : infos'[c].init <=> infos[c].init \/ (Head(todo).op = "construct" /\ Head(todo).of = c)
  /\ Head(todo).op = "stmt" =>
       (Handling(Head(todo).of, Head(todo).at) <=>
          \E t \in Elements(tasks) : t.op = "infos" /\ t.of = Head(todo).of /\ t.at = Head(todo).at)

LEMMA QuietLinks ==
  ASSUME InTurn, NEW tasks, Quiet(tasks)
  PROVE  Defined' /\ GlobalsFit' /\ InitSeen' /\ SelfSeen' /\ InfosHandled'
<1>1. Advance(tasks) /\ Head(todo).op \notin {"typeInfo", "infos"} /\ globals' = globals
  BY DEF Quiet
<1>2. /\ todo # <<>> /\ pc' = "gen" /\ UNCHANGED <<project, pos>>
      /\ file' = file /\ \A c : Emitted(c)' = Emitted(c)
      /\ \A c : Due("typeInfo", c)' <=> Due("typeInfo", c)
  BY <1>1, TasksLeft
<1>3. /\ \A c : SelfHandled(c)' = SelfHandled(c)
      /\ \A b, i : Handling(b, i)' = Handling(b, i)
      /\ \A c : Definition(c)' = Definition(c)
      /\ \A f : Place(f)' = Place(f)
      /\ \A c : Second(c)' = Second(c)
  BY <1>1, <1>2, SameHandling DEF Second
<1>4. constructible' = constructible \cup (IF Head(todo).op = "construct" THEN {Head(todo).of} ELSE {})
  BY <1>1 DEF Advance
<1>5. Defined' 
  BY <1>1, <1>2, <1>3 DEF InTurn, Links, Defined
<1>6. GlobalsFit'
  <2> SUFFICES ASSUME NEW g \in globals PROVE GlobalFits(g)'
    BY <1>1 DEF GlobalsFit
  <2>1. GlobalFits(g) /\ g.of \in Class
    BY DEF InTurn, Links, GlobalsFit, TypeOK, Global
  <2>2. infos[g.of].init \/ g.of \notin constructible => infos'[g.of].init \/ g.of \notin constructible'
    BY <1>4, <2>1 DEF Quiet
  <2> QED BY <1>2, <1>3, <2>1, <2>2 DEF GlobalFits, InTurn
<1>7. InitSeen'
  BY <1>3, <1>4 DEF InTurn, Links, InitSeen, Quiet
<1>8. SelfSeen'
  <2> SUFFICES ASSUME NEW c \in Class, ToHandle(c) PROVE ToHandle(c)'
    BY <1>2, <1>3 DEF InTurn, Links, SelfSeen
  <2>1. PICK i \in DOMAIN project.body[c], t \in Elements(todo) :
          /\ Handling(c, i) /\ project.body[c][i].of = c
          /\ t.op \in {"stmt", "infos"} /\ t.of = c /\ t.at = i
    BY DEF ToHandle
  <2>2. \E u \in Elements(todo') : u.op \in {"stmt", "infos"} /\ u.of = c /\ u.at = i
    <3>1. CASE t = Head(todo)
      <4>1. \E u \in Elements(tasks) : u.op = "infos" /\ u.of = c /\ u.at = i
        BY <1>1, <2>1, <3>1 DEF Quiet
      <4>2. Elements(tasks) \subseteq Elements(todo')
        BY <1>1, AdvanceTasks DEF InTurn
      <4> QED BY <4>1, <4>2
    <3>2. CASE t \in Elements(todo')
      BY <2>1, <3>2
    <3> QED BY <1>1, <3>1, <3>2, TasksLeft
  <2> QED BY <1>2, <1>3, <2>1, <2>2 DEF ToHandle
<1>9. InfosHandled'
  <2> SUFFICES ASSUME NEW t \in Elements(todo'), t.op = "infos" PROVE Handling(t.of, t.at)
    BY <1>3 DEF InfosHandled
  <2>1. CASE t \in Elements(Tail(todo))
    BY <1>2, <2>1, HeadInTurn DEF InTurn, Links, InfosHandled
  <2>2. CASE t \notin Elements(Tail(todo))
    <3>1. Head(todo).op = "stmt" /\ t.of = Head(todo).of /\ t.at = Head(todo).at
      BY <1>1, <2>2, TasksLeft
    <3>2. t \in Elements(tasks)
      BY <1>1, <2>2, AdvanceTasks DEF InTurn
    <3> QED BY <3>1, <3>2 DEF Quiet
  <2> QED BY <2>1, <2>2
<1> QED BY <1>5, <1>6, <1>7, <1>8, <1>9
-----------------------------------------------------------------------------
(***************************************************************************)
(* A step that makes globals: getClassInfos for the classes used, and for  *)
(* a class whose typeinfo it is, the definition.                           *)
(***************************************************************************)
Declares(used, made) ==
  /\ Advance(<<>>) /\ Head(todo).op \in {"typeInfo", "infos"} /\ used \subseteq Class
  /\ globals' = DeclarationsAfter(used) \cup made
  /\ \A c \in Class : infos'[c].init <=> infos[c].init \/ c \in used
  /\ \A c \in used : \/ c \in constructible
                     \/ /\ SelfHandled(c) /\ Emitted(c) /\ Home(c) = file
                        /\ ~ Due("typeInfo", c) /\ Definition(c) \in globals
  /\ IF Head(todo).op = "typeInfo"
       THEN made = {Definition(Head(todo).of)}
       ELSE made = {} /\ used = {statement.of}

\* A class that is complete or handles itself here has its definition.
LEMMA UsedFits ==
  ASSUME InTurn, NEW c \in Class,
         \/ c \in constructible
         \/ SelfHandled(c) /\ Emitted(c) /\ Home(c) = file /\ ~ Due("typeInfo", c) /\ Definition(c) \in globals
  PROVE  Emitted(c) /\ ~ Due("typeInfo", c)
<1>1. CASE c \in constructible
  <2>1. Emitted(c)
    BY <1>1 DEF InTurn, Progress, Constructed
  <2>2. ASSUME NEW t \in Elements(todo), t.op = "typeInfo", t.of = c PROVE FALSE
    BY <1>1, <2>2, InProgress
  <2> QED BY <2>1, <2>2 DEF Due
<1> QED BY <1>1

\* The typeinfo of a class is made once.
LEMMA TypeInfoOnce ==
  ASSUME InTurn, todo # <<>>, Head(todo).op = "typeInfo"
  PROVE  \A t \in Elements(Tail(todo)) : ~ (t.op = "typeInfo" /\ t.of = Head(todo).of)
<1> SUFFICES ASSUME NEW t \in Elements(Tail(todo)), t.op = "typeInfo", t.of = Head(todo).of PROVE FALSE
  OBVIOUS
<1>1. Leads(Head(todo), t)
  BY HeadInTurn
<1>2. Stage(Head(todo)) < Stage(t)
  BY <1>1 DEF Leads, Idle
<1> QED BY <1>2 DEF Stage

LEMMA DeclaresLinks ==
  ASSUME InTurn, NEW used, NEW made, Declares(used, made)
  PROVE  Defined' /\ GlobalsFit' /\ InitSeen' /\ SelfSeen' /\ InfosHandled'
<1>1. /\ Advance(<<>>) /\ Head(todo).op \in {"typeInfo", "infos"} /\ used \subseteq Class
      /\ globals' = DeclarationsAfter(used) \cup made
      /\ \A c \in Class : infos'[c].init <=> infos[c].init \/ c \in used
  BY DEF Declares
<1>2. /\ todo # <<>> /\ pc' = "gen" /\ UNCHANGED <<project, pos>>
      /\ file' = file /\ \A c : Emitted(c)' = Emitted(c)
      /\ \A c : Due("typeInfo", c)' => Due("typeInfo", c)
      /\ \A c : Due("typeInfo", c) =>
           Due("typeInfo", c)' \/ (Head(todo).op = "typeInfo" /\ Head(todo).of = c)
  BY <1>1, TasksLeft
<1>3. /\ \A c : SelfHandled(c)' = SelfHandled(c)
      /\ \A c, i : Handling(c, i)' = Handling(c, i)
      /\ \A c : Definition(c)' = Definition(c)
      /\ \A f : Place(f)' = Place(f)
  BY <1>2, SameHandling
<1>4. constructible' = constructible /\ todo' = Tail(todo) /\ Elements(<<>>) = {}
  BY <1>1, None DEF Advance
<1>5. /\ Elements(todo) = {Head(todo)} \cup Elements(Tail(todo)) /\ Elements(todo') = Elements(Tail(todo))
      /\ Head(todo) \in Elements(todo) /\ Head(todo) \in Task /\ Fit(Head(todo))
  BY <1>2, <1>4, HeadInTurn
<1>6. /\ Place(file) = pos /\ pos \in Nat
  BY HereIsPos DEF InTurn
<1>7. globals \subseteq globals'
  BY <1>1 DEF DeclarationsAfter
<1>8. \A c : Second(c) => Second(c)'
  BY <1>7 DEF Second
\* What is declared
<1>9. ASSUME NEW c \in used, ~ infos[c].init, NEW g, g = Created(c, FALSE)
      PROVE  g \in globals' /\ GlobalFits(g)' /\ (c \in constructible \/ Second(c)')
  <2>1. c \in Declared(used) /\ c \in Class
    BY <1>1, <1>9 DEF Declared
  <2>2. g.in = file /\ g.of = c /\ g.n = Number(c) /\ g.def = FALSE
    BY <1>9 DEF Created
  <2>3. g \in globals'
    BY <1>1, <1>9, <2>1 DEF DeclarationsAfter
  <2>4. \/ c \in constructible
        \/ SelfHandled(c) /\ Emitted(c) /\ Home(c) = file /\ ~ Due("typeInfo", c) /\ Definition(c) \in globals
    BY <1>9 DEF Declares
  <2>5. Emitted(c) /\ ~ Due("typeInfo", c)
    BY <2>1, <2>4, UsedFits
  <2>6. c \in constructible => Number(c) = 0
    BY <1>9, FirstOfModule
  <2>7. c \notin constructible => Number(c) # 0
    <3> SUFFICES ASSUME c \notin constructible PROVE Number(c) # 0
      OBVIOUS
    <3>1. Definition(c) \in globals /\ Definition(c).in = file /\ Definition(c).of = c
      BY <2>4 DEF Definition
    <3> QED BY <3>1, NumberedAgain DEF InTurn
  <2>8. infos'[c].init
    BY <1>1, <2>1
  <2>9. GlobalFits(g)'
    <3>1. Emitted(c)' /\ ~ Due("typeInfo", c)'
      BY <1>2, <2>5
    <3>2. Place(g.in)' <= pos' /\ infos'[g.of].init
      BY <1>2, <1>3, <1>6, <2>2, <2>8
    <3>3. g.n # 0 => SelfHandled(c)'
      BY <1>3, <2>2, <2>4, <2>6
    <3> QED BY <2>2, <3>1, <3>2, <3>3 DEF GlobalFits
  <2>10. c \notin constructible => Second(c)'
    BY <2>2, <2>3, <2>7 DEF Second
  <2> QED BY <2>3, <2>9, <2>10
\* What is defined
<1>10. ASSUME Head(todo).op = "typeInfo", NEW b, b = Head(todo).of
       PROVE  /\ made = {Definition(b)} /\ b \in Class
              /\ \A g : g = Definition(b) => GlobalFits(g)'
  <2>1. made = {Definition(b)}
    BY <1>10 DEF Declares
  <2>2. b \in Class /\ Emitted(b) /\ b \notin constructible /\ Home(b) = file
    BY <1>5, <1>10, InProgress DEF Fit
  <2>3. ~ Due("typeInfo", b)'
    <3>1. \A t \in Elements(todo') : ~ (t.op = "typeInfo" /\ t.of = b)
      BY <1>2, <1>5, <1>10, TypeInfoOnce
    <3> QED BY <3>1 DEF Due
  <2>4. ASSUME NEW g, g = Definition(b) PROVE GlobalFits(g)'
    <3>1. g.in = file /\ g.of = b /\ g.n = 0
      BY <2>2, <2>4 DEF Definition
    <3>2. Emitted(b)' /\ b \notin constructible' /\ Place(g.in)' <= pos'
      BY <1>2, <1>3, <1>4, <1>6, <2>2, <3>1
    <3> QED BY <2>3, <3>1, <3>2 DEF GlobalFits
  <2> QED BY <2>1, <2>2, <2>4
<1>11. GlobalsFit'
  <2> SUFFICES ASSUME NEW g \in globals' PROVE GlobalFits(g)'
    BY DEF GlobalsFit
  <2>1. CASE g \in globals
    <3>1. GlobalFits(g) /\ g.of \in Class
      BY <2>1 DEF InTurn, Links, GlobalsFit, TypeOK, Global
    <3>2. infos[g.of].init => infos'[g.of].init
      BY <1>1, <3>1
    <3> QED BY <1>2, <1>3, <1>4, <3>1, <3>2 DEF GlobalFits, InTurn
  <2>2. CASE g \in {Created(c, FALSE) : c \in Declared(used)}
    <3>1. PICK c \in Declared(used) : g = Created(c, FALSE)
      BY <2>2
    <3>2. c \in used /\ ~ infos[c].init
      BY <3>1 DEF Declared
    <3> QED BY <1>9, <3>1, <3>2
  <2>3. CASE g \in made
    <3>1. Head(todo).op = "typeInfo"
      BY <2>3 DEF Declares
    <3> QED BY <1>10, <2>3, <3>1
  <2> QED BY <1>1, <2>1, <2>2, <2>3 DEF DeclarationsAfter
<1>12. Defined'
  <2> SUFFICES ASSUME NEW c \in Class, Emitted(c) PROVE Due("typeInfo", c)' \/ Definition(c) \in globals'
    BY <1>2, <1>3 DEF Defined
  <2>1. Due("typeInfo", c) \/ Definition(c) \in globals
    BY DEF InTurn, Links, Defined
  <2>2. CASE Head(todo).op = "typeInfo" /\ Head(todo).of = c
    BY <1>1, <1>10, <2>2
  <2> QED BY <1>2, <1>7, <2>1, <2>2
<1>13. InitSeen'
  <2> SUFFICES ASSUME NEW c \in Class, infos'[c].init, c \notin constructible PROVE Second(c)'
    BY <1>4 DEF InitSeen
  <2>1. CASE infos[c].init
    BY <1>8, <2>1 DEF InTurn, Links, InitSeen
  <2>2. CASE ~ infos[c].init
    BY <1>1, <1>9, <2>2
  <2> QED BY <2>1, <2>2
<1>14. SelfSeen'
  <2> SUFFICES ASSUME NEW c \in Class, ToHandle(c) PROVE ToHandle(c)' \/ Second(c)'
    BY <1>2, <1>3, <1>8 DEF InTurn, Links, SelfSeen
  <2>1. PICK i \in DOMAIN project.body[c], t \in Elements(todo) :
          /\ Handling(c, i) /\ project.body[c][i].of = c
          /\ t.op \in {"stmt", "infos"} /\ t.of = c /\ t.at = i
    BY DEF ToHandle
  <2>2. CASE t \in Elements(Tail(todo))
    BY <1>2, <1>3, <1>5, <2>1, <2>2 DEF ToHandle
  <2>3. CASE t = Head(todo)
    <3>1. used = {c} /\ c \notin constructible
      BY <1>1, <1>5, <2>1, <2>3, InProgress DEF Declares, statement
    <3>2. CASE infos[c].init
      BY <1>8, <3>1, <3>2 DEF InTurn, Links, InitSeen
    <3>3. CASE ~ infos[c].init
      BY <1>9, <3>1, <3>3
    <3> QED BY <3>2, <3>3
  <2> QED BY <1>5, <2>1, <2>2, <2>3
<1>15. InfosHandled'
  BY <1>3, <1>5 DEF InTurn, Links, InfosHandled
<1> QED BY <1>11, <1>12, <1>13, <1>14, <1>15
-----------------------------------------------------------------------------
(***************************************************************************)
(* The actions of a turn.                                                  *)
(***************************************************************************)
LEMMA LinksIn ==
  ASSUME pc' = "gen", Defined', GlobalsFit', InitSeen', SelfSeen', InfosHandled', CallsFit'
  PROVE  InLinkOrder'
BY DEF InLinkOrder, Links

LEMMA SameCalls ==
  ASSUME InTurn, UNCHANGED <<project, calls, constructible>>
  PROVE  CallsFit'
BY DEF InTurn, Links, CallsFit

\* A task that is only taken off
LEMMA Taken ==
  ASSUME InTurn, NEW op, Current(op), Continue(<<>>), op \notin {"stmt", "construct"},
         op = "generate" => Idle(Head(todo)), UNCHANGED <<emitIn, constructible>>,
         lastUnreachable' => lastUnreachable /\ op # "begin"
  PROVE  /\ Advance(<<>>) /\ Head(todo).op = op /\ todo # <<>> /\ pc' = "gen"
         /\ UNCHANGED <<project, constructible>> /\ Elements(<<>>) = {}
<1>1. /\ Head(todo).op = op /\ pc = "gen" /\ todo # <<>> /\ UNCHANGED <<project, pc, pos>>
      /\ todo' = <<>> \o Tail(todo) /\ <<>> \in Seq(Task) /\ Elements(<<>>) = {}
  BY None DEF Current, Continue
<1>2. Advance(<<>>)
  BY <1>1 DEF Advance
<1> QED BY <1>1, <1>2

LEMMA TakenKeeps ==
  ASSUME InTurn, NEW op, Current(op), Continue(<<>>), op \in {"generate", "vtable", "begin", "end"},
         op = "generate" => Idle(Head(todo)),
         UNCHANGED <<emitIn, constructible, globals, infos, calls>>,
         lastUnreachable' => lastUnreachable /\ op # "begin"
  PROVE  InLinkOrder'
<1>1. /\ Advance(<<>>) /\ Head(todo).op = op /\ pc' = "gen" /\ UNCHANGED <<project, constructible>>
  BY Taken
<1>2. Quiet(<<>>)
  BY <1>1 DEF Quiet
<1> QED BY <1>1, <1>2, QuietLinks, SameCalls, LinksIn

LEMMA PlainInLinks ==
  ASSUME InTurn, GenerateAgain \/ Vtable \/ BeginBody \/ EndBody
  PROVE  InLinkOrder'
<1>1. CASE GenerateAgain
  <2>1. Idle(Head(todo))
    BY <1>1 DEF GenerateAgain, Current, Idle, Emitted
  <2> QED BY <1>1, <2>1, TakenKeeps DEF GenerateAgain, classVars, bodyVars
<1>2. CASE Vtable
  BY <1>2, TakenKeeps DEF Vtable, bodyVars
<1>3. CASE BeginBody
  BY <1>3, TakenKeeps DEF BeginBody, classVars
<1>4. CASE EndBody
  BY <1>4, TakenKeeps DEF EndBody, classVars, bodyVars
<1> QED BY <1>1, <1>2, <1>3, <1>4

\* A statement that handles no class
LEMMA StatementTaken ==
  ASSUME InTurn, IInv, Current("stmt"), statement.op \in {"new", "return"}, Continue(<<>>),
         lastUnreachable' => lastUnreachable \/ statement.op = "return",
         UNCHANGED <<emitIn, constructible, globals, infos>>
  PROVE  /\ Defined' /\ GlobalsFit' /\ InitSeen' /\ SelfSeen' /\ InfosHandled' /\ pc' = "gen"
         /\ UNCHANGED <<project, constructible>>
<1>1. /\ Head(todo).op = "stmt" /\ pc = "gen" /\ todo # <<>> /\ UNCHANGED <<project, pc, pos>>
      /\ todo' = <<>> \o Tail(todo) /\ <<>> \in Seq(Task) /\ Elements(<<>>) = {}
  BY None DEF Current, Continue
<1>2. statement.op = "return" => Head(todo).at = Len(project.body[Head(todo).of])
  BY <1>1, JumpsAreLast
<1>3. Advance(<<>>)
  BY <1>1, <1>2 DEF Advance
<1>4. ~ Handling(Head(todo).of, Head(todo).at)
  BY DEF Handling, statement
<1>5. Quiet(<<>>)
  BY <1>1, <1>3, <1>4 DEF Quiet
<1> QED BY <1>1, <1>5, QuietLinks

LEMMA ReturnInLinks ==
  ASSUME InTurn, IInv, Return
  PROVE  InLinkOrder'
<1>1. UNCHANGED calls
  BY DEF Return, classVars
<1> QED BY <1>1, StatementTaken, SameCalls, LinksIn DEF Return, Statement, classVars

LEMMA NewInLinks ==
  ASSUME InTurn, IInv, New
  PROVE  InLinkOrder'
<1>1. /\ Current("stmt") /\ statement.op = "new" /\ Continue(<<>>)
      /\ UNCHANGED <<emitIn, constructible, globals, infos, lastUnreachable>>
      /\ calls' = calls \/ calls' = calls \cup {<<statement.of, "constructor">>}
  BY DEF New, Statement
<1>2. /\ Defined' /\ GlobalsFit' /\ InitSeen' /\ SelfSeen' /\ InfosHandled' /\ pc' = "gen"
      /\ UNCHANGED <<project, constructible>>
  BY <1>1, StatementTaken
<1>3. CallsFit'
  BY <1>1, <1>2 DEF InTurn, Links, CallsFit
<1> QED BY <1>2, <1>3, LinksIn

LEMMA HandlingInLinks ==
  ASSUME InTurn, OInv, Throw \/ Catch
  PROVE  InLinkOrder'
<1> DEFINE asked == Do("generate", statement.of, 0)
           after == [Head(todo) EXCEPT !.op = "infos"]
<1>1. /\ Current("stmt") /\ statement.op \in {"throw", "catch"} /\ Continue(<<asked, after>>)
      /\ lastUnreachable' => statement.op = "throw"
      /\ UNCHANGED <<classVars, dropped, silent>>
  BY DEF Throw, Catch, Statement
<1>2. IInv /\ InTextOrder /\ Ordered
  BY DEF OInv, InTurn
<1>3. /\ pc = "gen" /\ todo # <<>> /\ Head(todo).op = "stmt"
      /\ todo' = <<asked, after>> \o Tail(todo) /\ UNCHANGED <<project, pc, pos>>
      /\ UNCHANGED <<emitIn, constructible, globals, infos, calls>>
  BY <1>1 DEF Current, Continue, classVars
<1>4. lastUnreachable' => Head(todo).at = Len(project.body[Head(todo).of])
  BY <1>1, <1>2, <1>3, JumpsAreLast
<1>5. statement.of \in Class /\ Emitted(statement.of)
  BY <1>1, <1>2, <1>3, HandledEmitted
<1>6. Idle(asked) /\ asked \in Task /\ asked.op = "generate"
  BY <1>5 DEF Idle, Do, Task, Body
<1>7. after \in Task /\ after.op = "infos" /\ after.of = Head(todo).of /\ after.at = Head(todo).at
  BY <1>3, HeadInTurn DEF Task
<1>8. Instead(after) /\ Handling(Head(todo).of, Head(todo).at)
  BY <1>1, <1>3 DEF Instead, Handling, statement
<1> HIDE DEF asked, after
<1>9. <<asked, after>> \in Seq(Task) /\ Elements(<<asked, after>>) = {asked, after}
  BY <1>6, <1>7, Pair
<1>10. Instead(asked)
  BY <1>6 DEF Instead
<1>11. \A j, k \in DOMAIN <<asked, after>> : j < k => Idle(<<asked, after>>[j])
  BY <1>6
<1>12. Advance(<<asked, after>>)
  BY <1>3, <1>4, <1>8, <1>9, <1>10, <1>11 DEF Advance
<1>13. Quiet(<<asked, after>>)
  BY <1>3, <1>7, <1>8, <1>9, <1>12 DEF Quiet
<1> QED BY <1>3, <1>13, QuietLinks, SameCalls, LinksIn

LEMMA ConstructInLinks ==
  ASSUME InTurn, Construct
  PROVE  InLinkOrder'
<1> DEFINE s == project.super[Head(todo).of]
<1>0. PICK c \in Class : c = Head(todo).of
  BY HeadInTurn DEF Construct, Current, Fit
<1>1. /\ pc = "gen" /\ todo # <<>> /\ Head(todo).op = "construct"
      /\ todo' = <<>> \o Tail(todo) /\ UNCHANGED <<project, pc, pos>>
      /\ UNCHANGED <<emitIn, globals>>
      /\ constructible' = constructible \cup {c}
      /\ infos' = [infos EXCEPT ![c].init = TRUE]
      /\ calls' = calls \cup (IF CallsDefault(c) THEN {<<s, "constructor">>} ELSE {})
                        \cup (IF project.ctor[c] = "super" THEN {<<s, "function">>} ELSE {})
      /\ lastUnreachable' => lastUnreachable
  BY <1>0 DEF Construct, Current, Continue, SuperNamed
<1>2. <<>> \in Seq(Task) /\ Elements(<<>>) = {}
  BY None
<1>3. Advance(<<>>)
  BY <1>0, <1>1, <1>2 DEF Advance
<1>4. \A d \in Class : infos'[d].init <=> infos[d].init \/ d = c
  BY <1>1 DEF InTurn, TypeOK, Handle
<1>5. Quiet(<<>>)
  BY <1>0, <1>1, <1>3, <1>4 DEF Quiet
<1>6. CallsFit'
  <2>1. \A call \in calls' : call[2] = "function" => \E d \in Class : project.ctor[d] = "super"
    BY <1>1 DEF InTurn, Links, CallsFit
  <2>2. \A d \in constructible' : project.ctor[d] = "super" => <<project.super[d], "function">> \in calls'
    BY <1>0, <1>1 DEF InTurn, Links, CallsFit
  <2> QED BY <1>1, <2>1, <2>2 DEF CallsFit
<1> QED BY <1>1, <1>5, <1>6, QuietLinks, LinksIn

\* The typeinfo of a class and what it declares of the ancestors
LEMMA TypeInfoInLinks ==
  ASSUME InTurn, TypeInfo
  PROVE  InLinkOrder'
<1>0. /\ Current("typeInfo") /\ Continue(<<>>)
      /\ UNCHANGED <<emitIn, constructible, calls, lastUnreachable>>
  BY DEF TypeInfo, bodyVars
<1>1. /\ Advance(<<>>) /\ Head(todo).op = "typeInfo" /\ todo # <<>> /\ pc' = "gen"
      /\ UNCHANGED <<project, constructible>>
  BY <1>0, Taken
<1>2. PICK c \in Class : c = Head(todo).of
  BY <1>1, HeadInTurn DEF Fit
<1>3. Home(c) = file /\ Due("typeInfo", c)
  BY <1>1, <1>2, HeadInTurn, InProgress DEF Due
<1>4. Number(c) = 0
  <2>1. \A g \in globals : g.of # c
    BY <1>3 DEF InTurn, Links, GlobalsFit, GlobalFits
  <2> QED BY <2>1, Unnumbered
<1>5. Created(c, TRUE) = Definition(c)
  BY <1>3, <1>4 DEF Created, Definition
<1>6. globals' = DeclarationsAfter(Ancestors(c)) \cup {Definition(c)}
  BY <1>2, <1>5 DEF TypeInfo
<1>7. \A d \in Class : infos'[d].init <=> infos[d].init \/ d \in Ancestors(c)
  <2>1. infos' = [InfosAfter(Ancestors(c)) EXCEPT ![c].in = file, ![c].n = Number(c)]
    BY <1>2 DEF TypeInfo
  <2>2. \A d \in Class : infos'[d].init = InfosAfter(Ancestors(c))[d].init
    BY <2>1 DEF InfosAfter, InTurn, TypeOK, Handle
  <2> QED BY <2>2 DEF InfosAfter, Declared
<1>8. Ancestors(c) \subseteq Class
  BY DEF Ancestors
<1>9. \A d \in Ancestors(c) : d \in constructible
  BY <1>1, <1>2, AncestorsComplete
<1>10. Declares(Ancestors(c), {Definition(c)})
  BY <1>1, <1>2, <1>6, <1>7, <1>8, <1>9 DEF Declares
<1> QED BY <1>0, <1>1, <1>10, DeclaresLinks, SameCalls, LinksIn

\* A class that its own method handles has its typeinfo already.
LEMMA OwnTypeInfo ==
  ASSUME InTurn, todo # <<>>, Head(todo).op = "infos", NEW c \in Class, Head(todo).of = c
  PROVE  Emitted(c) /\ Home(c) = file /\ ~ Due("typeInfo", c) /\ Definition(c) \in globals
<1>1. Emitted(c) /\ Home(c) = file
  BY HeadInTurn, InProgress
<1>2. ASSUME NEW t \in Elements(todo), t.op = "typeInfo", t.of = c PROVE FALSE
  <2>1. t \in Elements(Tail(todo)) /\ Leads(Head(todo), t)
    BY <1>2, HeadInTurn
  <2>2. Stage(Head(todo)) < Stage(t)
    BY <1>2, <2>1 DEF Leads, Idle
  <2>3. Head(todo).at \in Nat
    BY HeadInTurn DEF Task
  <2> QED BY <1>2, <2>2, <2>3 DEF Stage
<1>3. ~ Due("typeInfo", c)
  BY <1>2 DEF Due
<1> QED BY <1>1, <1>3 DEF InTurn, Links, Defined

LEMMA UseInfosInLinks ==
  ASSUME InTurn, UseInfos
  PROVE  InLinkOrder'
<1>0. /\ Current("infos") /\ Continue(<<>>)
      /\ UNCHANGED <<emitIn, constructible, calls, lastUnreachable>>
  BY DEF UseInfos
<1>1. /\ Advance(<<>>) /\ Head(todo).op = "infos" /\ todo # <<>> /\ pc' = "gen"
      /\ UNCHANGED <<project, constructible>>
  BY <1>0, Taken
<1>2. PICK d \in Class : d = statement.of
  BY <1>1, HandledComplete
<1>3. globals' = DeclarationsAfter({d}) \cup {} /\ infos' = InfosAfter({d})
  BY <1>2 DEF UseInfos
<1>4. \A c \in Class : infos'[c].init <=> infos[c].init \/ c \in {d}
  BY <1>3 DEF InfosAfter, Declared
<1>5. \/ d \in constructible
      \/ SelfHandled(d) /\ Emitted(d) /\ Home(d) = file /\ ~ Due("typeInfo", d) /\ Definition(d) \in globals
  BY <1>1, <1>2, HandledComplete, OwnTypeInfo
<1>6. Declares({d}, {})
  BY <1>1, <1>2, <1>3, <1>4, <1>5 DEF Declares
<1> QED BY <1>0, <1>1, <1>6, DeclaresLinks, SameCalls, LinksIn

\* A class whose turn it is: its typeinfo, and whatever it handles itself, is to come.
LEMMA ExpandLinks ==
  ASSUME InTurn, NEW c, NEW tasks, Expand(c, tasks), UNCHANGED <<globals, infos, calls>>
  PROVE  InLinkOrder'
<1>1. /\ pc' = "gen" /\ UNCHANGED <<project, pos, constructible>>
      /\ c \in Class /\ ~ Emitted(c) /\ Head(todo).op = "generate"
      /\ \A d \in Class : Emitted(d)' <=> d = c \/ Emitted(d)
      /\ \A x \in Elements(tasks) : x.op # "infos" /\ (x.op # "generate" => x.of = c)
      /\ Do("typeInfo", c, 0) \in Elements(tasks)
      /\ \A i \in DOMAIN project.body[c] : Do("stmt", c, i) \in Elements(tasks)
  BY DEF Expand, Idle
<1>2. /\ file' = file
      /\ Elements(todo) = {Head(todo)} \cup Elements(Tail(todo))
      /\ Elements(todo') = Elements(tasks) \cup Elements(Tail(todo))
  BY ExpandTasks DEF InTurn
<1>3. /\ \A d : SelfHandled(d)' = SelfHandled(d)
      /\ \A b, i : Handling(b, i)' = Handling(b, i)
      /\ \A d : Definition(d)' = Definition(d)
      /\ \A f : Place(f)' = Place(f)
      /\ \A d : Second(d)' = Second(d)
  BY <1>1, SameHandling DEF Second
<1>4. \A op, i : Do(op, c, i).op = op /\ Do(op, c, i).of = c /\ Do(op, c, i).at = i
  BY DEF Do
<1>5. \A d : d # c => (Due("typeInfo", d)' <=> Due("typeInfo", d))
  <2>1. \A t \in Elements(todo') : t.op = "typeInfo" /\ t.of # c => t \in Elements(todo)
    BY <1>1, <1>2
  <2>2. \A t \in Elements(todo) : t.op = "typeInfo" => t \in Elements(todo')
    BY <1>1, <1>2
  <2> QED BY <2>1, <2>2 DEF Due
<1>6. Due("typeInfo", c)'
  BY <1>1, <1>2, <1>4 DEF Due
<1>7. Defined'
  BY <1>1, <1>3, <1>5, <1>6 DEF InTurn, Links, Defined
<1>8. GlobalsFit'
  <2> SUFFICES ASSUME NEW g \in globals PROVE GlobalFits(g)'
    BY DEF GlobalsFit
  <2>1. GlobalFits(g) /\ g.of \in Class
    BY DEF InTurn, Links, GlobalsFit, TypeOK, Global
  <2>2. g.of # c
    BY <1>1, <2>1 DEF GlobalFits
  <2> QED BY <1>1, <1>2, <1>3, <1>5, <2>1, <2>2 DEF GlobalFits, InTurn
<1>9. InitSeen'
  BY <1>1, <1>3 DEF InTurn, Links, InitSeen
<1>10. SelfSeen'
  <2> SUFFICES ASSUME NEW d \in Class, Emitted(d)', SelfHandled(d) PROVE ToHandle(d)' \/ Second(d)
    BY <1>3 DEF SelfSeen
  <2>1. CASE d = c
    <3>1. PICK i \in DOMAIN project.body[c] : Handling(c, i) /\ project.body[c][i].of = c
      BY <2>1 DEF SelfHandled, Handled, Asked, Handling
    <3>2. Do("stmt", c, i) \in Elements(todo')
      BY <1>1, <1>2
    <3> QED BY <1>1, <1>3, <1>4, <2>1, <3>1, <3>2 DEF ToHandle
  <2>2. CASE d # c
    <3>1. ToHandle(d) \/ Second(d)
      BY <1>1, <2>2 DEF InTurn, Links, SelfSeen
    <3>2. \A t \in Elements(todo) : t.op \in {"stmt", "infos"} => t \in Elements(todo')
      BY <1>1, <1>2
    <3> QED BY <1>1, <1>3, <3>1, <3>2 DEF ToHandle
  <2> QED BY <2>1, <2>2
<1>11. InfosHandled'
  BY <1>1, <1>2, <1>3 DEF InTurn, Links, InfosHandled
<1>12. CallsFit'
  BY <1>1, SameCalls
<1> QED BY <1>1, <1>7, <1>8, <1>9, <1>10, <1>11, <1>12, LinksIn

LEMMA GenerateClassInLinks ==
  ASSUME InTurn, OInv, GenerateClass
  PROVE  InLinkOrder'
<1>1. IInv /\ Ordered /\ InTextOrder
  BY DEF OInv, InTurn
<1>2. PICK c \in Class, tasks \in Seq(Task) : Expand(c, tasks)
  BY <1>1, GenerateClassExpands
<1>3. UNCHANGED <<globals, infos, calls>>
  BY DEF GenerateClass
<1> QED BY <1>2, <1>3, ExpandLinks

-----------------------------------------------------------------------------
(***************************************************************************)
(* Between the turns.                                                      *)
(***************************************************************************)
LEMMA TurnTasks ==
  ASSUME TypeOK, DeclaredOnce, NEW f \in File, NEW t \in Elements(Turn(f))
  PROVE  t.op \in {"generate", "begin", "stmt", "end"}
<1>1. \A op, b, i : Do(op, b, i).op = op
  BY DEF Do
<1>2. /\ Elements(Turn(f)) = {Do("generate", c, 0) : c \in Elements(project.types[f])} \cup Elements(BodyTasks(f))
      /\ Elements(BodyTasks(f)) =
           {Do("begin", f, 0), Do("end", f, 0)} \cup {Do("stmt", f, i) : i \in DOMAIN project.body[f]}
  BY TurnLine, BodyElements DEF Body
<1> QED BY <1>1, <1>2


LEMMA StartGenInLinks ==
  ASSUME OInv, Ordered, InLinkOrder, StartGen
  PROVE  InLinkOrder'
<1>1. /\ pc = "sigs" /\ pc' = "gen" /\ todo' = Turn(project.order[1])
      /\ UNCHANGED <<project, emitIn, constructible, infos, globals, calls>>
  BY DEF StartGen, classVars
<1>2. TypeOK /\ DeclaredOnce /\ constructible = {} /\ globals = {} /\ calls = {}
  BY <1>1 DEF OInv, IInv, Ordered, InTextOrder, InLinkOrder
<1>3. \A c \in Class : ~ Emitted(c) /\ ~ infos[c].init
  BY <1>1 DEF OInv, IInv, InTime, Positions, Emitted, InLinkOrder
<1>4. \A c \in Class : ~ Emitted(c)' /\ ~ infos'[c].init
  BY <1>1, <1>3 DEF Emitted
<1>5. project.order[1] \in File
  <2>1. 1 \in DOMAIN project.order
    BY <1>2, ProjectType
  <2> QED BY <1>2, <2>1, ProjectType
<1>6. \A t \in Elements(todo') : t.op # "infos"
  BY <1>1, <1>2, <1>5, TurnTasks
<1>7. Defined' /\ InitSeen' /\ SelfSeen'
  BY <1>4 DEF Defined, InitSeen, SelfSeen
<1>8. GlobalsFit' /\ CallsFit' /\ InfosHandled'
  BY <1>1, <1>2, <1>6 DEF GlobalsFit, CallsFit, InfosHandled
<1> QED BY <1>1, <1>7, <1>8, LinksIn

LEMMA WriteInLinks ==
  ASSUME InTurn, Write
  PROVE  InLinkOrder'
<1>1. /\ todo = <<>> /\ pc = "gen"
      /\ UNCHANGED <<project, emitIn, constructible, globals, calls>>
      /\ \/ pos = Len(project.order) /\ pc' = "done" /\ UNCHANGED <<pos, todo>>
         \/ pos # Len(project.order) /\ pos' = pos + 1 /\ todo' = Turn(project.order[pos + 1]) /\ pc' = "gen"
  BY DEF Write
<1>2. \A c \in Class : infos'[c].init => infos[c].init
  BY DEF Write, InTurn, TypeOK, Handle
<1>3. /\ file \in File /\ Place(file) = pos /\ pos \in Nat
  BY HereIsPos DEF InTurn
<1>4. /\ \A c : SelfHandled(c)' = SelfHandled(c)
      /\ \A b, i : Handling(b, i)' = Handling(b, i)
      /\ \A c : Definition(c)' = Definition(c)
      /\ \A f : Place(f)' = Place(f)
      /\ \A c : Second(c)' = Second(c)
      /\ \A c : Emitted(c)' = Emitted(c)
  BY <1>1, SameHandling DEF Second, Emitted
<1>5. Elements(todo) = {} /\ \A c : ~ Due("typeInfo", c) /\ ~ ToHandle(c)
  BY <1>1, None DEF Due, ToHandle
<1>6. /\ \A t \in Elements(todo') : t.op \notin {"typeInfo", "infos"}
      /\ pc' = "gen" => pos' = pos + 1 /\ Place(file') = pos'
      /\ pos <= pos'
  <2>1. CASE pc' = "done"
    BY <1>1, <1>3, <1>5, <2>1
  <2>2. CASE pos # Len(project.order) /\ pos' = pos + 1 /\ todo' = Turn(project.order[pos + 1]) /\ pc' = "gen"
    <3>1. pos \in DOMAIN project.order
      BY CurrentFile DEF InTurn
    <3>2. DOMAIN project.order = 1 .. Len(project.order) /\ Len(project.order) \in Nat
      BY ProjectType DEF InTurn
    <3>3. pos + 1 \in DOMAIN project.order
      BY <2>2, <3>1, <3>2
    <3>4. project.order[pos + 1] \in File /\ Place(project.order[pos + 1]) = pos + 1
      BY <3>3, ProjectType, Where DEF InTurn
    <3>5. file' = project.order[pos + 1]
      BY <1>1, <2>2 DEF file
    <3>6. \A t \in Elements(todo') : t.op \in {"generate", "begin", "stmt", "end"}
      BY <2>2, <3>4, TurnTasks DEF InTurn
    <3> QED BY <1>3, <2>2, <3>4, <3>5, <3>6
  <2> QED BY <1>1, <2>1, <2>2
<1>7. \A c : ~ Due("typeInfo", c)'
  BY <1>6 DEF Due
<1>8. Defined'
  BY <1>1, <1>4, <1>5 DEF InTurn, Links, Defined
<1>9. GlobalsFit'
  <2> SUFFICES ASSUME NEW g \in globals PROVE GlobalFits(g)'
    BY <1>1 DEF GlobalsFit
  <2>1. GlobalFits(g) /\ g.in \in File
    BY DEF InTurn, Links, GlobalsFit, TypeOK, Global
  <2>2. Place(g.in) \in Nat
    BY <2>1, Numbers DEF InTurn
  <2>3. Place(g.in) <= pos' /\ (pc' = "gen" => g.in # file')
    BY <1>1, <1>3, <1>6, <2>1, <2>2 DEF GlobalFits
  <2> QED BY <1>4, <1>7, <2>1, <2>3 DEF GlobalFits
<1>10. InitSeen'
  BY <1>1, <1>2, <1>4 DEF InTurn, Links, InitSeen
<1>11. SelfSeen'
  BY <1>4, <1>5 DEF InTurn, Links, SelfSeen
<1>12. InfosHandled'
  BY <1>6 DEF InfosHandled
<1>13. CallsFit'
  BY <1>1, SameCalls
<1>14. pc' # "sigs"
  BY <1>1
<1> QED BY <1>8, <1>9, <1>10, <1>11, <1>12, <1>13, <1>14 DEF InLinkOrder, Links

LEMMA BetweenInLinks ==
  ASSUME InLinkOrder
  PROVE  /\ GenerateSigs => InLinkOrder'
         /\ \A how \in {"refused", "error", "crashed"} : End(how) => InLinkOrder'
         /\ UNCHANGED vars => InLinkOrder'
<1>1. CASE GenerateSigs
  <2>1. pc = "sigs" /\ UNCHANGED <<pc, globals, calls, infos>>
    BY <1>1 DEF GenerateSigs
  <2> QED BY <2>1 DEF InLinkOrder
<1>2. ASSUME NEW how \in {"refused", "error", "crashed"}, End(how) PROVE InLinkOrder'
  BY <1>2 DEF End, InLinkOrder
<1>3. CASE UNCHANGED vars
  <2>1. /\ UNCHANGED <<project, pc, pos, todo, emitIn, constructible, infos, globals, calls>>
        /\ file' = file
    BY <1>3 DEF vars, classVars, file
  <2>2. /\ \A c : SelfHandled(c)' = SelfHandled(c)
        /\ \A b, i : Handling(b, i)' = Handling(b, i)
        /\ \A c : Definition(c)' = Definition(c)
        /\ \A f : Place(f)' = Place(f)
    BY <2>1, SameHandling
  <2>3. /\ \A c : Emitted(c)' = Emitted(c) /\ Second(c)' = Second(c)
        /\ \A op, c : Due(op, c)' = Due(op, c)
    BY <2>1 DEF Emitted, Second, Due
  <2>4. \A c : ToHandle(c)' = ToHandle(c)
    BY <2>1, <2>2 DEF ToHandle
  <2>5. \A g : GlobalFits(g)' = GlobalFits(g)
    BY <2>1, <2>2, <2>3 DEF GlobalFits
  <2>6. Defined' = Defined /\ GlobalsFit' = GlobalsFit /\ InitSeen' = InitSeen
    BY <2>1, <2>2, <2>3, <2>5 DEF Defined, GlobalsFit, InitSeen
  <2>7. SelfSeen' = SelfSeen /\ InfosHandled' = InfosHandled /\ CallsFit' = CallsFit
    BY <2>1, <2>2, <2>3, <2>4 DEF SelfSeen, InfosHandled, CallsFit
  <2> QED BY <2>1, <2>6, <2>7 DEF InLinkOrder, Links
<1> QED BY <1>1, <1>2, <1>3

LEMMA NextInLinks ==
  ASSUME OInv, Ordered, InLinkOrder, [Next]_vars
  PROVE  InLinkOrder'
<1>1. IInv /\ InTextOrder
  BY DEF OInv
<1>2. pc = "gen" => InTurn
  BY Middle
<1>3. CASE UNCHANGED vars \/ Finished \/ GenerateSigs
  BY <1>3, BetweenInLinks DEF Finished
<1>4. CASE StartGen
  BY <1>4, StartGenInLinks
<1>5. CASE Write
  BY <1>2, <1>5, WriteInLinks DEF Write
<1>6. CASE GenerateAgain \/ Vtable \/ BeginBody \/ EndBody
  <2>1. pc = "gen"
    BY <1>6 DEF GenerateAgain, Vtable, BeginBody, EndBody, Current
  <2> QED BY <1>2, <1>6, <2>1, PlainInLinks
<1>7. CASE GenerateClass \/ TypeInfo \/ Construct \/ UseInfos
  <2>1. pc = "gen"
    BY <1>7 DEF GenerateClass, TypeInfo, Construct, UseInfos, Current
  <2> QED BY <1>2, <1>7, <2>1, GenerateClassInLinks, TypeInfoInLinks, ConstructInLinks, UseInfosInLinks
<1>8. CASE Return \/ New \/ Throw \/ Catch
  <2>1. pc = "gen"
    BY <1>8 DEF Return, New, Throw, Catch, Statement, Current
  <2> QED BY <1>1, <1>2, <1>8, <2>1, ReturnInLinks, NewInLinks, HandlingInLinks
<1>9. CASE Skipped
  BY <1>1, <1>9, NotSkipped
<1>10. CASE ConstructFails \/ EndBodyFails \/ WriteFails \/ SigsCrash \/ NotFound
  <2>1. End("error") \/ End("refused") \/ End("crashed")
    BY <1>10 DEF ConstructFails, EndBodyFails, WriteFails, SigsCrash, NotFound
  <2> QED BY <2>1, BetweenInLinks
<1> QED BY <1>3, <1>4, <1>5, <1>6, <1>7, <1>8, <1>9, <1>10 DEF Next

-----------------------------------------------------------------------------
(***************************************************************************)
(* Whatever the project: an ordered one keeps its links while it is        *)
(* compiled, class by class.                                               *)
(***************************************************************************)
THEOREM LinkInvariant == Spec => []LInv
<1>1. Init => LInv
  <2>1. Init => OInv
    BY InitKeeps, InitInOrder DEF OInv
  <2>2. Init => InLinkOrder
    BY DEF Init, InLinkOrder
  <2> QED BY <2>1, <2>2 DEF LInv
<1>2. LInv /\ [Next]_vars => LInv'
  <2> SUFFICES ASSUME LInv, [Next]_vars PROVE LInv'
    OBVIOUS
  <2>1. OInv /\ OInv'
    BY OInvKeeps DEF LInv
  <2>2. project' = project
    BY DEF Next, vars, classVars, bodyVars, Finished, GenerateSigs, StartGen, Write, GenerateAgain,
           GenerateClass, TypeInfo, Vtable, Construct, BeginBody, UseInfos, EndBody, Skipped, Return, New,
           Throw, Catch, ConstructFails, EndBodyFails, WriteFails, SigsCrash, NotFound, End, Continue
  <2>3. Ordered' = Ordered
    BY <2>2, SameText
  <2>4. Ordered => InLinkOrder'
    BY <2>1, NextInLinks DEF LInv
  <2> QED BY <2>1, <2>3, <2>4 DEF LInv
<1> QED BY <1>1, <1>2, PTL DEF Spec

\* When everything is compiled, every class is.
LEMMA AllCompiled ==
  ASSUME OInv, Ordered, pc = "done", NEW c \in Class
  PROVE  Emitted(c) /\ c \in constructible
<1>1. /\ TypeOK /\ DeclaredOnce /\ EmittedInTurn /\ Constructed /\ todo = <<>> /\ pos = Len(project.order)
  BY DEF OInv, IInv, InTextOrder, Line, Progress, Ordered
<1>2. Elements(todo) = {} /\ \A op, x : ~ Waits(op, x)
  BY <1>1, None DEF Waits
<1>3. pos \in DOMAIN project.order /\ project.order[pos] \in File /\ pos \in Nat
  BY <1>1, ProjectType
<1>4. file \in File /\ Place(file) = pos
  BY <1>1, <1>3, Where DEF file
<1>5. Home(c) \in File /\ Place(Home(c)) \in Nat /\ Place(Home(c)) <= pos
  BY <1>1, Where, Numbers
<1>6. Place(Home(c)) = pos => Home(c) = file
  BY <1>1, <1>4, <1>5, Numbers
<1>7. Emitted(c)
  BY <1>1, <1>2, <1>3, <1>5, <1>6 DEF EmittedInTurn
<1> QED BY <1>1, <1>2, <1>7 DEF Constructed

(***************************************************************************)
(* Whatever the ordered project: what is compiled links if and only if no  *)
(* method handles its own class, whose typeinfo getClassInfos would        *)
(* declare a second time, and no constructor calls super(...), which the   *)
(* mangler takes for a function.                                           *)
(***************************************************************************)
THEOREM LinkCorrect == Spec => []LinkedByRule
<1>1. ASSUME LInv, pc = "done", Ordered
      PROVE  Linkable <=> \A c \in Class : c \notin Handled(c) /\ project.ctor[c] # "super"
  <2>1. OInv /\ TypeOK /\ Defined /\ GlobalsFit /\ SelfSeen /\ CallsFit /\ todo = <<>>
    BY <1>1 DEF LInv, InLinkOrder, Links, OInv, IInv, InTextOrder
  <2>2. \A c \in Class : Emitted(c) /\ c \in constructible
    BY <1>1, <2>1, AllCompiled
  <2>3. \A c \in Class : ~ Due("typeInfo", c) /\ ~ ToHandle(c)
    BY <2>1, None DEF Due, ToHandle
  <2>4. \A c \in Class : Definition(c) \in globals
    BY <2>1, <2>2, <2>3 DEF Defined
  <2>5. \A c \in Class : SelfHandled(c) <=> Second(c)
    <3>1. \A c \in Class : SelfHandled(c) => Second(c)
      BY <2>1, <2>2, <2>3 DEF SelfSeen
    <3>2. \A c \in Class : Second(c) => SelfHandled(c)
      BY <2>1 DEF GlobalsFit, GlobalFits, Second
    <3> QED BY <3>1, <3>2
  <2>6. (\A g \in globals : \E d \in globals : d.def /\ d.of = g.of /\ d.n = g.n)
          <=> \A c \in Class : ~ Second(c)
    <3>1. ASSUME NEW g \in globals
          PROVE  (\E d \in globals : d.def /\ d.of = g.of /\ d.n = g.n) <=> g.n = 0
      <4>1. g.of \in Class
        BY <2>1 DEF TypeOK, Global
      <4>2. Definition(g.of) \in globals
        BY <2>4, <4>1
      <4>3. Definition(g.of).def /\ Definition(g.of).of = g.of /\ Definition(g.of).n = 0
        BY DEF Definition
      <4>4. \A d \in globals : d.def => d.n = 0
        BY <2>1 DEF GlobalsFit, GlobalFits
      <4> QED BY <4>2, <4>3, <4>4
    <3>2. \A g \in globals : g.of \in Class
      BY <2>1 DEF TypeOK, Global
    <3> QED BY <3>1, <3>2 DEF Second
  <2>7. (\A call \in calls : call[2] = "constructor") <=> \A c \in Class : project.ctor[c] # "super"
    <3>1. \A call \in calls : call[2] \in {"constructor", "function"}
      BY <2>1 DEF TypeOK
    <3>2. \A c \in Class : project.ctor[c] = "super" => <<project.super[c], "function">> \in calls
      BY <2>1, <2>2 DEF CallsFit
    <3> QED BY <2>1, <3>1, <3>2 DEF CallsFit
  <2> QED BY <2>5, <2>6, <2>7 DEF Linkable, SelfHandled
<1>2. LInv => LinkedByRule
  BY <1>1 DEF LinkedByRule
<1> QED BY <1>2, LinkInvariant, PTL
=============================================================================
