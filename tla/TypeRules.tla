----------------------------- MODULE TypeRules ------------------------------
(***************************************************************************)
(* What a project has to be like for TypeEmission to compile it, said of   *)
(* the project alone.  The rules are those of an ordered project, whose    *)
(* classes are declared once, before they are extended, thrown or caught.  *)
(***************************************************************************)
EXTENDS TypeEmission

Place(f) == CHOOSE i \in DOMAIN project.order : project.order[i] = f
Rank(c) == CHOOSE i \in DOMAIN project.types[Home(c)] : project.types[Home(c)][i] = c

DeclaredBefore(c, d) ==
  \/ Place(Home(c)) < Place(Home(d))
  \/ Home(c) = Home(d) /\ Rank(c) < Rank(d)

\* The classes whose infos, or whose constructor, the code of a body asks for
Asked(b, ops) ==
  {project.body[b][i].of : i \in {j \in DOMAIN project.body[b] : project.body[b][j].op \in ops}}
Handled(b) == Asked(b, {"throw", "catch"})

\* Every file is compiled, and once; every class is declared once.
DeclaredOnce ==
  /\ Elements(project.order) = File
  /\ \A i, j \in DOMAIN project.order : project.order[i] = project.order[j] => i = j
  /\ \A f, g \in File : \A i \in DOMAIN project.types[f], j \in DOMAIN project.types[g] :
       project.types[f][i] = project.types[g][j] => f = g /\ i = j

Ordered ==
  /\ DeclaredOnce
  /\ \A c \in Class : \A d \in Handled(c) \cup Ancestors(c) : d = c \/ DeclaredBefore(d, c)
  /\ \A f \in File : \A d \in Handled(f) : Place(Home(d)) <= Place(f)

\* The bodies generated in the turn of a file
Bodies(f) == {f} \cup Elements(project.types[f])

\* Files other than its own that use the typeinfo of a class
ForeignUsers(c) ==
  {f \in File \ {Home(c)} :
     \/ c \in UNION {Handled(b) : b \in Bodies(f)}
     \/ c \in UNION {Ancestors(d) : d \in Elements(project.types[f])}}

\* Files with a subclass whose constructor calls the one of the class
DefaultCallers(c) ==
  {Home(d) : d \in {e \in Class : project.super[e] = c /\ project.ctor[e] # "super"}}

\* Constructors as the language asks for them
ConstructorsFit ==
  \A c \in Class :
    LET s == project.super[c] IN
    /\ project.ctor[c] = "super" => s # NoClass
    /\ project.ctor[c] = "implicit" /\ s # NoClass => project.ctor[s] # "args"

\* No file that a file with a throw uses, or one of these uses, is part of a circle.
Uses(f) == Elements(project.using[f])
Used(f) == {g \in File : \A S \in SUBSET File : f \in S /\ (\A h \in S : Uses(h) \subseteq S) => g \in S}
NoRound ==
  \A f \in File :
    UNION {Asked(b, {"throw"}) : b \in Bodies(f)} # {} =>
      \A S \in SUBSET Used(f) \ {{}} : \E g \in S : Uses(g) \cap S = {}

Acceptable ==
  /\ \A c \in Class : c \notin Ancestors(c)
  /\ ConstructorsFit
  /\ NoRound
  /\ \A c \in Class :
       /\ Cardinality(ForeignUsers(c)) <= 1
       /\ CASE project.ctor[c] = "implicit" -> Cardinality(DefaultCallers(c)) <= 1
            [] project.ctor[c] = "args" -> TRUE
            [] OTHER -> DefaultCallers(c) \subseteq {Home(c)}

-----------------------------------------------------------------------------
(***************************************************************************)
(* Of the ordered projects exactly the acceptable are compiled.  What      *)
(* getClassInfos, getLLVMFunc and the default constructor cache is         *)
(* forgotten once, when the class's own file is written, or never: the     *)
(* typeinfo of a class can be used by one other file, a constructor with a *)
(* signature of its own by none.                                           *)
(***************************************************************************)
AcceptedByRule == pc \in Ended /\ Ordered => (pc = "done" <=> Acceptable)

(***************************************************************************)
(* Whatever the order, no cached handle of another module gets past        *)
(* Generator::write: what is compiled has no reference across modules.     *)
(***************************************************************************)
StaleIsSeen == pc = "done" => refs = {}

(***************************************************************************)
(* What is compiled links, unless a method handles its own class, whose    *)
(* typeinfo it finds "not yet" and declares a second time under a number,  *)
(* or a constructor calls super(...), which is mangled as a function.      *)
(***************************************************************************)
Linkable ==
  /\ \A g \in globals : \E d \in globals : d.def /\ d.of = g.of /\ d.n = g.n
  /\ \A call \in calls : call[2] = "constructor"

LinkedByRule ==
  pc = "done" /\ Ordered =>
    (Linkable <=> \A c \in Class : c \notin Handled(c) /\ project.ctor[c] # "super")

(***************************************************************************)
(* In an ordered project every statement of every body is generated: the   *)
(* flag that a nested class leaves behind never ends the body around it.   *)
(***************************************************************************)
CompleteIfOrdered == pc = "done" /\ Ordered => dropped = {}

(***************************************************************************)
(* NodeTermClassNew calls the constructor exactly of the classes declared  *)
(* before; any other `new` gives an object nothing has constructed.        *)
(***************************************************************************)
News(b) == {<<b, i>> : i \in {j \in DOMAIN project.body[b] : project.body[b][j].op = "new"}}
TooEarly(b, c) ==
  IF b \in Class THEN ~ DeclaredBefore(c, b) ELSE Place(Home(c)) > Place(b)

SilentByRule ==
  pc = "done" /\ Ordered =>
    silent = {at \in UNION {News(b) : b \in Body} : TooEarly(at[1], project.body[at[1]][at[2]].of)}

(***************************************************************************)
(* The message of Class::generate says that without a default constructor  *)
(* "manual call to super() needed"; a subclass with a constructor of its   *)
(* own and no such call is compiled, and the superclass not constructed.   *)
(***************************************************************************)
ManualSuperNeeded ==
  pc = "done" =>
    \A c \in Class :
      project.super[c] # NoClass /\ project.ctor[project.super[c]] = "args" =>
        project.ctor[c] = "super"
=============================================================================
