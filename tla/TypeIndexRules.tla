--------------------------- MODULE TypeIndexRules ---------------------------
(***************************************************************************)
(* What the front end does with the types of a project, said in terms of   *)
(* the text alone: without its tables, its stacks and its passes.          *)
(***************************************************************************)
EXTENDS TypeIndex

(* A declaration is a file and the place of a head in its text.            *)
Decls(f) == {p \in DOMAIN Text(f) : IsHead(Text(f)[p])}
HeadAt(d) == Text(d[1])[d[2]]
Depth(f, p) == Level(Text(f), p)
Nested(f, p) == Depth(f, p) > 0
Encloses(f, q, p) == q < p /\ Opens(Text(f)[q]) /\ \A r \in q + 1 .. p : Depth(f, r) > Depth(f, q)
FullName(f, p) ==
  LET enclosing == SetToSortSeq({q \in Decls(f) : q = p \/ Encloses(f, q, p)}, <)
  IN [i \in DOMAIN enclosing |-> Text(f)[enclosing[i]].name]
Of(f, n) == {p \in Decls(f) : Text(f)[p].name = n}
NamesIn(f) == {Text(f)[p].name : p \in Decls(f)}

(* Each name is declared with one kind.  Without this an enum can hide a   *)
(* class, and the types in it become part of a struct of that name.        *)
OneKind ==
  \A f \in Files : \A p, q \in Decls(f) :
    Text(f)[p].name = Text(f)[q].name => Text(f)[p].kind = Text(f)[q].kind

(* The one declaration of a name whose object is used for all of them: the *)
(* last one of the file that no enum comes before, in any file.            *)
EnumBefore(f, p) ==
  \E g \in 1 .. f : \E q \in Decls(g) : (g < f \/ q < p) /\ Text(g)[q].kind = "enum"
Candidates(f, n) == {p \in Of(f, n) : ~ EnumBefore(f, p)}
Base(f, n) == Text(f)[Max(Candidates(f, n))]
AllDecls == UNION {{f} \X Decls(f) : f \in Files}
ObjectOf(f, p) == Cardinality({d \in AllDecls : d[1] < f \/ (d[1] = f /\ d[2] <= p)})
BaseObject(f, n) == IF Candidates(f, n) = {} THEN Null ELSE ObjectOf(f, Max(Candidates(f, n)))

(* It is lost when a class, namespace or interface of that name is nested  *)
(* in another type and the name is declared again behind it.               *)
Moves(f, n) == Base(f, n).kind \in Containable /\ \E p \in Of(f, n) : Nested(f, p)
LostTo(f, n) == Moves(f, n) /\ \E p \in Of(f, n) : Nested(f, p) /\ p # Max(Of(f, n))
UsableName(f, n) ==
  /\ Candidates(f, n) # {}
  /\ ~ LostTo(f, n)
  /\ \A p \in Of(f, n) : Text(f)[p].kind = Base(f, n).kind
  /\ \A p, q \in Of(f, n) : ~ Encloses(f, q, p)

(* References.  A class, namespace or interface that is nested goes by its *)
(* full name only, a struct or an enum that is nested by its plain name.   *)
Key(f, n) == IF Moves(f, n) THEN FullName(f, Max(Of(f, n))) ELSE <<n>>
KeyedIn(f, key) == {n \in NamesIn(f) : Key(f, n) = key}
FileOf(f, key) ==   \* its own types first, then those of the file it uses
  LET used == IF project.copies THEN {} ELSE Range(project.files[f].uses)
      having == {g \in used : KeyedIn(g, key) # {}}
  IN IF KeyedIn(f, key) # {} \/ having = {} THEN f ELSE CHOOSE g \in having : TRUE
Means(f, key) == {<<FileOf(f, key), n>> : n \in KeyedIn(FileOf(f, key), key)}
IsA(means, kind) == \E m \in means : Base(m[1], m[2]).kind = kind
(* An interface that extends n takes the interface n of its own file, be   *)
(* it nested in another type, and needs some n to go by that name.         *)
MeansExtended(f, head) ==
  LET n == head.implements[1]
  IN IF head.kind = "class" THEN Means(f, <<n>>)
     ELSE IF Means(f, <<n>>) # {} /\ n \in NamesIn(f) THEN {<<f, n>>} ELSE {}

AcceptedHead(f, head) ==
  /\ head.extends = <<>> \/ IsA(Means(f, head.extends), "class")
  /\ \A n \in 1 .. Len(head.extends) - 1 : Means(f, SubSeq(head.extends, 1, n)) # {}
  /\ Len(head.implements) <= 1
  /\ head.implements = <<>> \/ IsA(MeansExtended(f, head), "interface")
Accepts ==
  /\ \A f \in Files : ~ UseFails(f)
  /\ \A f \in Files : \A n \in NamesIn(f) : UsableName(f, n)
  /\ \A f \in Files : \A p \in Decls(f) : AcceptedHead(f, Text(f)[p])

-----------------------------------------------------------------------------
Object == DOMAIN object

(* The state is what the program can hold: the PreParser's and the Parser's*)
(* stacks are as deep as the text is nested where they read, m_super of the*)
(* Indexer holds enums only, and no type contains itself when the Parser   *)
(* runs.                                                                   *)
TypeOK ==
  /\ pass \in {"index", "preparse", "parse", "accepted", "error", "crash", "endless"}
  /\ file \in Files /\ at \in 0 .. Len(Text(file)) + 1
  /\ \A o \in Object : object[o].cont \in {Null} \cup Object /\ object[o].extending \in {Null} \cup Object
  /\ \A f \in Files : /\ Range(nameTypeMap[f]) \subseteq {Null} \cup Object
                      /\ DOMAIN unmangledTypeMap[f] \subseteq NamesIn(f)
                      /\ Range(unmangledTypeMap[f]) \subseteq {Null} \cup Object
                      /\ Range(types[f]) \subseteq Object
  /\ \A i \in DOMAIN indexSuper : object[indexSuper[i]].kind = "enum"
  /\ Len(preSuper) = IF pass = "preparse" THEN Depth(file, at) ELSE Len(preSuper)
  /\ Len(parserSuper) = IF pass = "parse" THEN Depth(file, at) ELSE Len(parserSuper)
  /\ pass = "parse" /\ OneKind => \A o \in Object : ~ Endless(object, o)

(* Which projects the front end accepts is decided by the text: every name *)
(* has one usable object in its file and every reference one of the right  *)
(* kind.  Everything else ends in an error, a null pointer or a loop       *)
(* (Indexer.cpp:61, PreParser.cpp:60, Parser.cpp:955).                     *)
AcceptedByRule == Ended => (pass = "accepted" <=> Accepts)

(* Two declarations of an accepted project are read into one object exactly*)
(* if they are in one file under one plain name, whatever contains them:   *)
(* the second adds its members to the first, and nothing is reported       *)
(* (Parser.cpp:923, :959, :1042, :1064, :1092).                            *)
SharedByName ==
  pass = "accepted" =>
    \A o \in Object :
      LET ofThis == {d \in AllDecls : BaseObject(d[1], HeadAt(d).name) = o}
      IN Range(object[o].parsed) = ofThis /\ Len(object[o].parsed) = Cardinality(ofThis)

(* What a class extends and what a class or interface implements is the    *)
(* type that the text means by the name it writes (Parser.cpp:891, :986,   *)
(* :995, :1071).                                                           *)
Meant(means) == {BaseObject(m[1], m[2]) : m \in means}
ReferencesByRule ==
  pass = "accepted" =>
    \A o \in Object :
      LET extending == SelectSeq(object[o].parsed, LAMBDA d : HeadAt(d).extends # <<>>)
          implementing == SelectSeq(object[o].parsed, LAMBDA d : HeadAt(d).implements # <<>>)
      IN /\ IF extending = <<>> THEN object[o].extending = Null
            ELSE Meant(Means(Last(extending)[1], HeadAt(Last(extending)).extends)) = {object[o].extending}
         /\ Len(object[o].implementing) = Len(implementing)
         /\ \A i \in DOMAIN implementing :
              Meant(MeansExtended(implementing[i][1], HeadAt(implementing[i]))) = {object[o].implementing[i]}

(* Generator::reset reaches every type of a file it has written: all of    *)
(* them are in its nameTypeMap, though they were entered, overwritten and  *)
(* renamed there, and that map holds no null (Generator.cpp:497).          *)
EveryTypeReset ==
  pass = "accepted" =>
    \A f \in Files : Range(types[f]) \subseteq Range(nameTypeMap[f]) /\ Null \notin Range(nameTypeMap[f])

(* Once the Parser runs, no class, namespace or interface changes its full *)
(* name, though it writes contType again (Parser.cpp:926, :962, :1044):    *)
(* what was looked up under a name goes by it until the end.               *)
NamesSettled ==
  [][pass = "parse" /\ OneKind =>
       \A o \in Object : object[o].kind \in Containable => Mangled(object', o) = Mangled(object, o)]_vars
=============================================================================
