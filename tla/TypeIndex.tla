----------------------------- MODULE TypeIndex -----------------------------
(***************************************************************************)
(* The front end's tables of types: what the Indexer, the PreParser and    *)
(* the Parser enter for each declaration of a type (parsing/*.cpp), in the *)
(* order of FileCompiler's passes, and what a name in an `extends` or an   *)
(* `implements` then finds (Parser::parseContained, SrcFile::findContained)*)
(*                                                                         *)
(* A file is the list of files it uses and its text, cut down to the heads *)
(* of its types and the curly brackets that close them.  Structs and enums *)
(* hold no types, so their head stands for the whole.  A full name is the  *)
(* sequence of its parts.  Template and header types are left out.         *)
(***************************************************************************)
EXTENDS Integers, Sequences, FiniteSets, SequencesExt

CONSTANTS
  Name,
  Projects    \* the projects the front end is given

Containable == {"class", "namespace", "interface"}
Kind == Containable \cup {"struct", "enum"}
Path == Seq(Name)
TypeHead == [kind : Kind, name : Name,
             extends : Path,      \* of a class: its superclass, if it has one
             implements : Path,   \* of a class or interface: an interface, if it names one
             prim : BOOLEAN]      \* it declares a primitive field, or a value of an enum
Close == [kind |-> "}"]
IsHead(token) == token.kind \in Kind
Opens(token) == token.kind \in Containable

Null == 0
Outside == 0    \* a `use` of a file that is not in the file table

(* The curly brackets of a text match: no bracket closes more than is open *)
(* where it stands, and none is open at the end.                           *)
Level(text, p) ==   \* how many types are open in front of a place
  Cardinality({q \in 1 .. p - 1 : Opens(text[q])}) - Cardinality({q \in 1 .. p - 1 : ~ IsHead(text[q])})
Balanced(text) ==
  /\ \A p \in DOMAIN text : ~ IsHead(text[p]) => Level(text, p) > 0
  /\ Level(text, Len(text) + 1) = 0

(* `copies`: the file table holds copies of the files, as OptionsParser's  *)
(* modify makes them, and not the files that are compiled.                 *)
IsFile(file, files) ==
  /\ file.live \in BOOLEAN
  /\ file.uses \in Seq(DOMAIN files \cup {Outside})
  /\ file.text \in Seq(TypeHead \cup {Close})
  /\ Balanced(file.text)
IsProject(p) ==
  /\ p.copies \in BOOLEAN
  /\ Len(p.files) \in Nat \ {0}
  /\ DOMAIN p.files = 1 .. Len(p.files)
  /\ \A f \in DOMAIN p.files : IsFile(p.files[f], p.files)

ASSUME ProjectsAssumption == \A p \in Projects : IsProject(p)

VARIABLES
  project,
  pass,               \* "index", "preparse", "parse", or how the front end ended
  file, at,           \* the file that is read, and the token; 0: its uses
  object,             \* every IgType the Indexer made, in that order
  nameTypeMap,        \* per file
  unmangledTypeMap,   \* per file
  types,              \* per file
  indexSuper, preSuper, parserSuper   \* the m_super of Indexer, PreParser and Parser

tables == <<object, nameTypeMap, unmangledTypeMap, types>>
supers == <<indexSuper, preSuper, parserSuper>>
vars == <<project, pass, file, at, tables, supers>>

Files == DOMAIN project.files
Text(f) == project.files[f].text
Token == Text(file)[at]
Reading(thePass) == pass = thePass /\ at \in 1 .. Len(Text(file))
Innermost(super) == IF super = <<>> THEN Null ELSE Last(super)
Push(super, o) == Append(super, o)

(***************************************************************************)
(* mangleTypeName: the names of a type's containers and its own, outermost *)
(* first.  A type that is its own container is followed for ever.          *)
(***************************************************************************)
Containers(objects, o) ==   \* o, its container, the container of that, ...
  LET up[n \in 0 .. Len(objects)] ==
        IF n = 0 THEN o ELSE IF up[n - 1] = Null THEN Null ELSE objects[up[n - 1]].cont
  IN up
Endless(objects, o) == Containers(objects, o)[Len(objects)] # Null
Mangled(objects, o) ==
  LET up == Containers(objects, o)
      depth == Cardinality({n \in DOMAIN up : up[n] # Null})
  IN [i \in 1 .. depth |-> objects[up[depth - i]].name]

Bind(map, key, o) == [k \in DOMAIN map \cup {key} |-> IF k = key THEN o ELSE map[k]]
Unbind(map, key) == [k \in DOMAIN map \ {key} |-> map[k]]

(***************************************************************************)
(* Indexer::index.  An enum is pushed and never popped, so what is indexed *)
(* later, in this file or the next ones, is taken as part of it.           *)
(***************************************************************************)
UseFails(f) ==   \* getFile
  \E i \in DOMAIN project.files[f].uses :
     LET used == project.files[f].uses[i]
     IN used = Outside \/ (~ project.files[f].live /\ project.files[used].live)
IndexUses ==
  /\ pass = "index" /\ at = 0
  /\ IF UseFails(file) THEN pass' = "error" /\ at' = at ELSE pass' = pass /\ at' = 1
  /\ UNCHANGED <<project, file, tables, supers>>

NewType(head, cont) ==
  [kind |-> head.kind, name |-> head.name, cont |-> cont,
   extending |-> Null, implementing |-> <<>>, parsed |-> <<>>]
EnumsPopped(head, o) == indexSuper            \* variant: an enum is popped like the others
AllPushed(head, o) == Push(indexSuper, o)     \* variant: nothing is popped
IndexedWithin(head, o) == IF head.kind = "enum" THEN Push(indexSuper, o) ELSE indexSuper

IndexType ==
  /\ Reading("index") /\ IsHead(Token)
  /\ LET o == Len(object) + 1
         objects == Append(object, NewType(Token, Innermost(indexSuper)))
     IN /\ object' = objects
        /\ nameTypeMap' = [nameTypeMap EXCEPT ![file] = Bind(@, Mangled(objects, o), o)]
        /\ indexSuper' = IndexedWithin(Token, o)
  /\ at' = at + 1
  /\ UNCHANGED <<project, pass, file, unmangledTypeMap, types, preSuper, parserSuper>>

IndexOther ==
  /\ Reading("index") /\ ~ IsHead(Token)
  /\ at' = at + 1
  /\ UNCHANGED <<project, pass, file, tables, supers>>

EndIndex ==   \* FileCompiler::preParse pre-parses a file before it indexes the next
  /\ pass = "index" /\ at = Len(Text(file)) + 1
  /\ pass' = "preparse" /\ at' = 1
  /\ UNCHANGED <<project, file, tables, supers>>

(***************************************************************************)
(* PreParser::parseScope.  A name the table does not hold is entered, with *)
(* no type.                                                                *)
(***************************************************************************)
PlainType(head) ==
  IF <<head.name>> \in DOMAIN nameTypeMap[file] THEN nameTypeMap[file][<<head.name>>] ELSE Null
KindOf(objects, o) == IF o = Null THEN "none" ELSE objects[o].kind
IsMoved(o) == KindOf(object, o) \in Containable /\ preSuper # <<>>
WrittenWithDots(path) == Len(path) > 1

\* The primitive fields and the values of an enum are entered into the type.
FieldsCrash(head, o) ==
  head.prim /\ IF head.kind = "enum" THEN KindOf(object, o) # "enum" ELSE o = Null
PreParseEnds(head, o, objects) ==
  IF IsMoved(o) /\ Endless(objects, o) THEN "endless"
  ELSE IF WrittenWithDots(head.implements) THEN "error"
  ELSE IF FieldsCrash(head, o) THEN "crash"
  ELSE pass

KeptToo(map, head, objects, o) == Bind(map, Mangled(objects, o), o)   \* variant: the plain name stays
NotReentered(map, head, objects, o) == Unbind(map, <<head.name>>)     \* variant: no new name
MovedTo(map, head, objects, o) == Bind(Unbind(map, <<head.name>>), Mangled(objects, o), o)
PreParseType ==
  /\ Reading("preparse") /\ IsHead(Token)
  /\ LET o == PlainType(Token)
         objects == IF IsMoved(o) THEN [object EXCEPT ![o].cont = Last(preSuper)] ELSE object
         entered == Bind(nameTypeMap[file], <<Token.name>>, o)
         ends == PreParseEnds(Token, o, objects)
     IN /\ object' = objects
        /\ unmangledTypeMap' = [unmangledTypeMap EXCEPT ![file] = Bind(@, Token.name, o)]
        /\ nameTypeMap' = [nameTypeMap EXCEPT ![file] =
                             IF IsMoved(o) /\ ends # "endless" THEN MovedTo(entered, Token, objects, o) ELSE entered]
        /\ preSuper' = IF Opens(Token) /\ ends = pass THEN Push(preSuper, o) ELSE preSuper
        /\ pass' = ends
        /\ at' = IF ends = pass THEN at + 1 ELSE at
  /\ UNCHANGED <<project, file, types, indexSuper, parserSuper>>

PreParseClose ==
  /\ Reading("preparse") /\ ~ IsHead(Token)
  /\ preSuper' = Front(preSuper)
  /\ at' = at + 1
  /\ UNCHANGED <<project, pass, file, tables, indexSuper, parserSuper>>

EndPreParse ==
  /\ pass = "preparse" /\ at = Len(Text(file)) + 1
  /\ IF file = Len(project.files)
     THEN pass' = "parse" /\ file' = 1 /\ at' = 1
     ELSE pass' = "index" /\ file' = file + 1 /\ at' = 0
  /\ UNCHANGED <<project, tables, supers>>

(***************************************************************************)
(* Names.  A file looks into its own table and then into those of the      *)
(* files it uses, in order and depth first; without a mark, so files that  *)
(* use each other are followed until the stack is full.                    *)
(***************************************************************************)
Missing == -1
Overflow == -2
Unknown == -3   \* "Unknown Type": a part before the last is missing

TableOf(f, copied) == IF copied THEN <<>> ELSE nameTypeMap[f]
UsesOf(f, copied) == IF copied THEN <<>> ELSE project.files[f].uses
findContained(key) ==
  LET look[n \in 0 .. Len(project.files) + 1, f \in Files, copied \in BOOLEAN] ==
        IF key \in DOMAIN TableOf(f, copied) THEN TableOf(f, copied)[key]
        ELSE IF n = 0 THEN Overflow
        ELSE LET found == [i \in DOMAIN UsesOf(f, copied) |->
                             look[n - 1, UsesOf(f, copied)[i], project.copies]]
             IN FoldRight(LAMBDA here, later : IF here # Missing THEN here ELSE later, found, Missing)
  IN look[Len(project.files) + 1, file, FALSE]

parseContained(path) ==
  LET found == [n \in DOMAIN path |-> findContained(SubSeq(path, 1, n))]
      failed == SelectInSubSeq(found, 1, Len(path) - 1, LAMBDA o : o < Null)
  IN IF failed = 0 THEN found[Len(path)]
     ELSE IF found[failed] = Overflow THEN Overflow ELSE Unknown
KindFound(o) == IF o \in DOMAIN object THEN object[o].kind ELSE "none"

(***************************************************************************)
(* Parser::parseType.  A type is looked up by its plain name, and a null   *)
(* or a type of another kind is written to.                                *)
(***************************************************************************)
TypeAt(head) == unmangledTypeMap[file][head.name]

TakenAsFound(o) == o   \* variant: it is not looked up again
\* An interface extends what unmangledTypeMap has under a full name.
FoundAgain(o) ==
  IF Len(Mangled(object, o)) = 1 /\ Mangled(object, o)[1] \in DOMAIN unmangledTypeMap[file]
  THEN unmangledTypeMap[file][Mangled(object, o)[1]] ELSE Missing
Superclass(head) == IF head.extends = <<>> THEN Missing ELSE parseContained(head.extends)
Written(head) == parseContained(head.implements)
Extended(head) ==
  IF head.kind = "interface" /\ Written(head) > Null THEN FoundAgain(Written(head)) ELSE Written(head)

ExtendsEnds(head) ==
  IF head.extends = <<>> THEN pass
  ELSE IF Superclass(head) = Overflow THEN "crash"
  ELSE IF KindFound(Superclass(head)) = "class" THEN pass
  ELSE "error"
ImplementsEnds(head) ==
  IF head.implements = <<>> THEN pass
  ELSE IF Written(head) = Overflow \/ (head.kind = "interface" /\ Written(head) = Null) THEN "crash"
  ELSE IF head.kind = "interface" /\ Written(head) > Null /\ Endless(object, Written(head)) THEN "endless"
  ELSE IF KindFound(Extended(head)) = "interface" THEN pass
  ELSE "error"
ParseEnds(head) ==
  IF KindOf(object, TypeAt(head)) # head.kind THEN "crash"
  ELSE IF ExtendsEnds(head) # pass THEN ExtendsEnds(head) ELSE ImplementsEnds(head)

ContainerReset(type, head) ==   \* variant: a type outside of others is given none
  IF head.kind \in {"struct", "class", "namespace"} THEN Innermost(parserSuper) ELSE type.cont
ContainerOf(type, head) ==
  IF head.kind \in {"struct", "class", "namespace"} /\ parserSuper # <<>> THEN Last(parserSuper) ELSE type.cont
Parsed(type, head) ==
  [type EXCEPT
     !.cont = ContainerOf(type, head),
     !.extending = IF head.extends = <<>> THEN @ ELSE Superclass(head),
     !.implementing = IF head.implements = <<>> THEN @ ELSE Append(@, Extended(head)),
     !.parsed = Append(@, <<file, at>>)]

ParseType ==
  /\ Reading("parse") /\ IsHead(Token)
  /\ pass' = ParseEnds(Token)
  /\ IF pass' # pass THEN UNCHANGED <<at, object, types, parserSuper>>
     ELSE LET o == TypeAt(Token)
          IN /\ object' = [object EXCEPT ![o] = Parsed(@, Token)]
             /\ parserSuper' = IF Opens(Token) THEN Push(parserSuper, o) ELSE parserSuper
             /\ types' = IF Opens(Token) THEN types ELSE [types EXCEPT ![file] = Append(@, o)]
             /\ at' = at + 1
  /\ UNCHANGED <<project, file, nameTypeMap, unmangledTypeMap, indexSuper, preSuper>>

ParseClose ==
  /\ Reading("parse") /\ ~ IsHead(Token)
  /\ types' = [types EXCEPT ![file] = Append(@, Last(parserSuper))]
  /\ parserSuper' = Front(parserSuper)
  /\ at' = at + 1
  /\ UNCHANGED <<project, pass, file, object, nameTypeMap, unmangledTypeMap, indexSuper, preSuper>>

EndParse ==   \* parseProg of the next file
  /\ pass = "parse" /\ at = Len(Text(file)) + 1
  /\ IF file = Len(project.files)
     THEN pass' = "accepted" /\ UNCHANGED <<file, at>>
     ELSE pass' = pass /\ file' = file + 1 /\ at' = 1
  /\ UNCHANGED <<project, tables, supers>>

Ended == pass \in {"accepted", "error", "crash", "endless"}
Stopped == Ended /\ UNCHANGED vars

Init ==
  /\ project \in Projects
  /\ pass = "index" /\ file = 1 /\ at = 0
  /\ object = <<>>
  /\ nameTypeMap = [f \in Files |-> <<>>]
  /\ unmangledTypeMap = [f \in Files |-> <<>>]
  /\ types = [f \in Files |-> <<>>]
  /\ indexSuper = <<>> /\ preSuper = <<>> /\ parserSuper = <<>>

Next ==
  \/ IndexUses \/ IndexType \/ IndexOther \/ EndIndex
  \/ PreParseType \/ PreParseClose \/ EndPreParse
  \/ ParseType \/ ParseClose \/ EndParse
  \/ Stopped

Spec == Init /\ [][Next]_vars
=============================================================================
