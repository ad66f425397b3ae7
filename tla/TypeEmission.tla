---------------------------- MODULE TypeEmission ----------------------------
(***************************************************************************)
(* How the classes of a compilation are emitted: Class::generateSig,       *)
(* Class::generate and Class::getClassInfos (codeGen/types.cpp), driven by *)
(* preGen and genNonLive over the files (Generator::generateSigs, generate,*)
(* write, reset).                                                          *)
(*                                                                         *)
(* A class is emitted once, into the module that is current when it is     *)
(* first needed: its own file's turn, the turn of a subclass, or a throw or*)
(* a catch in some body, in the middle of which the whole class is then    *)
(* generated.  What was created is cached in the class (typeinfo, method   *)
(* and constructor handles) and only writing the class's own file forgets  *)
(* some of it.  LLVM refuses a module that touches a global of another.    *)
(*                                                                         *)
(* The call stack is `todo`, the list of what is still to be done, next    *)
(* first.  A body is the function of a file or the one method of a class;  *)
(* it returns a value exactly if it ends in return or throw.               *)
(***************************************************************************)
EXTENDS Naturals, Sequences, FiniteSets

CONSTANTS
  File, Class,
  Exception,   \* the library class every throw looks for; no file declares it
  NoFile, NoClass,
  Projects

Body == File \cup Class
Stmt == [op : {"new", "throw", "catch"}, of : Class] \cup [op : {"return"}, of : {NoClass}]
Elements(s) == {s[i] : i \in DOMAIN s}

(***************************************************************************)
(* A project: the files in the order they are compiled, what they declare  *)
(* and use; superclass and constructor of each class ("explicit": one      *)
(* without parameters, "args": only with parameters, "super": one without  *)
(* parameters that begins with a call of super(...)); the bodies, without  *)
(* what would follow a jump (StmtGen has that).                            *)
(***************************************************************************)
Project ==
  {p \in [order : Seq(File) \ {<<>>}, types : [File -> Seq(Class)], using : [File -> Seq(File)],
          super : [Class -> Class \cup {NoClass}],
          ctor : [Class -> {"implicit", "explicit", "args", "super"}],
          body : [Body -> Seq(Stmt)]] :
     /\ \A c \in Class : \E f \in Elements(p.order) : c \in Elements(p.types[f])
     /\ \A b \in Body : \A i \in DOMAIN p.body[b] :
          p.body[b][i].op \in {"return", "throw"} => i = Len(p.body[b])}

ASSUME NamesAssumption ==
  /\ IsFiniteSet(File)
  /\ IsFiniteSet(Class)
  /\ File \cap Class = {}
  /\ Exception \notin Class
  /\ NoFile \notin Body
  /\ NoClass \notin Class
ASSUME ProjectsAssumption == Projects \subseteq Project

VARIABLES
  project,
  pc,       \* the phase, or how the compiler ended
  pos,      \* position of the current file in project.order
  todo,
  sigIn,    \* file in whose turn a class got its signature, explicit constructor and registration
  emitIn,   \* file in whose turn Class::generate began
  constructible,   \* classes with hasConstructor
  infos,    \* classInfos: is it init, and which global typeInfo is
  globals,  \* the typeinfo globals there are, definitions and declarations
  methodIn, \* module of the cached handle of the method
  ctorIn,   \* module of the cached handle of an implicit constructor
  refs,     \* uses of a global of one module in another
  calls,    \* constructors called: <<class, how it was named>>
  point,    \* body the builder inserts into, NoFile when none of them
  lastUnreachable,
  dropped,  \* statements for which no code was generated
  silent    \* `new` without a constructor call

classVars == <<sigIn, emitIn, constructible, infos, globals, methodIn, ctorIn, refs, calls>>
bodyVars == <<point, lastUnreachable, dropped, silent>>
vars == <<project, pc, pos, todo, classVars, bodyVars>>

Global == [in : File, of : Class, n : Nat, def : BOOLEAN]
Handle == [init : BOOLEAN, in : File \cup {NoFile}, n : Nat]
Task == [op : {"generate", "typeInfo", "vtable", "begin", "stmt", "infos", "end", "construct"},
         of : Body, at : Nat]
Ended == {"done", "refused", "error", "crashed"}

TypeOK ==
  /\ project \in Project
  /\ pc \in {"sigs", "gen"} \cup Ended
  /\ pos \in Nat \ {0}
  /\ todo \in Seq(Task)
  /\ sigIn \in [Class -> File \cup {NoFile}]
  /\ emitIn \in [Class -> File \cup {NoFile}]
  /\ constructible \subseteq Class
  /\ infos \in [Class -> Handle]
  /\ globals \subseteq Global
  /\ methodIn \in [Class -> File \cup {NoFile}]
  /\ ctorIn \in [Class -> File \cup {NoFile}]
  /\ refs \subseteq File \X File
  /\ calls \subseteq Class \X {"constructor", "function"}
  /\ point \in Body \cup {NoFile}
  /\ lastUnreachable \in BOOLEAN
  /\ dropped \subseteq Body \X Nat
  /\ silent \subseteq Body \X Nat

-----------------------------------------------------------------------------
file == project.order[pos]
Home(c) == CHOOSE f \in File : c \in Elements(project.types[f])

\* The superclass, its superclass, and so on: the least set closed under `super`.
UpClosed(S) == \A d \in S : project.super[d] \in S \cup {NoClass}
Ancestors(c) ==
  {a \in Class : \A S \in SUBSET Class :
                   project.super[c] \in S \cup {NoClass} /\ UpClosed(S) => a \in S}
Lineage(c) == {c} \cup Ancestors(c)

(***************************************************************************)
(* SrcFile::findClass: the table of the file, then the files it uses, one  *)
(* after the other and without a mark on those already asked.  A search    *)
(* that goes deeper than there are files goes round in circles.            *)
(***************************************************************************)
Found(answer) == answer # "missing"
FindClass(using, table, c) ==
  LET find[depth \in 0 .. Cardinality(File)] ==
        [f \in File |->
           IF c \in table[f] THEN "found"
           ELSE IF depth = 0 THEN "endless"
           ELSE LET answers == SelectSeq([i \in DOMAIN using[f] |-> find[depth - 1][using[f][i]]], Found)
                IN IF answers = <<>> THEN "missing" ELSE answers[1]]
  IN find[Cardinality(File)]

Registered == [f \in File |-> {c \in Class : sigIn[c] = f}]
Lookup(c) == FindClass(project.using, Registered, c)[file]

-----------------------------------------------------------------------------
Do(op, of, at) == [op |-> op, of |-> of, at |-> at]

ReturnsValue(b) ==
  project.body[b] # <<>> /\ project.body[b][Len(project.body[b])].op \in {"return", "throw"}

\* IgFunction::genFunc
BodyTasks(b) ==
  <<Do("begin", b, 0)>> \o [i \in DOMAIN project.body[b] |-> Do("stmt", b, i)] \o <<Do("end", b, 0)>>

\* Generator::generate: the types of the file, then its function
Turn(f) ==
  [i \in DOMAIN project.types[f] |-> Do("generate", project.types[f][i], 0)] \o BodyTasks(f)

Init ==
  /\ project \in Projects
  /\ pc = "sigs"
  /\ pos = 1
  /\ todo = <<>>
  /\ sigIn = [c \in Class |-> NoFile]
  /\ emitIn = [c \in Class |-> NoFile]
  /\ constructible = {}
  /\ infos = [c \in Class |-> [init |-> FALSE, in |-> NoFile, n |-> 0]]
  /\ globals = {}
  /\ methodIn = [c \in Class |-> NoFile]
  /\ ctorIn = [c \in Class |-> NoFile]
  /\ refs = {}
  /\ calls = {}
  /\ point = NoFile
  /\ lastUnreachable = FALSE
  /\ dropped = {}
  /\ silent = {}

Current(op) == pc = "gen" /\ todo # <<>> /\ Head(todo).op = op
Continue(tasks) == todo' = tasks \o Tail(todo) /\ UNCHANGED <<project, pc, pos>>
End(how) == pc' = how /\ UNCHANGED <<project, pos, todo, classVars, bodyVars>>

-----------------------------------------------------------------------------
\* preGen: the signature of a class takes those of its ancestors with it.
Signed == UNION {Lineage(c) : c \in Elements(project.types[file])}

\* Class::generatePart asks for the methods of the class, of its superclass, and so on:
\* when the superclasses go round in a circle, getFuncsRec does not end.
RoundAndRound == \E c \in Signed : c \in Ancestors(c)

SigsCrash == pc = "sigs" /\ pos <= Len(project.order) /\ RoundAndRound /\ End("crashed")

GenerateSigs ==
  /\ pc = "sigs"
  /\ pos <= Len(project.order)
  /\ ~ RoundAndRound
  /\ sigIn' = [c \in Class |-> IF c \in Signed /\ sigIn[c] = NoFile THEN file ELSE sigIn[c]]
  /\ pos' = pos + 1
  /\ UNCHANGED <<project, pc, todo, emitIn, constructible, infos, globals, methodIn, ctorIn,
                 refs, calls, bodyVars>>

StartGen ==
  /\ pc = "sigs"
  /\ pos > Len(project.order)
  /\ pc' = "gen"
  /\ pos' = 1
  /\ todo' = Turn(project.order[1])
  /\ UNCHANGED <<project, classVars, bodyVars>>

(***************************************************************************)
(* Class::generate: once; the superclass first, then the typeinfo, the     *)
(* virtual table, the methods and the constructor.                         *)
(***************************************************************************)
GenerateAgain ==
  /\ Current("generate")
  /\ emitIn[Head(todo).of] # NoFile
  /\ Continue(<<>>)
  /\ UNCHANGED <<classVars, bodyVars>>

SuperclassAlways(c) == <<Do("generate", project.super[c], 0)>>   \* variant: no test for a superclass

Superclass(c) ==
  IF project.super[c] = NoClass THEN <<>> ELSE <<Do("generate", project.super[c], 0)>>

GenerateClassReady ==   \* variant: hasConstructor is set at the start
  /\ Current("generate")
  /\ LET c == Head(todo).of IN
       /\ emitIn[c] = NoFile
       /\ emitIn' = [emitIn EXCEPT ![c] = file]
       /\ constructible' = constructible \cup {c}
       /\ Continue(Superclass(c) \o <<Do("typeInfo", c, 0), Do("vtable", c, 0)>>
                   \o BodyTasks(c) \o <<Do("construct", c, 0)>>)
  /\ UNCHANGED <<sigIn, infos, globals, methodIn, ctorIn, refs, calls, bodyVars>>

GenerateClass ==
  /\ Current("generate")
  /\ LET c == Head(todo).of IN
       /\ emitIn[c] = NoFile
       /\ emitIn' = [emitIn EXCEPT ![c] = file]
       /\ Continue(Superclass(c) \o <<Do("typeInfo", c, 0), Do("vtable", c, 0)>>
                   \o BodyTasks(c) \o <<Do("construct", c, 0)>>)
  /\ UNCHANGED <<sigIn, constructible, infos, globals, methodIn, ctorIn, refs, calls, bodyVars>>

\* LLVM numbers the globals that would have the same name in a module.
Number(c) == Cardinality({g \in globals : g.in = file /\ g.of = c})
Created(c, def) == [in |-> file, of |-> c, n |-> Number(c), def |-> def]
Across(handles) == {<<file, f>> : f \in handles \ {file, NoFile}}

(***************************************************************************)
(* Class::getClassInfos for each class of a set: what is cached, or a      *)
(* declaration in the current module, cached from now on.                  *)
(***************************************************************************)
Declared(used) == {c \in used : ~ infos[c].init}
InfosAfter(used) ==
  [c \in Class |-> IF c \in Declared(used) THEN [init |-> TRUE, in |-> file, n |-> Number(c)]
                   ELSE infos[c]]
DeclarationsAfter(used) == globals \cup {Created(c, FALSE) : c \in Declared(used)}
InfosRefs(used) == Across({infos[c].in : c \in used \ Declared(used)})

TypeInfo ==
  /\ Current("typeInfo")
  /\ LET c == Head(todo).of IN
       /\ globals' = DeclarationsAfter(Ancestors(c)) \cup {Created(c, TRUE)}
       /\ infos' = [InfosAfter(Ancestors(c)) EXCEPT ![c].in = file, ![c].n = Number(c)]
       /\ refs' = refs \cup InfosRefs(Ancestors(c))
  /\ Continue(<<>>)
  /\ UNCHANGED <<sigIn, emitIn, constructible, methodIn, ctorIn, calls, bodyVars>>

\* IgFunction::getLLVMFunc for the methods of the class and of its ancestors
Vtable ==
  /\ Current("vtable")
  /\ LET used == Lineage(Head(todo).of) IN
       /\ methodIn' = [c \in Class |-> IF c \in used /\ methodIn[c] = NoFile THEN file ELSE methodIn[c]]
       /\ refs' = refs \cup Across({methodIn[c] : c \in used})
  /\ Continue(<<>>)
  /\ UNCHANGED <<sigIn, emitIn, constructible, infos, globals, ctorIn, calls, bodyVars>>

(***************************************************************************)
(* The constructor of a class.  An explicit one gets its body where its    *)
(* signature was created, an implicit one is created here.  Unless it      *)
(* begins with super(...) it calls the constructor without parameters of   *)
(* the superclass if that has one by now; the call of super(...) names a   *)
(* function, not a constructor.                                            *)
(***************************************************************************)
HasDefault(c) ==
  \/ project.ctor[c] \in {"explicit", "super"}
  \/ project.ctor[c] = "implicit" /\ c \in constructible
DefaultInCurrent(c) == NoFile   \* variant: the constructor is looked up by its name

DefaultIn(c) == IF project.ctor[c] = "implicit" THEN ctorIn[c] ELSE sigIn[c]
CtorModule(c) == IF project.ctor[c] = "implicit" THEN file ELSE sigIn[c]

NoDefault(c) ==
  \/ project.ctor[c] = "super" /\ project.super[c] = NoClass
  \/ project.ctor[c] = "implicit" /\ project.super[c] # NoClass /\ ~ HasDefault(project.super[c])

CallsDefault(c) ==
  project.super[c] # NoClass /\ project.ctor[c] # "super" /\ HasDefault(project.super[c])

\* What NodeStmtSuperConstructorCall hands to the mangler
SuperNamedConstructor == "constructor"   \* variant: as a constructor

SuperNamed == "function"

\* The modules whose globals the constructor of c touches.
CtorUses(c) ==
  {file} \cup (IF CallsDefault(c) /\ DefaultIn(project.super[c]) # NoFile
               THEN {DefaultIn(project.super[c])} ELSE {})

Construct ==
  /\ Current("construct")
  /\ LET c == Head(todo).of
         s == project.super[c] IN
       /\ ~ NoDefault(c)
       /\ ctorIn' = IF CallsDefault(c) /\ project.ctor[s] = "implicit" /\ ctorIn[s] = NoFile
                    THEN [ctorIn EXCEPT ![s] = file] ELSE ctorIn
       /\ refs' = refs \cup {<<CtorModule(c), f>> : f \in CtorUses(c) \ {CtorModule(c)}}
       /\ calls' = calls \cup (IF CallsDefault(c) THEN {<<s, "constructor">>} ELSE {})
                         \cup (IF project.ctor[c] = "super" THEN {<<s, SuperNamed>>} ELSE {})
       /\ constructible' = constructible \cup {c}
       /\ infos' = [infos EXCEPT ![c].init = TRUE]
       /\ lastUnreachable' = (lastUnreachable /\ project.ctor[c] = "implicit")
  /\ point' = NoFile
  /\ Continue(<<>>)
  /\ UNCHANGED <<sigIn, emitIn, globals, methodIn, dropped, silent>>

ConstructFails == Current("construct") /\ NoDefault(Head(todo).of) /\ End("error")

-----------------------------------------------------------------------------
BeginBodyFlagKept ==   \* variant: lastUnreachable is not reset
  /\ Current("begin")
  /\ point' = Head(todo).of
  /\ Continue(<<>>)
  /\ UNCHANGED <<classVars, lastUnreachable, dropped, silent>>

BeginBody ==
  /\ Current("begin")
  /\ point' = Head(todo).of
  /\ lastUnreachable' = FALSE
  /\ Continue(<<>>)
  /\ UNCHANGED <<classVars, dropped, silent>>

statement == project.body[Head(todo).of][Head(todo).at]
Statement(op) == Current("stmt") /\ ~ lastUnreachable /\ statement.op = op

\* What follows code that ends in a jump is not generated.
Skipped ==
  /\ Current("stmt")
  /\ lastUnreachable
  /\ dropped' = dropped \cup {<<Head(todo).of, Head(todo).at>>}
  /\ Continue(<<>>)
  /\ UNCHANGED <<classVars, point, lastUnreachable, silent>>

Return ==
  /\ Statement("return")
  /\ lastUnreachable' = TRUE
  /\ Continue(<<>>)
  /\ UNCHANGED <<classVars, point, dropped, silent>>

\* A name that is not found is an error, except in a catch, which does not look.
NotFound ==
  /\ \E op \in {"new", "throw", "catch"} : Statement(op)
  /\ \/ /\ Lookup(statement.of) = "missing"
        /\ End(IF statement.op = "catch" THEN "crashed" ELSE "error")
     \/ /\ Lookup(statement.of) = "endless"
        /\ End("crashed")
     \/ /\ Lookup(statement.of) = "found"
        /\ statement.op = "throw"
        /\ Lookup(Exception) = "endless"
        /\ End("crashed")

\* NodeTermClassNew: the constructor is called if hasConstructor is set by now.
New ==
  /\ Statement("new")
  /\ Lookup(statement.of) = "found"
  /\ IF statement.of \in constructible
       THEN calls' = calls \cup {<<statement.of, "constructor">>} /\ UNCHANGED silent
       ELSE silent' = silent \cup {<<Head(todo).of, Head(todo).at>>} /\ UNCHANGED calls
  /\ Continue(<<>>)
  /\ UNCHANGED <<sigIn, emitIn, constructible, infos, globals, methodIn, ctorIn, refs,
                 point, lastUnreachable, dropped>>

(***************************************************************************)
(* `throw x`, and `try { return } catch (C x) { }`: both end by asking for *)
(* the classInfos of the class, which generates it if need be.             *)
(***************************************************************************)
Throw ==
  /\ Statement("throw")
  /\ Lookup(statement.of) = "found"
  /\ Lookup(Exception) # "endless"
  /\ lastUnreachable' = TRUE
  /\ Continue(<<Do("generate", statement.of, 0), [Head(todo) EXCEPT !.op = "infos"]>>)
  /\ UNCHANGED <<classVars, point, dropped, silent>>

Catch ==
  /\ Statement("catch")
  /\ Lookup(statement.of) = "found"
  /\ lastUnreachable' = FALSE
  /\ Continue(<<Do("generate", statement.of, 0), [Head(todo) EXCEPT !.op = "infos"]>>)
  /\ UNCHANGED <<classVars, point, dropped, silent>>

\* A catch goes back to its own block afterwards, a throw goes on wherever the builder is.
UseInfos ==
  /\ Current("infos")
  /\ infos' = InfosAfter({statement.of})
  /\ globals' = DeclarationsAfter({statement.of})
  /\ refs' = refs \cup InfosRefs({statement.of})
  /\ point' = IF statement.op = "catch" THEN Head(todo).of ELSE point
  /\ Continue(<<>>)
  /\ UNCHANGED <<sigIn, emitIn, constructible, methodIn, ctorIn, calls,
                 lastUnreachable, dropped, silent>>

\* llvm::verifyFunction: every block of the body must end.
Unfinished(b) ==
  \/ point # b
  \/ ReturnsValue(b) /\ <<b, Len(project.body[b])>> \in dropped

EndBody ==
  /\ Current("end")
  /\ LET b == Head(todo).of IN
       /\ ReturnsValue(b) => lastUnreachable
       /\ ~ Unfinished(b)
  /\ Continue(<<>>)
  /\ UNCHANGED <<classVars, bodyVars>>

EndBodyFails ==
  /\ Current("end")
  /\ LET b == Head(todo).of IN
       IF ReturnsValue(b) /\ ~ lastUnreachable THEN End("error")
       ELSE Unfinished(b) /\ End("refused")

-----------------------------------------------------------------------------
\* llvm::verifyModule, on what touches the module of the current file.
Crossed == \E r \in refs : file \in {r[1], r[2]}

(***************************************************************************)
(* Generator::write and reset: the types of the file forget their infos    *)
(* and the handles of their methods, not those of their constructors.      *)
(***************************************************************************)
WriteUnverified ==   \* variant: what the verifier says is ignored
  /\ pc = "gen"
  /\ todo = <<>>
  /\ LET own == Elements(project.types[file]) IN
       /\ infos' = [c \in Class |-> IF c \in own THEN [infos[c] EXCEPT !.init = FALSE] ELSE infos[c]]
       /\ methodIn' = [c \in Class |-> IF c \in own THEN NoFile ELSE methodIn[c]]
  /\ IF pos = Len(project.order)
       THEN pc' = "done" /\ UNCHANGED <<pos, todo>>
       ELSE pos' = pos + 1 /\ todo' = Turn(project.order[pos + 1]) /\ UNCHANGED pc
  /\ UNCHANGED <<project, sigIn, emitIn, constructible, globals, ctorIn, refs, calls, bodyVars>>

Write ==
  /\ pc = "gen"
  /\ todo = <<>>
  /\ ~ Crossed
  /\ LET own == Elements(project.types[file]) IN
       /\ infos' = [c \in Class |-> IF c \in own THEN [infos[c] EXCEPT !.init = FALSE] ELSE infos[c]]
       /\ methodIn' = [c \in Class |-> IF c \in own THEN NoFile ELSE methodIn[c]]
  /\ IF pos = Len(project.order)
       THEN pc' = "done" /\ UNCHANGED <<pos, todo>>
       ELSE pos' = pos + 1 /\ todo' = Turn(project.order[pos + 1]) /\ UNCHANGED pc
  /\ UNCHANGED <<project, sigIn, emitIn, constructible, globals, ctorIn, refs, calls, bodyVars>>

WriteFails == pc = "gen" /\ todo = <<>> /\ Crossed /\ End("refused")

Finished == pc \in Ended /\ UNCHANGED vars

Next ==
  \/ GenerateSigs \/ SigsCrash \/ StartGen
  \/ GenerateAgain \/ GenerateClass \/ TypeInfo \/ Vtable \/ Construct \/ ConstructFails
  \/ BeginBody \/ Skipped \/ Return \/ NotFound \/ New \/ Throw \/ Catch \/ UseInfos
  \/ EndBody \/ EndBodyFails
  \/ Write \/ WriteFails
  \/ Finished

Spec == Init /\ [][Next]_vars
=============================================================================
