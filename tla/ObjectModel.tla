---------------------------- MODULE ObjectModel ----------------------------
(***************************************************************************)
(* The objects of a compiled program: how Class::generatePart lays out a   *)
(* class, how Class::generate builds its tables of methods, what the       *)
(* constructors store into an object, and what a call or a cast then finds *)
(* there (codeGen/types.cpp, types.h).                                     *)
(*                                                                         *)
(* Every class is in one file, and every object is built by the            *)
(* constructors without parameters, each calling its superclass's first;   *)
(* calls are made by functions, which are generated after all classes.     *)
(* Memory is counted in units of four bytes; pointers take two.  Methods   *)
(* with one name differ in arity only, and public access is assumed.       *)
(***************************************************************************)
EXTENDS Integers, Sequences, FiniteSets, SequencesExt

CONSTANTS
  Class, Interface, Name,
  NoClass,
  Programs

Type == Class \cup Interface
Func == [of : Type, name : Name, arity : 0 .. 1, kind : {"plain", "override", "abstract"}]
Field == [static : BOOLEAN, units : 1 .. 2]

\* No type is below itself: isSubTypeOf and getFuncsRec would not end.
Founded(p) ==
  /\ \E depth \in [Class -> 0 .. Cardinality(Class)] :
       \A c \in Class : p.extending[c] # NoClass => depth[p.extending[c]] < depth[c]
  /\ \E depth \in [Interface -> 0 .. Cardinality(Interface)] :
       \A i \in Interface : \A k \in DOMAIN p.inherits[i] : depth[p.inherits[i][k]] < depth[i]

\* Methods of a type with one name differ in arity: others of its funcs have
\* different mangled names.
Told(funcs, t) ==
  /\ \A j \in DOMAIN funcs : funcs[j].of = t
  /\ \A j, k \in DOMAIN funcs :
       funcs[j].name = funcs[k].name /\ funcs[j].arity = funcs[k].arity => j = k

Program ==
  {p \in [extending : [Class -> Class \cup {NoClass}], implementing : [Class -> Seq(Interface)],
          inherits : [Interface -> Seq(Interface)], abstract : SUBSET Class,
          funcs : [Type -> Seq(Func)], fields : [Class -> Seq(Field)]] :
     Founded(p) /\ \A t \in Type : Told(p.funcs[t], t)}

ASSUME NamesAssumption == NoClass \notin Class /\ Class \cap Interface = {}
ASSUME ProgramsAssumption == Programs \subseteq Program

VARIABLES
  program,
  pc,         \* what is done next, or how the compiler ended
  current,    \* the class Class::generate works on
  elements,   \* per class: where strType begins, then where each of its elements ends
  rec,        \* per class: what getFuncsRec returns, one sequence of functions per table
  full,       \* fullFuncs[0] and what erase leaves behind its end
  size,       \* the length of fullFuncs[0]
  index,      \* where the range-for over it is
  overides,
  tables,     \* per class: fullFuncs when the tables are made
  new,        \* the class of the object that is built, and then used
  left,       \* the classes whose constructors have still to store into it
  object,     \* what is stored at each of its units, and beyond
  used        \* the call that was made, and what it led to

compileVars == <<pc, current, elements, rec, full, size, index, overides, tables>>
vars == <<program, compileVars, new, left, object, used>>

extending(c) == program.extending[c]
implementing(c) == program.implementing[c]
NotDone == <<>>

(***************************************************************************)
(* Layout.  The elements of a class are its superclass (or the pointer to  *)
(* its first table), a pointer for each interface it names, and then every *)
(* field it declares, static ones too.                                     *)
(***************************************************************************)
Aligned(at, units) == at + (at % units)
Size(c) == Aligned(elements[c][Len(elements[c])], 2)

SuperSize(c) == IF extending(c) = NoClass THEN 2 ELSE Size(extending(c))
TableElements(c) == Len(implementing(c)) + 1
Units(c, k) ==   \* the width of an element
  IF k = 1 THEN SuperSize(c)
  ELSE IF k <= TableElements(c) THEN 2
  ELSE program.fields[c][k - TableElements(c)].units
Elements(c) ==
  LET ends[k \in 1 .. 1 + TableElements(c) + Len(program.fields[c])] ==
        IF k = 1 THEN 0 ELSE Aligned(ends[k - 1], Units(c, k - 1)) + Units(c, k - 1)
  IN ends
Start(c, k) == elements[c][k + 1] - Units(c, k)

\* varIdMs counts the fields that are not static, and indexes all of them.
OwnFields(c) == {j \in DOMAIN program.fields[c] : ~ program.fields[c][j].static}
ElementNoPointers(c, j) == 1 + Cardinality({k \in OwnFields(c) : k <= j})   \* variant: interfaces forgotten
ElementOf(c, j) == TableElements(c) + Cardinality({k \in OwnFields(c) : k <= j})

(***************************************************************************)
(* getFuncsRec: one table for the class and its superclasses, then one for *)
(* each interface with functions of its own, of the superclass first.      *)
(***************************************************************************)
InterfaceTables(i) ==
  LET tablesOf[j \in Interface] ==
        (IF program.funcs[j] = <<>> THEN <<>> ELSE <<program.funcs[j]>>)
          \o FlattenSeq([k \in DOMAIN program.inherits[j] |-> tablesOf[program.inherits[j][k]]])
  IN tablesOf[i]

InterfacesTables(c) == FlattenSeq([k \in DOMAIN implementing(c) |-> InterfaceTables(implementing(c)[k])])
SuperTables(c) == IF extending(c) = NoClass THEN <<<<>>>> ELSE rec[extending(c)]
FuncsRecOwnFirst(c) ==   \* variant: the methods of the superclass come last
  [SuperTables(c) EXCEPT ![1] = program.funcs[c] \o @] \o InterfacesTables(c)
FuncsRec(c) == [SuperTables(c) EXCEPT ![1] = @ \o program.funcs[c]] \o InterfacesTables(c)

Init ==
  /\ program \in Programs
  /\ pc = "part"
  /\ current = NoClass
  /\ elements = [c \in Class |-> NotDone]
  /\ rec = [c \in Class |-> NotDone]
  /\ full = <<>> /\ size = 0 /\ index = 1 /\ overides = <<>>
  /\ tables = [c \in Class |-> NotDone]
  /\ new = NoClass /\ left = <<>>
  /\ object = <<>>
  /\ used = <<>>

useVars == <<new, left, object, used>>

(***************************************************************************)
(* Class::generatePart and Class::generate, of the superclass first.       *)
(***************************************************************************)
Ready(c, done) == done[c] = NotDone /\ (extending(c) # NoClass => done[extending(c)] # NotDone)
AllBut(c, done) == \A d \in Class \ {c} : done[d] # NotDone

GeneratePart(c) ==
  /\ pc = "part"
  /\ Ready(c, elements)
  /\ elements' = [elements EXCEPT ![c] = Elements(c)]
  /\ rec' = [rec EXCEPT ![c] = FuncsRec(c)]
  /\ pc' = IF AllBut(c, elements) THEN "generate" ELSE "part"
  /\ UNCHANGED <<program, current, full, size, index, overides, tables, useVars>>

Generate(c) ==
  /\ pc = "generate"
  /\ Ready(c, tables)
  /\ current' = c
  /\ full' = rec[c][1] /\ size' = Len(rec[c][1]) /\ index' = 1
  /\ overides' = <<>>
  /\ pc' = "overrides"
  /\ UNCHANGED <<program, elements, rec, tables, useVars>>

\* The range-for keeps the end it began with; erase moves what follows up and
\* leaves the elements behind the new end as they were.
PlaceOf(f) == {k \in 1 .. size : full[k] = f}
MovedNothing(k) == full   \* variant: what follows stays where it is
MovedUp(k) == [j \in DOMAIN full |-> IF j >= k /\ j < size THEN full[j + 1] ELSE full[j]]
Erase(f) ==
  IF PlaceOf(f) = {} THEN UNCHANGED <<full, size>>
  ELSE /\ \E k \in PlaceOf(f) : full' = MovedUp(k)
       /\ size' = size - 1

Overriding ==
  /\ pc = "overrides"
  /\ index <= Len(full)
  /\ index' = index + 1
  /\ IF full[index].kind = "override"
       THEN overides' = Append(overides, full[index]) /\ Erase(full[index])
       ELSE UNCHANGED <<overides, full, size>>
  /\ UNCHANGED <<program, pc, current, elements, rec, tables, useVars>>

\* Overriding goes by name; the last of several overrides wins.
Named(n) == {k \in DOMAIN overides : overides[k].name = n}
FirstReplaces(f) ==   \* variant: the first one wins
  IF Named(f.name) = {} THEN f ELSE overides[Min(Named(f.name))]
Replaced(f) == IF Named(f.name) = {} THEN f ELSE overides[Max(Named(f.name))]
FullFuncs ==
  LET kept == [rec[current] EXCEPT ![1] = SubSeq(full, 1, size)]
  IN [i \in DOMAIN kept |-> [j \in DOMAIN kept[i] |-> Replaced(kept[i][j])]]
AbstractLeft ==
  /\ current \notin program.abstract
  /\ \E i \in DOMAIN FullFuncs : \E j \in DOMAIN FullFuncs[i] : FullFuncs[i][j].kind = "abstract"

MakeTables ==
  /\ pc = "overrides"
  /\ index > Len(full)
  /\ ~ AbstractLeft
  /\ tables' = [tables EXCEPT ![current] = FullFuncs]
  /\ pc' = IF AllBut(current, tables) THEN "construct" ELSE "generate"
  /\ UNCHANGED <<program, current, elements, rec, full, size, index, overides, useVars>>

TablesRefused ==
  /\ pc = "overrides"
  /\ index > Len(full)
  /\ AbstractLeft
  /\ pc' = "refused"
  /\ UNCHANGED <<program, current, elements, rec, full, size, index, overides, tables, useVars>>

(***************************************************************************)
(* The constructors: each calls its superclass's, then stores the pointers *)
(* to the class's tables and initialises its fields.                       *)
(***************************************************************************)
SuperOffset(c) == SuperSize(c) - 2   \* supperOffset
TableAtNoSuper(c, i) == 2 * (i - 1)   \* variant: no room for the superclass
TableAt(c, i) == IF i = 1 THEN 0 ELSE 2 * (i - 1) + SuperOffset(c)

Stored(at, units, what) == [at |-> at, units |-> units, what |-> what]
StoreTable(c, i) == Stored(TableAt(c, i), 2, <<"table", c, i>>)
StoreField(c, j) ==
  Stored(Start(c, ElementOf(c, j)), IF j \in OwnFields(c) THEN program.fields[c][j].units ELSE 0, <<"field", c, j>>)
Stores(c) == [i \in DOMAIN tables[c] |-> StoreTable(c, i)] \o [j \in DOMAIN program.fields[c] |-> StoreField(c, j)]

Covered(store) == store.at .. store.at + store.units - 1
Covering(stores, u) == {k \in DOMAIN stores : u \in Covered(stores[k])}
Written(memory, stores) ==   \* each unit holds what was stored into it last
  [u \in DOMAIN memory \cup UNION {Covered(stores[k]) : k \in DOMAIN stores} |->
     IF Covering(stores, u) = {} THEN memory[u] ELSE stores[Max(Covering(stores, u))].what]

InSuper == object = <<>> /\ extending(Head(left)) # NoClass   \* a constructor that has not stored yet

NewObject(c) ==
  /\ pc = "construct" /\ new = NoClass
  /\ new' = c /\ left' = <<c>>
  /\ UNCHANGED <<program, compileVars, object, used>>

CallSuper ==
  /\ pc = "construct" /\ new # NoClass
  /\ InSuper
  /\ left' = <<extending(Head(left))>> \o left
  /\ UNCHANGED <<program, compileVars, new, object, used>>

Construct ==
  /\ pc = "construct" /\ new # NoClass
  /\ ~ InSuper
  /\ object' = Written(object, Stores(Head(left)))
  /\ left' = Tail(left)
  /\ pc' = IF Len(left) = 1 THEN "ready" ELSE "construct"
  /\ UNCHANGED <<program, current, elements, rec, full, size, index, overides, tables, new, used>>

(***************************************************************************)
(* A call of method n with a arguments, on an expression of class c, made  *)
(* when the object is of class new.  funcIdMs is keyed by the mangled      *)
(* name, which carries the class that declares the function; an abstract   *)
(* function never gets its parameter "this", and is mangled without its    *)
(* first parameter instead.                                                *)
(***************************************************************************)
FullArity(f) == f.arity   \* variant: nothing is skipped
MangledArity(f) == IF f.kind = "abstract" /\ f.arity > 0 THEN f.arity - 1 ELSE f.arity
Slots(c, n, a) ==
  {s \in UNION {{i} \X DOMAIN tables[c][i] : i \in DOMAIN tables[c]} :
     LET f == tables[c][s[1]][s[2]] IN f.of = c /\ f.name = n /\ MangledArity(f) = a}
LastSlot(slots) == CHOOSE s \in slots : \A t \in slots : t[1] < s[1] \/ (t[1] = s[1] /\ t[2] <= s[2])

\* The keys of funcIdMs and of funcMap, in words, for table i of class c.
IdWord(c, i) == TableAt(c, i) \div 2
InheritedPointers(c) == IF extending(c) = NoClass THEN 0 ELSE Len(implementing(extending(c)))   \* extImplSize
MapWord(c, i) == (i - 1) + (IF i - 1 > InheritedPointers(c) THEN SuperOffset(c) \div 2 ELSE 0)
MappedAt(c, s) == {i \in DOMAIN tables[c] : MapWord(c, i) = IdWord(c, s[1]) /\ s[2] \in DOMAIN tables[c][i]}
Mapped(c, s) == tables[c][Max(MappedAt(c, s))][s[2]]

IsTable(what) == Len(what) = 3 /\ what[1] = "table"
Entry(at, j) ==   \* what a call by entry j of the table that word `at` of the object points to runs
  IF ~ (at \in DOMAIN object /\ IsTable(object[at]) /\ at + 1 \in DOMAIN object /\ object[at + 1] = object[at])
    THEN <<"junk">>
  ELSE LET d == object[at][2]  table == tables[d][object[at][3]]
       IN IF j \notin DOMAIN table THEN <<"junk">>
          ELSE IF d \in program.abstract THEN <<"pure">> ELSE <<"runs", table[j]>>

Fits(f, n, a) == f.name = n /\ f.arity = a /\ f.kind # "abstract"
Direct(c, n, a) == {f \in Range(program.funcs[c]) : Fits(f, n, a)}

CallOutcome(c, n, a) ==
  LET slots == Slots(c, n, a)  s == LastSlot(slots) IN
  IF slots = {}
    THEN IF Direct(c, n, a) = {} THEN <<"unknown">>
         ELSE <<"runs", CHOOSE f \in Direct(c, n, a) : TRUE>>
  ELSE IF MappedAt(c, s) = {} THEN <<"crash">>   \* the compiler follows a null pointer
  ELSE IF ~ Fits(Mapped(c, s), Mapped(c, s).name, a) THEN <<"refused">>
  ELSE Entry(TableAt(c, s[1]), s[2])

superTypes[c \in Class \cup {NoClass}] ==
  IF c = NoClass THEN {} ELSE {c} \cup superTypes[extending(c)]

Call(c, n, a) ==
  /\ pc = "ready" /\ used = <<>>
  /\ c \in superTypes[new]
  /\ used' = [class |-> c, name |-> n, arity |-> a, outcome |-> CallOutcome(c, n, a)]
  /\ UNCHANGED <<program, compileVars, new, left, object>>

Ended == (pc = "refused" \/ used # <<>>) /\ UNCHANGED vars

Next ==
  \/ \E c \in Class : GeneratePart(c) \/ Generate(c) \/ NewObject(c)
  \/ Overriding \/ MakeTables \/ TablesRefused
  \/ CallSuper \/ Construct
  \/ \E c \in Class, n \in Name, a \in 0 .. 1 : Call(c, n, a)
  \/ Ended

Spec == Init /\ [][Next]_vars
=============================================================================
