---------------------------- MODULE ObjectRules -----------------------------
(***************************************************************************)
(* What a program has to be like for its objects to be sound and its calls *)
(* to run what the source says, told from the program alone.               *)
(***************************************************************************)
EXTENDS ObjectModel

declared[c \in Class \cup {NoClass}] ==
  IF c = NoClass THEN <<>> ELSE declared[extending(c)] \o program.funcs[c]
Declared(c) == declared[c]

\* Whether the loop over the methods looks at the k-th: it does not when it
\* has just taken the one before, unless the k-th is the last.
InTurn(methods) ==
  LET inTurn[k \in DOMAIN methods] ==
        k = 1 \/ ~ (inTurn[k - 1] /\ methods[k - 1].kind = "override")
  IN inTurn
Seen(methods) == {k \in DOMAIN methods : InTurn(methods)[k] \/ k = Len(methods)}
Taken(c) == {Declared(c)[k] : k \in {j \in Seen(Declared(c)) : Declared(c)[j].kind = "override"}}

(***************************************************************************)
(* The overrides that replace what they override are those that the loop   *)
(* looks at (Class::generate: erase inside a range-for).                   *)
(***************************************************************************)
OverridesTaken ==
  pc = "overrides" /\ index > Len(full) => Range(overides) = Taken(current)

(***************************************************************************)
(* A method has in every subclass the slot it has in its own class: what a *)
(* call through the superclass reads is a method of the same name.         *)
(***************************************************************************)
SlotsKept ==
  pc = "construct" =>
    \A c \in Class : extending(c) # NoClass =>
      \A j \in DOMAIN tables[extending(c)][1] :
        /\ j \in DOMAIN tables[c][1]
        /\ tables[c][1][j].name = tables[extending(c)][1][j].name

\* Methods named n of a class and its superclasses that override properly
Regular(c, n) ==
  LET named == {k \in DOMAIN Declared(c) : Declared(c)[k].name = n} IN
  /\ \A j, k \in named : Declared(c)[j].arity = Declared(c)[k].arity
  /\ \A k \in named : Declared(c)[k].kind = "override" <=> \E j \in named : j < k
  /\ \A d \in superTypes[c] : \A k \in DOMAIN Declared(d) :
       Declared(d)[k].name = n => k \in Seen(Declared(d))

Latest(c, n) ==   \* the method the source means for an object of class c
  Declared(c)[Max({k \in DOMAIN Declared(c) : Declared(c)[k].name = n})]

NoTables(c) == Len(rec[c]) = 1

\* An abstract method is entered under its name without its first parameter.
Hidden(c, n, a) ==
  LET own == program.funcs[c] IN
  \E k \in DOMAIN own :
    /\ own[k].name = n /\ own[k].kind = "abstract" /\ own[k].arity = a + 1
    /\ \A j \in DOMAIN own : j > k => ~ Fits(own[j], n, a)
    /\ ~ \E o \in Taken(c) : o.name = n

(***************************************************************************)
(* A call is compiled only for a method that the class of the expression   *)
(* itself declares and implements, and not if an abstract one is entered   *)
(* in its place.  It is then, if the superclass names no interface.        *)
(***************************************************************************)
Compiled == used.outcome[1] \in {"runs", "pure", "junk"}
CompiledByRule ==
  used # <<>> /\ (extending(used.class) = NoClass \/ implementing(extending(used.class)) = <<>>) =>
    (Compiled <=> /\ Direct(used.class, used.name, used.arity) # {}
                  /\ ~ Hidden(used.class, used.name, used.arity))

(***************************************************************************)
(* A class is sound if each of its fields is as wide as the one declared   *)
(* in the same place, and each table of its interfaces has a pointer.      *)
(***************************************************************************)
WidthsAgree(c) == \A j \in OwnFields(c) : program.fields[c][j].units = Units(c, ElementOf(c, j))
Sound(c) == WidthsAgree(c) /\ Len(rec[c]) <= TableElements(c)

Holds(at, units, what) == \A u \in at .. at + units - 1 : u \in DOMAIN object /\ object[u] = what
FieldHeld(c, j) == Holds(Start(c, ElementOf(c, j)), program.fields[c][j].units, <<"field", c, j>>)

(***************************************************************************)
(* The constructors write inside the object, leave each field with its     *)
(* value and each pointer with its table, if every class of the object is  *)
(* sound.  Without fields, they write behind it as soon as its class has a *)
(* table more than pointers: as any subclass of one with an interface.     *)
(***************************************************************************)
Inside == DOMAIN object \subseteq 0 .. Size(new) - 1

WrittenByRule ==
  pc = "ready" =>
    /\ (\A c \in superTypes[new] : Sound(c)) =>
         /\ Inside
         /\ \A c \in superTypes[new] : \A j \in OwnFields(c) : FieldHeld(c, j)
         /\ \A i \in DOMAIN tables[new] : Holds(TableAt(new, i), 2, <<"table", new, i>>)
    /\ (\A c \in superTypes[new] : program.fields[c] = <<>>) =>
         (Inside <=> Len(rec[new]) <= TableElements(new))

(***************************************************************************)
(* What a compiled call runs.  Without interfaces, the method the source   *)
(* means, if all the overrides of its name are regular; of a method that   *)
(* implements one of an interface and has no overloads, that of the class  *)
(* of the expression, though the object's own overrides it.  Where these   *)
(* are of an abstract class, which nothing refuses to build, it is a pure  *)
(* virtual call.                                                           *)
(***************************************************************************)
ByInterface ==
  LET slots == Slots(used.class, used.name, used.arity) IN slots # {} /\ LastSlot(slots)[1] > 1

\* A class has no overloads of a method.
Alone(c, n) ==
  \A j, k \in DOMAIN program.funcs[c] :
    program.funcs[c][j].name = n /\ program.funcs[c][k].name = n => j = k

Runs(c) ==
  IF c \in program.abstract THEN <<"pure">> ELSE <<"runs", Latest(c, used.name)>>

Dispatched ==
  used # <<>> =>
    /\ NoTables(new) /\ Regular(new, used.name) /\ used.outcome[1] \in {"runs", "pure"} =>
         used.outcome = Runs(new)
    /\ Sound(used.class) /\ Compiled /\ ByInterface /\ Alone(used.class, used.name) =>
         used.outcome = Runs(used.class)
=============================================================================
