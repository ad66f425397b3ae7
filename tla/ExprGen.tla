------------------------------ MODULE ExprGen ------------------------------
(***************************************************************************)
(* Code generation of variables, assignments, calls, casts and arithmetic  *)
(* in one function without branches (langMain/codeGen/types.cpp, types.h). *)
(*                                                                         *)
(* An expression returns an llvm::Value, which knows its LLVM type and no  *)
(* other.  What class an object has is kept beside it, in one variable of  *)
(* the Generator, typeNameRet: whatever is generated for a class sets it,  *)
(* whatever wants to know reads it, few clear it.  Whether a number has a  *)
(* sign is kept in a flag of its node: the parser copies it from node to   *)
(* node, most kinds of nodes set it only when they are generated, if then. *)
(*                                                                         *)
(* generate() recurses over the syntax tree.  todo is what its activations *)
(* still have to do, vals the values they have been given; together they   *)
(* are the stack of the calls.  The function has no branches: the order of *)
(* generation is that of execution, and a value and a variable also say    *)
(* what they hold when the code runs (`is`).                               *)
(***************************************************************************)
EXTENDS Naturals, Sequences, TLC

CONSTANTS
  Above,         \* for each class, the classes and interfaces above it, and itself
  Interfaces,
  Fields,        \* for each class, the types of the public fields it has or inherits
  Constructors,  \* records: class, types of the parameters
  Functions,     \* records: name, types of the parameters, type of the result
  Programs       \* records: parameters, type of the result, statements

Classes == DOMAIN Above

(***************************************************************************)
(* Types.  Classes and interfaces are pointers to LLVM.                    *)
(***************************************************************************)
Width == [bool |-> "i1", byte |-> "i8", ubyte |-> "i8", int |-> "i32", uint |-> "i32",
          double |-> "double", float |-> "float"]
Primitives == DOMAIN Width
Floating == {"double", "float"}
Signed(t) == t \in {"byte", "int"}
getType(t) ==
  CASE t \in Primitives -> Width[t] [] t = "void" -> "void" [] OTHER -> "ptr"

\* what an expression of type t may be when it runs
Instances(t) ==
  IF t \in Primitives THEN {Width[t]} ELSE {c \in Classes : t \in Above[c]} \cup {"null"}

ASSUME NamesAssumption ==
  /\ Fields \in [Classes -> {Fields[c] : c \in Classes}]
  /\ \A f \in Functions :
       f.ret \in Primitives \cup Classes \cup Interfaces
  /\ \A c \in Constructors : c.class \in Classes

VARIABLES
  prog,
  status,       \* "generating", or how genFunc ended
  at,           \* the statement that is generated
  todo,         \* what the activations of generate() have still to do
  vals,         \* the values they hold
  typeNameRet,  \* the class of the last object; "" is null, "char" that of a string
  m_vars,       \* layers of variables
  out           \* what the emitted code does

vars == <<prog, status, at, todo, vals, typeNameRet, m_vars, out>>

(***************************************************************************)
(* A node of the syntax tree has a kind, a name (of a variable, a function *)
(* or a type), a second name (of a field, a type or an operator) and the   *)
(* nodes in it.  Generating one generates those in it first; an assignment *)
(* has found the address it will store to before, the arguments of a       *)
(* constructor are each followed by a reset of typeNameRet, and what is    *)
(* cast or put into a new object variable preceded by one.                 *)
(***************************************************************************)
Assignments == {"set", "setfield"}
Fresh == {"cast", "instanceOf", "object"}

Task(do, node) == [do |-> do, node |-> node]
GenKids(n) == [i \in DOMAIN n.kids |-> Task("gen", n.kids[i])]

Within(n) ==
  IF n.node = "new"
    THEN [i \in 1 .. 2 * Len(n.kids) |->
            IF i % 2 = 1 THEN Task("gen", n.kids[(i + 1) \div 2]) ELSE Task("clear", n)]
    ELSE (IF n.node \in Assignments THEN <<Task("pointer", n)>>
          ELSE IF n.node \in Fresh THEN <<Task("clear", n)>> ELSE <<>>) \o GenKids(n)

Doing(do, kinds) ==
  /\ status = "generating"
  /\ todo # <<>>
  /\ Head(todo).do = do
  /\ Head(todo).node.node \in kinds

N == Head(todo).node
Below == SubSeq(vals, 1, Len(vals) - Len(N.kids))
Kids == SubSeq(vals, Len(Below) + 1, Len(vals))

(***************************************************************************)
(* A value: LLVM type, whether the flag of its node says signed, what the  *)
(* parser may have read in the flag (both, if nothing had set it), what    *)
(* typeNameRet says after it, what it is when the code runs, and whether   *)
(* it is a constant: LLVM computes with those while it is told of them.    *)
(***************************************************************************)
Constants == {"lit", "str", "null"}
Folding == {"paren", "add", "div", "less", "cond"}
Folded == \A i \in DOMAIN Kids : Kids[i].constant
CheckedBySource(target) ==   \* variant: the source is remembered
  ~ (Kids[1].told \in Classes /\ target \in Above[Kids[1].told])

\* NodeTermCast, NodeTermInstanceOf: only interfaces are looked for at run time
Checked(target) == target \in Interfaces

Yield(type, signed, seen, is) ==
  /\ vals' = Append(Below, [type |-> type, signed |-> signed, seen |-> seen,
                            told |-> typeNameRet', is |-> is,
                            constant |-> \/ N.node \in Constants
                                         \/ N.node \in Folding /\ Folded
                                         \/ N.node = "instanceOf" /\ ~ Checked(N.name)])
  /\ todo' = Tail(todo)
  /\ UNCHANGED <<prog, status, at, m_vars>>

Stop(how) ==
  /\ status' = how
  /\ UNCHANGED <<prog, at, todo, vals, typeNameRet, m_vars, out>>

(***************************************************************************)
(* Variables.  Every layer is a function from names.  A parameter whose    *)
(* type is an interface is not a ClassVar: its class is never told.        *)
(***************************************************************************)
Var(type, clazz, is) == [type |-> type, clazz |-> clazz, is |-> is]

Holding(x) == {i \in DOMAIN m_vars : x \in DOMAIN m_vars[i]}
LayerFirst(x) ==   \* variant: the outermost
  CHOOSE i \in Holding(x) : \A j \in Holding(x) : i <= j
Layer(x) == CHOOSE i \in Holding(x) : \A j \in Holding(x) : j <= i
getVar(x) == m_vars[Layer(x)][x]

Telling(x) == typeNameRet' = IF getVar(x).clazz THEN getVar(x).type ELSE typeNameRet

(***************************************************************************)
(* genFunc: a layer for the parameters, one for the scope.  typeNameRet is *)
(* what the function before has left there.                                *)
(***************************************************************************)
Parameters(p, is) ==
  LET Of(x) == CHOOSE i \in DOMAIN p.params : p.params[i].name = x
  IN [x \in {p.params[i].name : i \in DOMAIN p.params} |->
        Var(p.params[Of(x)].type, p.params[Of(x)].type \in Classes, is[Of(x)])]

Init ==
  /\ prog \in Programs
  /\ status = "generating"
  /\ at = 0
  /\ todo = <<>>
  /\ vals = <<>>
  /\ typeNameRet \in {""} \cup Classes
  /\ \E is \in [DOMAIN prog.params -> Classes \cup {Width[t] : t \in Primitives}] :
       /\ \A i \in DOMAIN is : is[i] \in Instances(prog.params[i].type) \ {"null"}
       /\ m_vars = <<Parameters(prog, is), <<>>>>
  /\ out = [calls |-> {}, divisions |-> {}, casts |-> {}, missing |-> FALSE, broken |-> FALSE]

Statement ==
  /\ status = "generating"
  /\ todo = <<>>
  /\ at < Len(prog.body)
  /\ at' = at + 1
  /\ todo' = <<Task("gen", prog.body[at + 1])>>
  /\ vals' = <<>>
  /\ UNCHANGED <<prog, status, typeNameRet, m_vars, out>>

Enter ==
  /\ status = "generating"
  /\ todo # <<>>
  /\ Head(todo).do = "gen"
  /\ todo' = Within(N) \o <<Task("end", N)>> \o Tail(todo)
  /\ UNCHANGED <<prog, status, at, vals, typeNameRet, m_vars, out>>

clearTypeNameRet ==
  /\ status = "generating"
  /\ todo # <<>>
  /\ Head(todo).do = "clear"
  /\ typeNameRet' = ""
  /\ todo' = Tail(todo)
  /\ UNCHANGED <<prog, status, at, vals, m_vars, out>>

(***************************************************************************)
(* Literals.                                                               *)
(***************************************************************************)
Literal ==
  /\ Doing("end", {"lit"})
  /\ UNCHANGED <<typeNameRet, out>>
  /\ Yield(Width[N.name], Signed(N.name), {Signed(N.name)}, Width[N.name])

StringLiteral ==
  /\ Doing("end", {"str"})
  /\ typeNameRet' = "char"
  /\ UNCHANGED out
  /\ Yield("ptr", FALSE, BOOLEAN, "char")

Null ==
  /\ Doing("end", {"null"})
  /\ UNCHANGED <<typeNameRet, out>>
  /\ Yield("ptr", FALSE, BOOLEAN, "null")

(***************************************************************************)
(* NodeTermId and, of a variable, NodeTermAcces.  After a field            *)
(* typeNameRet is the class of its holder, and its flag was never set.     *)
(***************************************************************************)
Variable ==
  /\ Doing("end", {"var"})
  /\ Holding(N.name) # {}
  /\ Telling(N.name)
  /\ UNCHANGED out
  /\ LET v == getVar(N.name)
     IN Yield(getType(v.type), Signed(v.type), BOOLEAN,
              IF v.type \in Primitives THEN Width[v.type] ELSE v.is)

HasField(x, f) == getVar(x).clazz /\ getVar(x).type \in Classes /\ f \in DOMAIN Fields[getVar(x).type]

Field ==
  /\ Doing("end", {"field"})
  /\ Holding(N.name) # {}
  /\ HasField(N.name, N.member)
  /\ Telling(N.name)
  /\ UNCHANGED out
  /\ \E signed \in BOOLEAN :
       LET t == Fields[getVar(N.name).type][N.member]
       IN \E is \in Instances(t) : Yield(getType(t), signed, {signed}, is)

Paren ==
  /\ Doing("end", {"paren"})
  /\ UNCHANGED <<typeNameRet, out>>
  /\ \E signed \in Kids[1].seen : Yield(Kids[1].type, signed, {signed}, Kids[1].is)

(***************************************************************************)
(* Mangled names: a letter for each parameter, the next one if it is not   *)
(* signed, or the class.  A result counts as signed unless it is an        *)
(* object.  Of the arguments of a call only the objects enter typeNames,   *)
(* which is then read at the place of the argument.                        *)
(***************************************************************************)
Letters == [i1 |-> <<"b", "b">>, i8 |-> <<"c", "d">>, i32 |-> <<"i", "j">>,
            double |-> <<"d", "e">>, float |-> <<"f", "g">>]
Letter(type, signed) == Letters[type][IF signed THEN 1 ELSE 2]

Mangled(params) ==
  [i \in DOMAIN params |->
     IF params[i] \in Primitives THEN Letter(Width[params[i]], Signed(params[i])) ELSE params[i]]

IsPointer(v) == v.type = "ptr"
typeNames == SelectSeq(Kids, IsPointer)
Outside == \E i \in DOMAIN Kids : IsPointer(Kids[i]) /\ i > Len(typeNames)

Named ==
  [i \in DOMAIN Kids |->
     IF IsPointer(Kids[i]) THEN typeNames[i].told ELSE Letter(Kids[i].type, Kids[i].signed)]

findFunc == {f \in Functions : f.name = N.name /\ Mangled(f.params) = Named}

Call ==
  /\ Doing("end", {"call"})
  /\ ~ Outside
  /\ UNCHANGED typeNameRet
  /\ \E f \in findFunc :
       /\ out' = [out EXCEPT !.calls = @ \cup {[at |-> at, node |-> N, callee |-> f]}]
       /\ \E is \in Instances(f.ret) :
            Yield(getType(f.ret), f.ret \in Primitives, BOOLEAN, is)

\* The names of arguments that are objects are read after they were cleared.
Unnamed ==
  [i \in DOMAIN Kids |->
     IF IsPointer(Kids[i]) THEN "" ELSE Letter(Kids[i].type, Kids[i].signed)]

\* The constructor is declared by its name, whether or not there is one.
New ==
  /\ Doing("end", {"new"})
  /\ typeNameRet' = N.name
  /\ LET found == \E c \in Constructors : c.class = N.name /\ Mangled(c.params) = Unnamed
     IN out' = [out EXCEPT !.missing = @ \/ ~ found]
  /\ Yield("ptr", FALSE, BOOLEAN, N.name)

(***************************************************************************)
(* NodeTermCast and NodeTermInstanceOf.  typeName is a pointer to          *)
(* typeNameRet, and reads as the target once that is set: every class is   *)
(* below itself, and only an interface is looked for when the code runs.   *)
(* A cast that fails throws and ends the execution; "null" stands for that.*)
(***************************************************************************)
CanCast == Kids[1].told \in Classes \cup Interfaces

CastTo ==
  /\ CanCast
  /\ typeNameRet' = N.name
  /\ out' = [out EXCEPT
               !.casts = @ \cup {[at |-> at, node |-> N, checked |-> Checked(N.name)]},
               !.broken = @ \/ ~ IsPointer(Kids[1])]

Cast ==
  /\ Doing("end", {"cast"})
  /\ CastTo
  /\ Yield("ptr", FALSE, BOOLEAN,
           IF Checked(N.name) => Kids[1].is \in Instances(N.name) THEN Kids[1].is ELSE "null")

InstanceOf ==
  /\ Doing("end", {"instanceOf"})
  /\ CastTo
  /\ \E signed \in BOOLEAN : Yield("i1", signed, {signed}, "i1")

(***************************************************************************)
(* Arithmetic.  An integer beside a floating number is converted; what is  *)
(* not of one type then, the verifier refuses at the end of the function.  *)
(* So it does every comparison of floating numbers, whose predicates are   *)
(* those of integers.  The flag of the result is what the parser read in   *)
(* the flags of the two sides.  Of two constants nothing is left for the   *)
(* verifier: LLVM takes them to be of one type, whatever they are.         *)
(***************************************************************************)
Left == Kids[Len(Kids) - 1]
Right == Kids[Len(Kids)]
BothSeen == {l /\ r : l \in Left.seen, r \in Right.seen}

Numeric(type) == type \notin {"ptr"} \cup Floating
Result ==
  IF Left.type \in Floating THEN Left.type ELSE Right.type
Mismatch ==
  \/ ~ (Left.type = Right.type \/ Numeric(Left.type) # Numeric(Right.type))
  \/ "ptr" \in {Left.type, Right.type}

Ill ==
  CASE N.node \in {"add", "div"} -> Mismatch
    [] N.node = "less" -> Left.type # Right.type \/ Left.type \in Floating
    [] N.node = "cond" -> Kids[1].type # "i1" \/ Left.type # Right.type
Meaningless == Folded /\ Ill

Binary(type, divided) ==
  /\ ~ Meaningless
  /\ UNCHANGED typeNameRet
  /\ out' = [out EXCEPT !.broken = @ \/ Ill, !.divisions = @ \cup divided]
  /\ \E signed \in BothSeen : Yield(type, signed, {signed}, type)

Add ==
  /\ Doing("end", {"add"})
  /\ Binary(Result, {})

SignedIfEither == Left.signed \/ Right.signed   \* variant: as a comparison is

SignedDivision == Left.signed /\ Right.signed

Div ==
  /\ Doing("end", {"div"})
  /\ Binary(Result,
            IF Numeric(Result) THEN {[at |-> at, node |-> N, signed |-> SignedDivision]} ELSE {})

Compare ==
  /\ Doing("end", {"less"})
  /\ Binary("i1", {})

InlineIf ==
  /\ Doing("end", {"cond"})
  /\ ~ Meaningless
  /\ UNCHANGED typeNameRet
  /\ out' = [out EXCEPT !.broken = @ \/ Ill]
  /\ \E signed \in BothSeen, is \in {Left.is, Right.is} :
       Yield(Right.type, signed, {signed}, is)

(***************************************************************************)
(* New variables.  A name is taken if it is in the innermost layer.        *)
(***************************************************************************)
Innermost == m_vars[Len(m_vars)]
Taken(x) == x \in DOMAIN Innermost

createVar(x, v) ==
  /\ m_vars' = [m_vars EXCEPT ![Len(m_vars)] = (x :> v) @@ @]
  /\ todo' = Tail(todo)
  /\ UNCHANGED <<prog, status, at, vals, out>>

\* NodeStmtPirimitiv: stores what it is given, of whatever type
Let ==
  /\ Doing("end", {"let"})
  /\ ~ Taken(N.name)
  /\ UNCHANGED typeNameRet
  /\ createVar(N.name, Var(N.member, FALSE, Kids[1].is))

\* NodeStmtClassNew
FitsAny == TRUE   \* variant: the class of the value is not asked for

Fits == typeNameRet = N.member \/ N.kids[1].node = "null"

Object ==
  /\ Doing("end", {"object"})
  /\ Fits
  /\ ~ Taken(N.name)
  /\ typeNameRet' = ""
  /\ createVar(N.name, Var(N.member, TRUE, Kids[1].is))

(***************************************************************************)
(* NodeStmtReassign, to a variable or a field of one.                      *)
(***************************************************************************)
Pointer ==
  /\ Doing("pointer", Assignments)
  /\ Holding(N.name) # {}
  /\ N.node = "setfield" => HasField(N.name, N.member)
  /\ Telling(N.name)
  /\ todo' = Tail(todo)
  /\ UNCHANGED <<prog, status, at, vals, m_vars, out>>

Assign ==
  /\ Doing("end", {"set"})
  /\ todo' = Tail(todo)
  /\ LET v == getVar(N.name)
         type == getType(v.type)
         value == Kids[1]
     IN /\ out' = IF N.member = "=" THEN out
                  ELSE [out EXCEPT !.broken = @ \/ type # value.type \/ ~ Numeric(type),
                          !.divisions = @ \cup
                            IF N.member = "/=" THEN {[at |-> at, node |-> N, signed |-> TRUE]} ELSE {}]
        /\ m_vars' = [m_vars EXCEPT ![Layer(N.name)][N.name].is =
                        IF N.member = "=" THEN value.is ELSE type]
  /\ UNCHANGED <<prog, status, at, vals, typeNameRet>>

AssignField ==
  /\ Doing("end", {"setfield"})
  /\ todo' = Tail(todo)
  /\ UNCHANGED <<prog, status, at, vals, typeNameRet, m_vars, out>>

(***************************************************************************)
(* Scopes, one statement for either end of them, and the return.           *)
(***************************************************************************)
OpenScope ==
  /\ Doing("end", {"open"})
  /\ m_vars' = Append(m_vars, <<>>)
  /\ todo' = Tail(todo)
  /\ UNCHANGED <<prog, status, at, vals, typeNameRet, out>>

CloseScopeKeeping ==   \* variant: the layer of the scope stays
  /\ Doing("end", {"close"})
  /\ todo' = Tail(todo)
  /\ UNCHANGED <<prog, status, at, vals, typeNameRet, m_vars, out>>

CloseScope ==
  /\ Doing("end", {"close"})
  /\ m_vars' = SubSeq(m_vars, 1, Len(m_vars) - 1)
  /\ todo' = Tail(todo)
  /\ UNCHANGED <<prog, status, at, vals, typeNameRet, out>>

verifyFunction(broken) == IF broken THEN "refused" ELSE "accepted"

Return ==
  /\ Doing("end", {"return"})
  /\ status' = verifyFunction(out.broken \/ Kids[1].type # getType(prog.ret))
  /\ UNCHANGED <<prog, at, todo, vals, typeNameRet, m_vars, out>>

\* A function that returns nothing gets its return here, another an error.
Finish ==
  /\ status = "generating"
  /\ todo = <<>>
  /\ at = Len(prog.body)
  /\ Stop(IF prog.ret = "void" THEN verifyFunction(out.broken) ELSE "refused")

(***************************************************************************)
(* What ends the compiler: a name it does not find, a name twice, a value  *)
(* that is not of the class of its variable, a cast of nothing it knows.   *)
(***************************************************************************)
Refuse ==
  /\ \/ /\ Doing("end", {"var", "field"}) \/ Doing("pointer", Assignments)
        /\ Holding(N.name) = {}
     \/ /\ Doing("end", {"field"})
        /\ Holding(N.name) # {}
        /\ ~ HasField(N.name, N.member)
     \/ /\ Doing("pointer", {"setfield"})
        /\ Holding(N.name) # {}
        /\ getVar(N.name).clazz
        /\ ~ HasField(N.name, N.member)
     \/ Doing("end", {"call"}) /\ ~ Outside /\ findFunc = {}
     \/ Doing("end", {"cast", "instanceOf"}) /\ ~ CanCast
     \/ Doing("end", {"let"}) /\ Taken(N.name)
     \/ Doing("end", {"object"}) /\ (~ Fits \/ Taken(N.name))
  /\ Stop("refused")

\* typeNames is read behind its end, constants are of two types, or a field is
\* stored to of what is no object.
Undefined ==
  /\ \/ Doing("end", {"call"}) /\ Outside
     \/ Doing("end", {"add", "div", "less", "cond"}) /\ Meaningless
     \/ /\ Doing("pointer", {"setfield"})
        /\ Holding(N.name) # {}
        /\ ~ getVar(N.name).clazz
  /\ Stop("undefined")

Stopped == status # "generating" /\ UNCHANGED vars

Next ==
  \/ Statement \/ Enter \/ clearTypeNameRet
  \/ Literal \/ StringLiteral \/ Null \/ Variable \/ Field \/ Paren
  \/ Call \/ New \/ Cast \/ InstanceOf
  \/ Add \/ Div \/ Compare \/ InlineIf
  \/ Let \/ Object \/ Pointer \/ Assign \/ AssignField
  \/ OpenScope \/ CloseScope \/ Return \/ Finish
  \/ Refuse \/ Undefined
  \/ Stopped

Spec == Init /\ [][Next]_vars
=============================================================================
