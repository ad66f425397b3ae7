------------------------------ MODULE StmtExec ------------------------------
(***************************************************************************)
(* A generated function and its source, executed side by side.             *)
(*                                                                         *)
(* `at` is the next instruction of the basic blocks StmtGen built.  `todo` *)
(* is what is left to do according to the syntax tree, read the way every  *)
(* language of this family reads it: statements, and marks for the test of *)
(* a loop, the step of a for, and the end of a switch and of a try.  The   *)
(* two agree on the next visible event, and take it together: a plain      *)
(* statement, the outcome of a condition, the case a switch selects, the   *)
(* handler an exception goes to (<<>> is the caller), a return.            *)
(***************************************************************************)
EXTENDS StmtRules

VARIABLES
  at,     \* <<block, index>>; <<>> when the function has not begun, or has ended
  todo

execVars == <<at, todo>>

(***************************************************************************)
(* The source.                                                             *)
(***************************************************************************)
Item(what, stmt, path) == [what |-> what, stmt |-> stmt, path |-> path]
Kid(item, k) == Item("stmt", item.stmt.kids[k], Append(item.path, k))
KidsFrom(item, k) ==
  [i \in 1 .. Len(item.stmt.kids) - k + 1 |-> Kid(item, k + i - 1)]
Mark(what, item) == <<Item(what, item.stmt, item.path)>>

From(rest, marks) ==   \* rest, beginning with the first of the marks
  LET i == SelectInSeq(rest, LAMBDA x : x.what \in marks)
  IN SubSeq(rest, i, Len(rest))

\* the invisible steps up to the next event
RECURSIVE Ready(_)
Ready(items) ==
  IF items = <<>> THEN <<>>
  ELSE LET item == Head(items)
           rest == Tail(items)
           kind == item.stmt.kind
       IN CASE item.what \in {"endswitch", "endtry"} -> Ready(rest)
            [] item.what \in {"test", "step"} -> items
            [] kind = "scope" -> Ready(KidsFrom(item, 1) \o rest)
            [] kind \in Labels -> Ready(rest)
            [] kind = "while" -> Mark("test", item) \o rest
            [] kind = "try" -> Ready(<<Kid(item, 1)>> \o Mark("endtry", item) \o rest)
            [] kind = "break" -> Ready(Tail(From(rest, {"test", "step", "endswitch"})))
            [] kind = "continue" -> Ready(From(rest, {"test", "step"}))
            [] OTHER -> items

Offer(event, then) == [event |-> event, then |-> then]

\* where an exception thrown at path with `rest` to do may go
Thrown(path, rest) ==
  {Offer(<<"throw", path, <<>>>>, <<>>)}
    \cup {Offer(<<"throw", path, Append(rest[i].path, 2)>>,
                <<Kid(rest[i], 2)>> \o SubSeq(rest, i + 1, Len(rest))) :
            i \in {j \in DOMAIN rest : rest[j].what = "endtry"}}

Selected(item, rest) ==
  LET scope == Kid(item, 1)
      places == {i \in DOMAIN scope.stmt.kids : scope.stmt.kids[i].kind \in Labels}
  IN {Offer(<<"switch", item.path, Append(scope.path, i)>>,
            KidsFrom(scope, i + 1) \o Mark("endswitch", item) \o rest) : i \in places}
       \cup IF \E i \in places : scope.stmt.kids[i].kind = "default" THEN {}
            ELSE {Offer(<<"switch", item.path, <<>>>>, rest)}

SourceOffers(items) ==
  IF items = <<>> THEN IF prog[1] THEN {Offer(<<"ret", <<>>>>, <<>>)} ELSE {}
  ELSE LET item == Head(items)
           rest == Tail(items)
           Cond(yes, no) == {Offer(<<"cond", item.path, TRUE>>, yes),
                             Offer(<<"cond", item.path, FALSE>>, no)}
           kind == item.stmt.kind
       IN CASE item.what = "test" ->
                 Cond(<<Kid(item, 1)>> \o Mark(IF kind = "for" THEN "step" ELSE "test", item)
                        \o rest, rest)
            [] item.what = "step" ->
                 {Offer(<<"step", item.path>>, Mark("test", item) \o rest)}
            [] kind = "for" -> {Offer(<<"let", item.path>>, Mark("test", item) \o rest)}
            [] kind = "if" ->
                 Cond(<<Kid(item, 1)>> \o rest,
                      IF Len(item.stmt.kids) = 2 THEN <<Kid(item, 2)>> \o rest ELSE rest)
            [] kind = "switch" -> Selected(item, rest)
            [] kind = "do" -> {Offer(<<"do", item.path>>, rest)}
            [] kind = "call" -> {Offer(<<"call", item.path>>, rest)} \cup Thrown(item.path, rest)
            [] kind = "throw" -> Thrown(item.path, rest)
            [] kind = "return" -> {Offer(<<"ret", item.path>>, <<>>)}

(***************************************************************************)
(* The basic blocks.  An exception in a call leaves the function, and one  *)
(* in an invoke does unless its class is that of the landing pad.          *)
(***************************************************************************)
RECURSIVE Settle(_)
Settle(a) ==
  IF a = <<>> THEN <<>>
  ELSE LET instr == code[a[1]][a[2]]
       IN CASE instr.op = "br" -> Settle(<<instr.to[1], 1>>)
            [] instr.op = "landingpad" -> Settle(<<a[1], a[2] + 1>>)
            [] OTHER -> a

CodeOffers(a) ==
  LET instr == code[a[1]][a[2]]
      onward == <<a[1], a[2] + 1>>
      Target(j) == <<instr.to[j], 1>>
      uncaught == Offer(<<"throw", instr.path, <<>>>>, <<>>)
  IN CASE instr.op \in {"do", "let", "step"} -> {Offer(<<instr.op, instr.path>>, onward)}
       [] instr.op = "call" -> {Offer(<<"call", instr.path>>, onward), uncaught}
       [] instr.op = "cond" -> {Offer(<<"cond", instr.path, TRUE>>, Target(1)),
                                Offer(<<"cond", instr.path, FALSE>>, Target(2))}
       [] instr.op = "switch" ->
            {Offer(<<"switch", instr.path, instr.sel[j]>>, Target(j)) : j \in DOMAIN instr.to}
       [] instr.op = "throw" -> {uncaught}
       [] instr.op = "invoke" ->
            {uncaught, Offer(<<"throw", instr.path, Append(code[instr.to[2]][1].path, 2)>>,
                             Target(2))}
       [] instr.op = "ret" -> {Offer(<<"ret", instr.path>>, <<>>)}
       [] instr.op = "unreachable" -> {}

(***************************************************************************)
(* Generation, then any number of executions.                              *)
(***************************************************************************)
ExecInit == Init /\ at = <<>> /\ todo = <<>>

Generate == GenNext /\ UNCHANGED execVars

Start ==
  /\ status = "accepted" /\ at = <<>>
  /\ at' = Settle(<<1, 1>>)
  /\ todo' = Ready(<<Item("stmt", prog[2], <<>>)>>)
  /\ UNCHANGED vars

Advance ==
  /\ at # <<>>
  /\ \E s \in SourceOffers(todo), c \in CodeOffers(at) :
       /\ s.event = c.event
       /\ at' = Settle(c.then)
       /\ todo' = IF c.then = <<>> THEN <<>> ELSE Ready(s.then)
  /\ UNCHANGED vars

Stopped == status \in Ended /\ UNCHANGED <<vars, execVars>>

ExecSpec == ExecInit /\ [][Generate \/ Start \/ Advance \/ Stopped]_<<vars, execVars>>

-----------------------------------------------------------------------------
(***************************************************************************)
(* Kept: the bodies whose meaning the generator keeps.  What is lost       *)
(* otherwise, without a message: what follows a switch in its scope, and   *)
(* its cases from the second on; the outer handlers of a try in a try; and *)
(* the handlers of a try for exceptions of the functions called in it.     *)
(***************************************************************************)
RECURSIVE Kept(_, _)   \* tries: number of bodies of try around s
Kept(s, tries) ==
  /\ s.kind = "scope" =>
       LET stop == SelectInSeq(s.kids, Leaves)
       IN stop \in 1 .. Len(s.kids) - 1 =>
            /\ ~ Ends(s.kids[stop])
            /\ \A i \in stop + 1 .. Len(s.kids) : ~ HasLabel(s.kids[i])
  /\ s.kind = "throw" => tries <= 1
  /\ s.kind = "call" => tries = 0
  /\ s.kind = "switch" => \A k \in Range(s.kids[1].kids) : k.kind \in Labels \/ ~ HasLabel(k)
  /\ \A i \in DOMAIN s.kids :
       Kept(s.kids[i], IF s.kind = "try" /\ i = 1 THEN tries + 1 ELSE tries)

(***************************************************************************)
(* Where the generator keeps the meaning, the next events of the generated *)
(* function are those of its source, in every execution, and there is one. *)
(***************************************************************************)
Events(offers) == {o.event : o \in offers}

Agree ==
  at # <<>> /\ Kept(prog[2], 0) =>
    /\ Events(CodeOffers(at)) = Events(SourceOffers(todo))
    /\ CodeOffers(at) # {}
=============================================================================
