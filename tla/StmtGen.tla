------------------------------ MODULE StmtGen ------------------------------
(***************************************************************************)
(* Code generation of one function body (langMain/codeGen/types.cpp:       *)
(* IgFunction::genFunc and the generate() members of the statements).      *)
(*                                                                         *)
(* generate() recurses over the syntax tree.  Each of its activations is a *)
(* frame here, and an action runs one from a call to the next: it appends  *)
(* to the basic blocks, moves the insertion point `ip` of the shared       *)
(* builder, and pushes to and pops from the stacks of the Generator        *)
(* (`after` and `next`, where break and continue go, `switch`, `catches`   *)
(* and the variable layers m_vars).  lastUnreachable is the one flag that  *)
(* says the block at ip is closed.                                         *)
(*                                                                         *)
(* A statement is its kind and its sub-statements.  A block is the list of *)
(* its instructions; a straight-line statement is one instruction named by *)
(* the position of the statement in the tree.  Its kind is "call" when it  *)
(* contains a call of a function, which may throw, and else "do".          *)
(***************************************************************************)
EXTENDS Integers, Sequences

CONSTANTS
  Statements,   \* statements with everything inside them
  Programs      \* pairs: the function returns void, the scope of its body

VARIABLES
  prog,
  status,           \* "generating", or how genFunc ended
  frames,           \* activations of generate(), innermost last
  code,             \* instructions of each basic block
  ip,               \* block of the insertion point; 0, the null pointer, is no block
  lastUnreachable,
  after, next,      \* blocks
  switch,           \* switch instructions: <<block, index>>
  catches,          \* blocks
  m_vars,           \* number of variable layers
  unreach           \* the block "unreachable" of the function, or 0

stacks == <<after, next, switch, catches, m_vars>>
vars == <<prog, status, frames, code, ip, lastUnreachable, stacks, unreach>>

(***************************************************************************)
(* Statements.  The children of an if are then and, if there is one, else  *)
(* (a scope, a statement or another if); of a loop, its body; of a switch, *)
(* its scope, in which case and default are statements; of a try, its      *)
(* scope and those of its handlers.  Only loops, if and else may have a    *)
(* child that is not a scope.                                              *)
(***************************************************************************)
Plain == {"do", "call"}
Jumps == {"return", "break", "continue", "throw"}
Labels == {"case", "default"}
Kinds == Plain \cup Jumps \cup Labels \cup {"scope", "if", "while", "for", "switch", "try"}

Statement == [kind : Kinds, kids : Seq(Statements)]

ASSUME StatementsAssumption ==
  \A s \in Statements :
    /\ s \in Statement
    /\ s.kind \in {"while", "for", "switch"} => Len(s.kids) = 1
    /\ s.kind = "if" => Len(s.kids) \in {1, 2}
    /\ s.kind = "try" => Len(s.kids) >= 2

ASSUME ProgramsAssumption == Programs \subseteq BOOLEAN \X Statements

(***************************************************************************)
(* Instructions: operation, position of the statement, targets, and for a  *)
(* switch the positions of the cases its targets are for.                  *)
(***************************************************************************)
Instr(op, path, to) == [op |-> op, path |-> path, to |-> to, sel |-> <<>>]

Terminators == {"br", "cond", "switch", "ret", "invoke", "unreachable"}

New(n) == Len(code) + n
Blocks(c, n) == c \o [i \in 1 .. n |-> <<>>]
Put(c, b, instr) == IF b = 0 THEN c ELSE [c EXCEPT ![b] = Append(@, instr)]
PutBr(c, b, to) == Put(c, b, Instr("br", <<>>, <<to>>))
NextIn(c, b) == IF b \in DOMAIN c THEN Len(c[b]) + 1 ELSE 1

(***************************************************************************)
(* Activations.  exit, again and other are the basic blocks a statement    *)
(* keeps in local variables, inst is the switch instruction it created.    *)
(* at, a history field, is what the stacks held when it was called.        *)
(***************************************************************************)
Stacks == [after |-> after, next |-> next, switch |-> switch,
           catches |-> catches, m_vars |-> m_vars]

Activation(stmt, path, at) ==
  [stmt |-> stmt, path |-> path, stage |-> "start", kid |-> 0,
   exit |-> 0, again |-> 0, other |-> 0, inst |-> <<0, 0>>, at |-> at]

Top == frames[Len(frames)]
Handlers == Len(Top.stmt.kids) - 1   \* of a try
Below == SubSeq(frames, 1, Len(frames) - 1)

Generating(kinds, stage) ==
  /\ status = "generating"
  /\ frames # <<>>
  /\ Top.stmt.kind \in kinds
  /\ Top.stage = stage

\* The generate() at the top continues as f and calls generate() of child k.
Call(f, k) ==
  /\ frames' = Append(Append(Below, [f EXCEPT !.kid = k]),
                      Activation(f.stmt.kids[k], Append(f.path, k), Stacks'))
  /\ UNCHANGED <<prog, status>>

Return ==
  /\ frames' = Below
  /\ UNCHANGED <<prog, status>>

(***************************************************************************)
(* genFunc: a fresh entry block, a layer for the parameters, the scope.    *)
(***************************************************************************)
Init ==
  /\ prog \in Programs
  /\ status = "generating"
  /\ code = <<<<>>>>
  /\ ip = 1
  /\ lastUnreachable = FALSE
  /\ after = <<>> /\ next = <<>> /\ switch = <<>> /\ catches = <<>>
  /\ m_vars = 1
  /\ frames = <<Activation(prog[2], <<>>, Stacks)>>
  /\ unreach = 0

(***************************************************************************)
(* NodeStmtScope.  It stops at the first statement that leaves the flag    *)
(* set.                                                                    *)
(***************************************************************************)
ScopeEnterNoLayer ==   \* variant: no layer for the variables of the scope
  /\ Generating({"scope"}, "start")
  /\ frames' = Append(Below, [Top EXCEPT !.stage = "stmts"])
  /\ lastUnreachable' = FALSE
  /\ UNCHANGED <<prog, status, code, ip, stacks, unreach>>

ScopeEnter ==
  /\ Generating({"scope"}, "start")
  /\ frames' = Append(Below, [Top EXCEPT !.stage = "stmts"])
  /\ lastUnreachable' = FALSE
  /\ m_vars' = m_vars + 1
  /\ UNCHANGED <<prog, status, code, ip, after, next, switch, catches, unreach>>

ScopeStmt ==
  /\ Generating({"scope"}, "stmts")
  /\ Top.kid < Len(Top.stmt.kids)
  /\ ~ lastUnreachable
  /\ UNCHANGED <<code, ip, lastUnreachable, stacks, unreach>>
  /\ Call(Top, Top.kid + 1)

ScopeLeave ==
  /\ Generating({"scope"}, "stmts")
  /\ Top.kid = Len(Top.stmt.kids) \/ lastUnreachable
  /\ m_vars' = m_vars - 1
  /\ Return
  /\ UNCHANGED <<code, ip, lastUnreachable, after, next, switch, catches, unreach>>

(***************************************************************************)
(* Statements without statements in them.                                  *)
(***************************************************************************)
Do ==
  /\ Generating(Plain, "start")
  /\ code' = Put(code, ip, Instr(Top.stmt.kind, Top.path, <<>>))
  /\ Return
  /\ UNCHANGED <<ip, lastUnreachable, stacks, unreach>>

Jump(instr) ==
  /\ code' = Put(code, ip, instr)
  /\ lastUnreachable' = TRUE
  /\ Return
  /\ UNCHANGED <<ip, stacks, unreach>>

ReturnStmt == Generating({"return"}, "start") /\ Jump(Instr("ret", Top.path, <<>>))

Break ==
  /\ Generating({"break"}, "start")
  /\ after # <<>>
  /\ Jump(Instr("br", <<>>, <<after[Len(after)]>>))

Continue ==
  /\ Generating({"continue"}, "start")
  /\ next # <<>>
  /\ Jump(Instr("br", <<>>, <<next[Len(next)]>>))

\* back() of an empty vector, or in a try with three handlers or more an
\* argument of moveAfter that points before a block
Undefined ==
  /\ \/ Generating({"break"}, "start") /\ after = <<>>
     \/ Generating({"continue"}, "start") /\ next = <<>>
     \/ Generating(Labels, "start") /\ switch = <<>>
     \/ Generating({"try"}, "handlers") /\ Top.kid = Handlers + 1 /\ Handlers > 2
  /\ status' = "undefined"
  /\ UNCHANGED <<prog, frames, code, ip, lastUnreachable, stacks, unreach>>

\* The block "unreachable" is created for the first throw of a function.
Throw ==
  /\ Generating({"throw"}, "start")
  /\ LET u == IF unreach = 0 THEN New(1) ELSE unreach
         c == IF unreach = 0 THEN Blocks(code, 1) ELSE code
     IN /\ unreach' = u
        /\ code' = IF catches = <<>>
                     THEN Put(Put(c, ip, Instr("throw", Top.path, <<>>)), ip,
                              Instr("unreachable", <<>>, <<>>))
                     ELSE Put(c, ip, Instr("invoke", Top.path, <<u, catches[Len(catches)]>>))
  /\ lastUnreachable' = TRUE
  /\ Return
  /\ UNCHANGED <<ip, stacks>>

(***************************************************************************)
(* NodeStmtIf.  Each branch goes on to merge unless the flag is set after  *)
(* it.                                                                     *)
(***************************************************************************)
Joined(c, b) == IF lastUnreachable THEN c ELSE PutBr(c, ip, b)

IfBegin ==
  /\ Generating({"if"}, "start")
  /\ code' = Put(Blocks(code, 3), ip, Instr("cond", Top.path, <<New(1), New(2)>>))
  /\ ip' = New(1)
  /\ UNCHANGED <<lastUnreachable, stacks, unreach>>
  /\ Call([Top EXCEPT !.stage = "then", !.other = New(2), !.exit = New(3)], 1)

IfElse ==
  /\ Generating({"if"}, "then")
  /\ Len(Top.stmt.kids) = 2
  /\ code' = Joined(code, Top.exit)
  /\ ip' = Top.other
  /\ UNCHANGED <<lastUnreachable, stacks, unreach>>
  /\ Call([Top EXCEPT !.stage = "else"], 2)

IfEnd(c) ==
  /\ code' = c
  /\ ip' = Top.exit
  /\ lastUnreachable' = FALSE
  /\ Return
  /\ UNCHANGED <<stacks, unreach>>

IfWithoutElse ==
  /\ Generating({"if"}, "then")
  /\ Len(Top.stmt.kids) = 1
  /\ IfEnd(PutBr(Joined(code, Top.exit), Top.other, Top.exit))

IfMerge ==
  /\ Generating({"if"}, "else")
  /\ IfEnd(Joined(code, Top.exit))

(***************************************************************************)
(* NodeStmtWhile and NodeStmtFor: head, scope, [tail,] next.  The branch   *)
(* back is created whether or not the body already ended its block.        *)
(***************************************************************************)
LoopEnter(f, c, back) ==
  /\ code' = c
  /\ after' = Append(after, f.exit)
  /\ next' = Append(next, back)
  /\ UNCHANGED <<lastUnreachable, switch, catches, m_vars, unreach>>
  /\ Call([f EXCEPT !.stage = "body"], 1)

WhileBegin ==
  /\ Generating({"while"}, "start")
  /\ ip' = New(2)
  /\ LoopEnter([Top EXCEPT !.again = New(1), !.exit = New(3)],
               Put(PutBr(Blocks(code, 3), ip, New(1)), New(1),
                   Instr("cond", Top.path, <<New(2), New(3)>>)),
               New(1))

ForBeginToHead ==   \* variant: continue goes to the head
  /\ Generating({"for"}, "start")
  /\ ip' = New(2)
  /\ LoopEnter([Top EXCEPT !.again = New(1), !.other = New(3), !.exit = New(4)],
               Put(PutBr(Put(Blocks(code, 4), ip, Instr("let", Top.path, <<>>)), ip, New(1)),
                   New(1), Instr("cond", Top.path, <<New(2), New(4)>>)),
               New(1))

ForBegin ==
  /\ Generating({"for"}, "start")
  /\ ip' = New(2)
  /\ LoopEnter([Top EXCEPT !.again = New(1), !.other = New(3), !.exit = New(4)],
               Put(PutBr(Put(Blocks(code, 4), ip, Instr("let", Top.path, <<>>)), ip, New(1)),
                   New(1), Instr("cond", Top.path, <<New(2), New(4)>>)),
               New(3))

LoopLeaveHolding(c) ==   \* variant: `next` is not popped
  /\ code' = c
  /\ after' = SubSeq(after, 1, Len(after) - 1)
  /\ ip' = Top.exit
  /\ lastUnreachable' = FALSE
  /\ Return
  /\ UNCHANGED <<next, switch, catches, m_vars, unreach>>

LoopLeave(c) ==
  /\ code' = c
  /\ after' = SubSeq(after, 1, Len(after) - 1)
  /\ next' = SubSeq(next, 1, Len(next) - 1)
  /\ ip' = Top.exit
  /\ lastUnreachable' = FALSE
  /\ Return
  /\ UNCHANGED <<switch, catches, m_vars, unreach>>

WhileEnd ==
  /\ Generating({"while"}, "body")
  /\ LoopLeave(PutBr(code, ip, Top.again))

ForEnd ==
  /\ Generating({"for"}, "body")
  /\ LoopLeave(PutBr(Put(PutBr(code, ip, Top.other), Top.other,
                         Instr("step", Top.path, <<>>)),
                     Top.other, Top.again))

(***************************************************************************)
(* NodeStmtSwitch and NodeStmtCase.  A case starts a block and becomes a   *)
(* target of the innermost switch; nothing ends the block before it.       *)
(***************************************************************************)
SwitchBegin ==
  /\ Generating({"switch"}, "start")
  /\ code' = Put(Blocks(code, 1), ip,
                 [Instr("switch", Top.path, <<New(1)>>) EXCEPT !.sel = <<<<>>>>])
  /\ LET inst == <<ip, NextIn(code, ip)>>
     IN /\ switch' = Append(switch, inst)
        /\ after' = Append(after, New(1))
        /\ UNCHANGED <<ip, lastUnreachable, next, catches, m_vars, unreach>>
        /\ Call([Top EXCEPT !.stage = "body", !.exit = New(1), !.inst = inst], 1)

CaseAdded ==   \* the switch with the new block as the target of this case
  LET inst == switch[Len(switch)]
      old == code[inst[1]][inst[2]]
      new == IF Top.stmt.kind = "default"
               THEN [old EXCEPT !.to[1] = New(1), !.sel[1] = Top.path]
               ELSE [old EXCEPT !.to = Append(@, New(1)), !.sel = Append(@, Top.path)]
  IN [code EXCEPT ![inst[1]][inst[2]] = new]

CaseFallsThrough ==   \* variant: the block before it goes on to the new one
  /\ Generating(Labels, "start")
  /\ switch # <<>>
  /\ code' = Blocks(IF lastUnreachable THEN CaseAdded ELSE PutBr(CaseAdded, ip, New(1)), 1)
  /\ ip' = New(1)
  /\ Return
  /\ UNCHANGED <<lastUnreachable, stacks, unreach>>

Case ==
  /\ Generating(Labels, "start")
  /\ switch # <<>>
  /\ code' = Blocks(CaseAdded, 1)
  /\ ip' = New(1)
  /\ Return
  /\ UNCHANGED <<lastUnreachable, stacks, unreach>>

SwitchEnd ==
  /\ Generating({"switch"}, "body")
  /\ switch' = SubSeq(switch, 1, Len(switch) - 1)
  /\ after' = SubSeq(after, 1, Len(after) - 1)
  /\ ip' = Top.exit
  /\ Return
  /\ UNCHANGED <<code, lastUnreachable, next, catches, m_vars, unreach>>

(***************************************************************************)
(* NodeStmtTry.  `cont` is null until a handler ends normally: the branch  *)
(* of a body that ends normally has no target, and without `cont` the      *)
(* insertion point becomes the null pointer: a crash, or a builder that    *)
(* keeps what it creates out of every block.  With several handlers        *)
(* nothing leaves the landing pad.                                         *)
(***************************************************************************)
TryBegin ==
  /\ Generating({"try"}, "start")
  /\ code' = Blocks(code, 1)
  /\ catches' = Append(catches, New(1))
  /\ UNCHANGED <<ip, lastUnreachable, after, next, switch, m_vars, unreach>>
  /\ Call([Top EXCEPT !.stage = "body", !.other = New(1)], 1)

\* the test of the last handler goes on to the next one's
Chained(f, c) == IF f.again = 0 THEN c ELSE [c EXCEPT ![f.again][1].to[2] = Len(c) + 1]

\* a handler: its block, and its block "catchswitch" when there are several
HandlerEnter(f, c, h) ==
  /\ code' = IF Handlers = 1
               THEN PutBr(Blocks(c, 1), f.other, Len(c) + 1)
               ELSE Put(Blocks(Chained(f, c), 2), Len(c) + 1,
                        IF h = Handlers
                          THEN Instr("br", <<>>, <<Len(c) + 2>>)
                          ELSE Instr("cond", Append(f.path, h + 1), <<Len(c) + 2, 0>>))
  /\ ip' = Len(code')
  /\ Call([f EXCEPT !.stage = "handlers", !.again = Len(c) + 1], h + 1)

TryCaught ==
  /\ Generating({"try"}, "body")
  /\ catches' = SubSeq(catches, 1, Len(catches) - 1)
  /\ UNCHANGED <<lastUnreachable, after, next, switch, m_vars, unreach>>
  /\ HandlerEnter(Top, Put(IF lastUnreachable THEN code ELSE PutBr(code, ip, 0),
                           Top.other, Instr("landingpad", Top.path, <<>>)), 1)

\* what a handler that ends normally does: cont is created for the first one
Cont(c) == IF Top.exit = 0 THEN Len(c) + 1 ELSE Top.exit
Continued(c) ==
  IF lastUnreachable THEN c
  ELSE PutBr(IF Top.exit = 0 THEN Blocks(c, 1) ELSE c, ip, Cont(c))

NextHandler ==
  /\ Generating({"try"}, "handlers")
  /\ Top.kid <= Handlers
  /\ UNCHANGED <<lastUnreachable, stacks, unreach>>
  /\ HandlerEnter([Top EXCEPT !.exit = IF lastUnreachable THEN @ ELSE Cont(code)],
                  Continued(code), Top.kid)

NoCont == Top.exit = 0 /\ lastUnreachable

TryEndReset ==   \* variant: the flag is reset, as behind an if
  /\ Generating({"try"}, "handlers")
  /\ Top.kid = Handlers + 1
  /\ Handlers <= 2
  /\ code' = Continued(code)
  /\ ip' = IF NoCont THEN 0 ELSE Cont(code)
  /\ lastUnreachable' = FALSE
  /\ Return
  /\ UNCHANGED <<stacks, unreach>>

TryEnd ==
  /\ Generating({"try"}, "handlers")
  /\ Top.kid = Handlers + 1
  /\ Handlers <= 2
  /\ code' = Continued(code)
  /\ ip' = IF NoCont THEN 0 ELSE Cont(code)
  /\ Return
  /\ UNCHANGED <<lastUnreachable, stacks, unreach>>

TryCrash ==
  /\ Generating({"try"}, "handlers")
  /\ Top.kid = Handlers + 1
  /\ Handlers <= 2
  /\ NoCont
  /\ status' = "crashed"
  /\ UNCHANGED <<prog, frames, code, ip, lastUnreachable, stacks, unreach>>

(***************************************************************************)
(* The end of genFunc: a return for void functions, the check that others  *)
(* have one, the block "unreachable", and llvm::verifyFunction: every      *)
(* block ends in its only terminator, and every branch has a target.       *)
(***************************************************************************)
Verified(c) ==
  \A b \in DOMAIN c :
    /\ c[b] # <<>>
    /\ \A i \in DOMAIN c[b] :
         /\ c[b][i].op \in Terminators <=> i = Len(c[b])
         /\ \A t \in DOMAIN c[b][i].to : c[b][i].to[t] # 0

FinishedCode ==
  LET c == IF prog[1] THEN Put(code, ip, Instr("ret", <<>>, <<>>)) ELSE code
  IN IF unreach = 0 THEN c ELSE Put(c, unreach, Instr("unreachable", <<>>, <<>>))

NoReturn == ~ prog[1] /\ ~ lastUnreachable

Finish ==
  /\ status = "generating"
  /\ frames = <<>>
  /\ m_vars' = m_vars - 1
  /\ IF NoReturn
       THEN status' = "noReturn" /\ UNCHANGED <<code, unreach>>
       ELSE /\ code' = FinishedCode
            /\ unreach' = 0
            /\ status' = IF Verified(FinishedCode) THEN "accepted" ELSE "rejected"
  /\ UNCHANGED <<prog, frames, ip, lastUnreachable, after, next, switch, catches>>

GenNext ==
  \/ ScopeEnter \/ ScopeStmt \/ ScopeLeave
  \/ Do \/ ReturnStmt \/ Break \/ Continue \/ Throw \/ Undefined
  \/ IfBegin \/ IfElse \/ IfWithoutElse \/ IfMerge
  \/ WhileBegin \/ WhileEnd \/ ForBegin \/ ForEnd
  \/ SwitchBegin \/ Case \/ SwitchEnd
  \/ TryBegin \/ TryCaught \/ NextHandler \/ TryEnd \/ TryCrash
  \/ Finish

Ended == {"accepted", "rejected", "noReturn", "undefined", "crashed"}
Terminating == status \in Ended /\ UNCHANGED vars

GenSpec == Init /\ [][GenNext \/ Terminating]_vars

-----------------------------------------------------------------------------
(***************************************************************************)
(* Properties.                                                             *)
(***************************************************************************)
StackState == [after : Seq(Nat), next : Seq(Nat), switch : Seq(Nat \X Nat),
               catches : Seq(Nat), m_vars : Nat]

Frame == [stmt : Statements, path : Seq(Nat),
          stage : {"start", "stmts", "then", "else", "body", "handlers"}, kid : Nat,
          exit : Nat, again : Nat, other : Nat, inst : Nat \X Nat, at : StackState]

Ops == Terminators \cup Plain \cup {"let", "step", "throw", "landingpad"}
Instruction == [op : Ops, path : Seq(Nat), to : Seq(Nat), sel : Seq(Seq(Nat))]

(***************************************************************************)
(* The type invariant.  A variable layer is never popped that was not      *)
(* pushed: m_vars stays a natural number.                                  *)
(***************************************************************************)
TypeOK ==
  /\ prog \in Programs
  /\ status \in Ended \cup {"generating"}
  /\ frames \in Seq(Frame)
  /\ code \in Seq(Seq(Instruction))
  /\ ip \in Nat /\ unreach \in Nat
  /\ lastUnreachable \in BOOLEAN
  /\ Stacks \in StackState

\* what the stacks hold while a statement inside the statement of f is generated
Inside(f) ==
  IF f.stage = "body" /\ f.stmt.kind \in {"while", "for"}
    THEN [f.at EXCEPT !.after = Append(@, f.exit),
                      !.next = Append(@, IF f.stmt.kind = "for" THEN f.other ELSE f.again)]
  ELSE IF f.stage = "body" /\ f.stmt.kind = "switch"
    THEN [f.at EXCEPT !.after = Append(@, f.exit), !.switch = Append(@, f.inst)]
  ELSE IF f.stage = "body" /\ f.stmt.kind = "try"
    THEN [f.at EXCEPT !.catches = Append(@, f.other)]
  ELSE IF f.stage = "stmts" THEN [f.at EXCEPT !.m_vars = @ + 1]
  ELSE f.at

Outermost == [after |-> <<>>, next |-> <<>>, switch |-> <<>>, catches |-> <<>>, m_vars |-> 1]
Held(i) == IF i = 0 THEN Outermost ELSE Inside(frames[i])

(***************************************************************************)
(* A statement that ends leaves the generator's stacks as it found them,   *)
(* whichever way its parts end: so break and continue go to the innermost  *)
(* loop or switch, a case belongs to the innermost switch, a throw to the  *)
(* innermost try, and nothing is left for the next function.               *)
(***************************************************************************)
StackDiscipline ==
  /\ \A i \in DOMAIN frames : frames[i].at = Held(i - 1)
  /\ Stacks = IF frames = <<>> /\ status # "generating"
                THEN [Outermost EXCEPT !.m_vars = 0]
                ELSE Held(Len(frames))

(***************************************************************************)
(* lastUnreachable is sound: when it is not set there is a block at ip,    *)
(* and it is open, so that no statement is put behind a jump.  Only before *)
(* its first case is code put behind the instruction of a switch.          *)
(***************************************************************************)
EndsInJump(b) == code[b] # <<>> /\ code[b][Len(code[b])].op \in Terminators

FlagSound ==
  status = "generating" /\ ~ lastUnreachable =>
    /\ ip # 0
    /\ EndsInJump(ip) => switch # <<>> /\ ip = switch[Len(switch)][1]

(***************************************************************************)
(* The check of llvm::verifyFunction at the end of genFunc is there for    *)
(* mistakes of the generator: no function of a program fails it.           *)
(***************************************************************************)
VerifierContent == status # "rejected"
=============================================================================
