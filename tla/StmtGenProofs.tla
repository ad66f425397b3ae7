--------------------------- MODULE StmtGenProofs ---------------------------
(***************************************************************************)
(* For all programs: TypeOK and StackDiscipline are invariants of the      *)
(* generation of a function body.                                          *)
(*                                                                         *)
(* The two are inductive together.  That a layer is never popped that was  *)
(* not pushed needs the discipline, and the discipline needs the types of  *)
(* the frames.  For both a step comes down to one fact about the stacks:   *)
(* a call leaves them as Inside says of the calling frame, and a return as *)
(* the frame found them (CallKeeps and ReturnKeeps).                       *)
(***************************************************************************)
EXTENDS StmtGen, SequenceTheorems, TLAPS

IInv == TypeOK /\ StackDiscipline

-----------------------------------------------------------------------------
(***************************************************************************)
(* Sequences.                                                              *)
(***************************************************************************)
LEMMA PopType ==
  ASSUME NEW S, NEW s \in Seq(S)
  PROVE  /\ SubSeq(s, 1, Len(s) - 1) \in Seq(S)
         /\ s # <<>> => Len(SubSeq(s, 1, Len(s) - 1)) = Len(s) - 1
         /\ \A i \in 1 .. Len(s) - 1 : SubSeq(s, 1, Len(s) - 1)[i] = s[i]
<1>1. \A i \in 1 .. Len(s) - 1 : s[i] \in S
  OBVIOUS
<1>2. Len(s) \in Nat /\ (s # <<>> => Len(s) >= 1)
  BY EmptySeq
<1> DEFINE n == Len(s) - 1
<1>3. n \in Int /\ (s # <<>> => n >= 0) /\ n - 1 + 1 = n /\ \A i \in 1 .. n : 1 + i - 1 = i
  BY <1>2
<1>4. \A i \in 1 .. n : s[i] \in S
  BY <1>1
<1> HIDE DEF n
<1>5. /\ SubSeq(s, 1, n) \in Seq(S)
      /\ Len(SubSeq(s, 1, n)) = IF 1 <= n THEN n - 1 + 1 ELSE 0
      /\ \A i \in 1 .. n - 1 + 1 : SubSeq(s, 1, n)[i] = s[1 + i - 1]
  BY <1>3, <1>4, SubSeqProperties
<1>6. /\ s # <<>> => Len(SubSeq(s, 1, n)) = n
      /\ \A i \in 1 .. n : SubSeq(s, 1, n)[i] = s[i]
  BY <1>3, <1>5
<1> QED BY <1>5, <1>6 DEF n

LEMMA ExceptType ==
  ASSUME NEW S, NEW s \in Seq(S), NEW i, NEW e, i \in DOMAIN s => e \in S
  PROVE  [s EXCEPT ![i] = e] \in Seq(S)
<1>1. CASE i \in DOMAIN s
  BY <1>1, ExceptSeq, LenProperties
<1>2. CASE i \notin DOMAIN s
  <2> DEFINE t == [s EXCEPT ![i] = e]
  <2>1. s \in [1 .. Len(s) -> S] /\ Len(s) \in Nat
    BY LenProperties
  <2>2. t \in [1 .. Len(s) -> S]
    BY <1>2, <2>1
  <2> QED BY <2>1, <2>2, SeqDef
<1> QED BY <1>1, <1>2

LEMMA PopAppend ==
  ASSUME NEW S, NEW s \in Seq(S), NEW e \in S
  PROVE  SubSeq(Append(s, e), 1, Len(Append(s, e)) - 1) = s
<1> DEFINE t == Append(s, e)
<1>1. t \in Seq(S) /\ t # <<>> /\ Len(t) = Len(s) + 1 /\ \A i \in 1 .. Len(s) : t[i] = s[i]
  BY AppendProperties
<1>2. Len(s) \in Nat
  OBVIOUS
<1> HIDE DEF t
<1>3. SubSeq(t, 1, Len(t) - 1) \in Seq(S) /\ Len(SubSeq(t, 1, Len(t) - 1)) = Len(s)
  BY <1>1, <1>2, PopType
<1>4. \A i \in 1 .. Len(s) : SubSeq(t, 1, Len(t) - 1)[i] = s[i]
  BY <1>1, <1>2, PopType
<1>5. SubSeq(t, 1, Len(t) - 1) = s
  BY <1>3, <1>4, SeqEqual
<1> QED BY <1>5 DEF t

-----------------------------------------------------------------------------
(***************************************************************************)
(* Blocks and instructions.                                                *)
(***************************************************************************)
Code == Seq(Seq(Instruction))

LEMMA InstrType ==
  ASSUME NEW op \in Ops, NEW path \in Seq(Nat), NEW to \in Seq(Nat)
  PROVE  Instr(op, path, to) \in Instruction
<1>1. <<>> \in Seq(Seq(Nat))
  OBVIOUS
<1> QED BY <1>1 DEF Instr, Instruction

LEMMA NoTargets ==
  ASSUME NEW op \in Ops, NEW path \in Seq(Nat)
  PROVE  Instr(op, path, <<>>) \in Instruction
<1>1. <<>> \in Seq(Nat)
  OBVIOUS
<1> QED BY <1>1, InstrType

LEMMA BlocksType ==
  ASSUME NEW c \in Code, NEW n \in Nat
  PROVE  Blocks(c, n) \in Code
<1>1. [i \in 1 .. n |-> <<>>] \in Code
  BY DEF Code
<1> QED BY <1>1 DEF Blocks, Code

LEMMA PutType ==
  ASSUME NEW c \in Code, NEW b \in Nat, NEW instr \in Instruction
  PROVE  Put(c, b, instr) \in Code
<1>1. b \in DOMAIN c => Append(c[b], instr) \in Seq(Instruction)
  BY DEF Code
<1>2. [c EXCEPT ![b] = Append(c[b], instr)] \in Code
  BY <1>1, ExceptType DEF Code
<1> QED BY <1>2 DEF Put

LEMMA PutBrType ==
  ASSUME NEW c \in Code, NEW b \in Nat, NEW to \in Nat
  PROVE  PutBr(c, b, to) \in Code
<1>1. <<>> \in Seq(Nat) /\ <<to>> \in Seq(Nat)
  OBVIOUS
<1>2. Instr("br", <<>>, <<to>>) \in Instruction
  BY <1>1, InstrType DEF Ops, Terminators
<1> QED BY <1>2, PutType DEF PutBr

-----------------------------------------------------------------------------
(***************************************************************************)
(* Frames.                                                                 *)
(***************************************************************************)
LEMMA TopType ==
  ASSUME IInv, frames # <<>>
  PROVE  /\ Top \in Frame /\ Below \in Seq(Frame)
         /\ Len(Below) = Len(frames) - 1 /\ Len(frames) \in Nat \ {0}
         /\ \A i \in 1 .. Len(Below) : Below[i] = frames[i]
         /\ Stacks = Inside(Top)
         /\ Top.at = Held(Len(frames) - 1)
<1>1. frames \in Seq(Frame) /\ Len(frames) \in Nat \ {0} /\ DOMAIN frames = 1 .. Len(frames)
  BY EmptySeq, LenProperties DEF IInv, TypeOK
<1>2. Top \in Frame
  BY <1>1, ElementOfSeq DEF Top
<1>3. Below \in Seq(Frame) /\ Len(Below) = Len(frames) - 1
      /\ \A i \in 1 .. Len(frames) - 1 : Below[i] = frames[i]
  BY <1>1, PopType DEF Below
<1>4. Stacks = Inside(Top) /\ Top.at = Held(Len(frames) - 1)
  BY <1>1 DEF IInv, StackDiscipline, Held, Top
<1> QED BY <1>1, <1>2, <1>3, <1>4

LEMMA StatementParts ==
  ASSUME NEW s \in Statements
  PROVE  /\ s.kind \in Kinds /\ s.kids \in Seq(Statements)
         /\ s.kind \in {"while", "for", "switch"} => 1 \in DOMAIN s.kids
         /\ s.kind = "if" => 1 \in DOMAIN s.kids
         /\ s.kind = "try" => Len(s.kids) >= 2 /\ {1, 2} \subseteq DOMAIN s.kids
<1>1. s.kind \in Kinds /\ s.kids \in Seq(Statements)
  BY StatementsAssumption DEF Statement
<1>2. DOMAIN s.kids = 1 .. Len(s.kids) /\ Len(s.kids) \in Nat
  BY <1>1
<1>3. s.kind = "if" => Len(s.kids) >= 1
  BY StatementsAssumption
<1>4. s.kind \in {"while", "for", "switch"} => Len(s.kids) = 1
  BY StatementsAssumption
<1>5. s.kind = "try" => Len(s.kids) >= 2
  BY StatementsAssumption
<1>6. /\ Len(s.kids) = 1 => 1 \in DOMAIN s.kids
      /\ Len(s.kids) >= 1 => 1 \in DOMAIN s.kids
      /\ Len(s.kids) >= 2 => 1 \in DOMAIN s.kids /\ 2 \in DOMAIN s.kids
  BY <1>2
<1>7. s.kind = "try" => Len(s.kids) >= 2 /\ {1, 2} \subseteq DOMAIN s.kids
  BY <1>5, <1>6
<1>8. s.kind = "if" => 1 \in DOMAIN s.kids
  BY <1>3, <1>6
<1>9. s.kind \in {"while", "for", "switch"} => 1 \in DOMAIN s.kids
  BY <1>4, <1>6, Zenon
<1> QED BY <1>1, <1>7, <1>8, <1>9

LEMMA ActivationType ==
  ASSUME NEW s \in Statements, NEW path \in Seq(Nat), NEW at \in StackState
  PROVE  Activation(s, path, at) \in Frame
BY DEF Activation, Frame

(***************************************************************************)
(* A call preserves both parts of the invariant when it leaves on the      *)
(* stacks what Inside says of the frame that calls.                        *)
(***************************************************************************)
LEMMA CallKeeps ==
  ASSUME IInv, frames # <<>>, status = "generating",
         NEW f \in Frame, NEW k \in Nat, k \in DOMAIN f.stmt.kids,
         Call(f, k), f.at = Top.at,
         Stacks' \in StackState, Stacks' = Inside([f EXCEPT !.kid = k])
  PROVE  frames' \in Seq(Frame) /\ StackDiscipline'
<1> DEFINE g == [f EXCEPT !.kid = k]
           inner == Activation(f.stmt.kids[k], Append(f.path, k), Stacks')
<1>0. PICK n \in Nat \ {0} : n = Len(frames)
  BY TopType
<1>1. n \in Nat \ {0} /\ Below \in Seq(Frame) /\ Len(Below) = n - 1
      /\ (\A i \in 1 .. n - 1 : Below[i] = frames[i]) /\ Top.at = Held(n - 1)
  BY <1>0, TopType
<1>2. g \in Frame /\ g.at = f.at
  BY DEF Frame
<1>3. inner \in Frame /\ inner.at = Stacks'
  <2>1. f.stmt.kids[k] \in Statements
    BY StatementParts DEF Frame
  <2>2. Append(f.path, k) \in Seq(Nat)
    BY AppendProperties DEF Frame
  <2> QED BY <2>1, <2>2, ActivationType DEF Activation
<1>4. frames' = Append(Append(Below, g), inner) /\ status' = status
  BY DEF Call
<1> HIDE DEF g, inner
<1>5. /\ frames' \in Seq(Frame) /\ Len(frames') = n + 1
      /\ frames'[n + 1] = inner /\ frames'[n] = g
      /\ \A i \in 1 .. n - 1 : frames'[i] = frames[i]
  <2>1. /\ Append(Below, g) \in Seq(Frame) /\ Len(Append(Below, g)) = n
        /\ Append(Below, g)[n] = g
        /\ \A i \in 1 .. n - 1 : Append(Below, g)[i] = frames[i]
    BY <1>1, <1>2, AppendProperties
  <2> QED BY <1>1, <1>3, <1>4, <2>1, AppendProperties
<1>6. DOMAIN frames' = 1 .. n + 1 /\ DOMAIN frames = 1 .. n
  BY <1>0, <1>1, <1>5, LenProperties DEF IInv, TypeOK
<1>7. ASSUME NEW i \in 1 .. n + 1 PROVE frames'[i].at = Held(i - 1)'
  <2>1. CASE i = n + 1
    BY <2>1, <1>1, <1>3, <1>5 DEF Held, g
  <2>2. CASE i = n
    <3>1. Held(n - 1)' = Held(n - 1)
      BY <1>1, <1>5 DEF Held
    <3> QED BY <2>2, <3>1, <1>1, <1>2, <1>5
  <2>3. CASE i < n
    <3>1. i \in 1 .. n - 1 /\ (i - 1 = 0 \/ i - 1 \in 1 .. n - 1)
      BY <2>3, <1>1
    <3>2. Held(i - 1)' = Held(i - 1)
      BY <3>1, <1>5 DEF Held
    <3>3. frames[i].at = Held(i - 1)
      BY <3>1, <1>1, <1>6 DEF IInv, StackDiscipline
    <3> QED BY <3>1, <3>2, <3>3, <1>5
  <2> QED BY <1>1, <2>1, <2>2, <2>3
<1>8. Stacks' = Held(Len(frames))'
  <2>1. inner.stage = "start"
    BY DEF inner, Activation
  <2>2. Inside(inner) = inner.at
    BY <2>1 DEF Inside
  <2>3. Held(Len(frames))' = Inside(inner)
    BY <1>1, <1>5 DEF Held
  <2> QED BY <2>2, <2>3, <1>3
<1>9. status' = "generating"
  BY <1>4
<1>10. StackDiscipline'
  BY <1>6, <1>7, <1>8, <1>9 DEF StackDiscipline
<1> QED BY <1>5, <1>10

(***************************************************************************)
(* A return preserves them when it leaves the stacks as the frame found    *)
(* them.                                                                   *)
(***************************************************************************)
LEMMA ReturnKeeps ==
  ASSUME IInv, frames # <<>>, status = "generating", Return, Stacks' = Top.at
  PROVE  frames' \in Seq(Frame) /\ StackDiscipline'
<1>0. PICK n \in Nat \ {0} : n = Len(frames)
  BY TopType
<1>1. n \in Nat \ {0} /\ Below \in Seq(Frame) /\ Len(Below) = n - 1
      /\ (\A i \in 1 .. n - 1 : Below[i] = frames[i]) /\ Top.at = Held(n - 1)
  BY <1>0, TopType
<1>2. frames' = Below /\ status' = "generating"
  BY DEF Return
<1>3. DOMAIN frames' = 1 .. n - 1 /\ DOMAIN frames = 1 .. n
  BY <1>0, <1>1, <1>2, LenProperties DEF IInv, TypeOK
<1>4. ASSUME NEW i \in 0 .. n - 1 PROVE Held(i)' = Held(i)
  BY <1>1, <1>2 DEF Held
<1>5. ASSUME NEW i \in 1 .. n - 1 PROVE frames'[i].at = Held(i - 1)'
  <2>1. i - 1 \in 0 .. n - 1 /\ i \in 1 .. n
    BY <1>1
  <2>2. frames[i].at = Held(i - 1)
    BY <2>1, <1>3 DEF IInv, StackDiscipline
  <2>3. Held(i - 1)' = Held(i - 1)
    BY <2>1, <1>4
  <2> QED BY <2>2, <2>3, <1>1, <1>2
<1>6. Stacks' = Held(Len(frames))'
  <2>1. Held(n - 1)' = Held(n - 1)
    BY <1>1, <1>4
  <2>2. Held(Len(frames))' = Held(n - 1)'
    BY <1>1, <1>2 DEF Held
  <2> QED BY <2>1, <2>2, <1>1
<1>7. StackDiscipline'
  BY <1>2, <1>3, <1>5, <1>6 DEF StackDiscipline
<1> QED BY <1>1, <1>2, <1>7

-----------------------------------------------------------------------------
(***************************************************************************)
(* What every action may rely on.                                          *)
(***************************************************************************)
LEMMA InAction ==
  ASSUME IInv, NEW kinds, NEW stage, Generating(kinds, stage)
  PROVE  /\ frames # <<>> /\ status = "generating"
         /\ Top \in Frame /\ Top.stage = stage
         /\ Top.stmt \in Statements /\ Top.stmt.kind \in kinds /\ Top.path \in Seq(Nat)
         /\ Top.at \in StackState /\ Top.exit \in Nat /\ Top.again \in Nat
         /\ Top.other \in Nat /\ Top.kid \in Nat
         /\ code \in Code /\ \A n \in Nat : New(n) \in Nat
         /\ ip \in Nat /\ unreach \in Nat /\ lastUnreachable \in BOOLEAN /\ prog \in Programs
         /\ Stacks \in StackState
         /\ stage \in {"start", "then", "else", "handlers"} => Stacks = Top.at
<1>1. frames # <<>> /\ status = "generating" /\ Top.stage = stage /\ Top.stmt.kind \in kinds
  BY DEF Generating
<1>2. Top \in Frame /\ Stacks = Inside(Top)
  BY <1>1, TopType
<1>3. \A n \in Nat : New(n) \in Nat
  BY DEF New, IInv, TypeOK
<1>4. stage \in {"start", "then", "else", "handlers"} => Stacks = Top.at
  BY <1>1, <1>2 DEF Inside
<1> QED BY <1>1, <1>2, <1>3, <1>4 DEF Frame, IInv, TypeOK, Code

LEMMA StackRecord ==
  ASSUME NEW s \in StackState
  PROVE  /\ s.after \in Seq(Nat) /\ s.next \in Seq(Nat) /\ s.switch \in Seq(Nat \X Nat)
         /\ s.catches \in Seq(Nat) /\ s.m_vars \in Nat
         /\ s = [after |-> s.after, next |-> s.next, switch |-> s.switch,
                 catches |-> s.catches, m_vars |-> s.m_vars]
BY DEF StackState

LEMMA StackEntered ==
  ASSUME NEW s \in StackState, NEW a \in Seq(Nat), NEW n \in Seq(Nat)
  PROVE  [s EXCEPT !.after = a, !.next = n] \in StackState
BY DEF StackState

LEMMA StacksParts ==
  ASSUME Stacks \in StackState
  PROVE  /\ after \in Seq(Nat) /\ next \in Seq(Nat) /\ switch \in Seq(Nat \X Nat)
         /\ catches \in Seq(Nat) /\ m_vars \in Nat
BY DEF Stacks, StackState

LEMMA StacksTypeNext ==
  ASSUME after' \in Seq(Nat), next' \in Seq(Nat), switch' \in Seq(Nat \X Nat),
         catches' \in Seq(Nat), m_vars' \in Nat
  PROVE  Stacks' \in StackState
BY DEF Stacks, StackState

-----------------------------------------------------------------------------
(***************************************************************************)
(* The actions, statement by statement.                                    *)
(***************************************************************************)
LEMMA ScopeKeeps ==
  ASSUME IInv, ScopeEnter \/ ScopeStmt \/ ScopeLeave
  PROVE  IInv'
<1>1. CASE ScopeEnter
  <2> DEFINE g == [Top EXCEPT !.stage = "stmts"]
  <2>0. PICK n \in Nat \ {0} : n = Len(frames)
    BY <1>1, InAction, TopType DEF ScopeEnter
  <2>1. /\ Top \in Frame /\ Stacks = Top.at /\ Stacks \in StackState
        /\ status = "generating" /\ frames # <<>>
    BY <1>1, InAction DEF ScopeEnter
  <2>2. /\ Below \in Seq(Frame) /\ Len(Below) = n - 1 /\ Top.at = Held(n - 1)
        /\ \A i \in 1 .. n - 1 : Below[i] = frames[i]
    BY <2>0, <2>1, TopType
  <2>3. g \in Frame /\ g.at = Top.at /\ g.stage = "stmts"
    BY <2>1 DEF Frame
  <2>4. frames' = Append(Below, g) /\ status' = status
    BY <1>1 DEF ScopeEnter
  <2> HIDE DEF g
  <2>5. /\ frames' \in Seq(Frame) /\ Len(frames') = n /\ frames'[n] = g
        /\ \A i \in 1 .. n - 1 : frames'[i] = frames[i]
    BY <2>2, <2>3, <2>4, AppendProperties
  <2>6. DOMAIN frames' = 1 .. n /\ DOMAIN frames = 1 .. n
    BY <2>0, <2>5, LenProperties DEF IInv, TypeOK
  <2>7. ASSUME NEW i \in 1 .. n PROVE frames'[i].at = Held(i - 1)'
    <3>1. Held(i - 1)' = Held(i - 1)
      BY <2>5 DEF Held
    <3>2. CASE i = n
      BY <3>1, <3>2, <2>2, <2>3, <2>5
    <3>3. CASE i # n
      <4>1. i \in 1 .. n - 1
        BY <3>3
      <4>2. frames[i].at = Held(i - 1)
        BY <4>1, <2>6 DEF IInv, StackDiscipline
      <4> QED BY <4>1, <4>2, <3>1, <2>5
    <3> QED BY <3>2, <3>3
  <2>8. Stacks' = [Stacks EXCEPT !.m_vars = @ + 1]
    BY <1>1 DEF ScopeEnter, Stacks
  <2>9. Held(Len(frames))' = Inside(g)
    BY <2>5 DEF Held
  <2>10. Stacks' = Held(Len(frames))'
    BY <2>1, <2>3, <2>8, <2>9 DEF Inside
  <2>11. StackDiscipline'
    BY <2>1, <2>4, <2>6, <2>7, <2>10 DEF StackDiscipline
  <2>12. Stacks' \in StackState
    BY <1>1, <2>1, StacksParts, StacksTypeNext DEF ScopeEnter
  <2> QED BY <1>1, <2>5, <2>11, <2>12 DEF ScopeEnter, IInv, TypeOK
<1>2. CASE ScopeStmt
  <2>0. /\ Top \in Frame /\ frames # <<>> /\ status = "generating" /\ Stacks \in StackState
        /\ Top.stmt \in Statements /\ Top.kid \in Nat /\ Stacks = Inside(Top)
    BY <1>2, InAction, TopType DEF ScopeStmt
  <2>1. Top.kid + 1 \in DOMAIN Top.stmt.kids
    <3>1. Top.stmt.kids \in Seq(Statements) /\ Top.kid < Len(Top.stmt.kids)
      BY <1>2, <2>0, StatementParts DEF ScopeStmt
    <3> QED BY <2>0, <3>1, LenProperties
  <2>2. Stacks' = Stacks
    BY <1>2 DEF ScopeStmt, stacks, Stacks
  <2>3. Stacks = Inside([Top EXCEPT !.kid = Top.kid + 1])
    BY <2>0 DEF Inside, Frame
  <2>4. /\ Top.kid + 1 \in Nat /\ Call(Top, Top.kid + 1) /\ Stacks' \in StackState
        /\ Stacks' = Inside([Top EXCEPT !.kid = Top.kid + 1])
    BY <1>2, <2>0, <2>2, <2>3 DEF ScopeStmt
  <2>5. frames' \in Seq(Frame) /\ StackDiscipline'
    BY <2>0, <2>1, <2>4, CallKeeps
  <2> QED BY <1>2, <2>2, <2>5 DEF ScopeStmt, Call, IInv, TypeOK
<1>3. CASE ScopeLeave
  <2>1. Stacks = [Top.at EXCEPT !.m_vars = @ + 1] /\ Top.at \in StackState
    BY <1>3, InAction, TopType DEF ScopeLeave, Inside
  <2>2. Stacks' = Top.at
    <3>1. /\ after = Top.at.after /\ next = Top.at.next /\ switch = Top.at.switch
          /\ catches = Top.at.catches /\ m_vars = Top.at.m_vars + 1 /\ Top.at.m_vars \in Nat
      BY <2>1, StackRecord DEF Stacks
    <3>2. /\ after' = Top.at.after /\ next' = Top.at.next /\ switch' = Top.at.switch
          /\ catches' = Top.at.catches /\ m_vars' = Top.at.m_vars
      BY <1>3, <3>1 DEF ScopeLeave
    <3> QED BY <2>1, <3>2, StackRecord DEF Stacks
  <2>3. frames' \in Seq(Frame) /\ StackDiscipline'
    BY <1>3, <2>2, InAction, ReturnKeeps DEF ScopeLeave
  <2> QED BY <1>3, <2>1, <2>2, <2>3 DEF ScopeLeave, Return, IInv, TypeOK
<1> QED BY <1>1, <1>2, <1>3

(***************************************************************************)
(* Steps that leave the stacks alone.                                      *)
(***************************************************************************)
LEMMA QuietReturn ==
  ASSUME IInv, NEW kinds, NEW stage, Generating(kinds, stage),
         stage \in {"start", "then", "else", "handlers"},
         Return, UNCHANGED stacks,
         code' \in Code, ip' \in Nat, unreach' \in Nat, lastUnreachable' \in BOOLEAN
  PROVE  IInv'
<1>1. /\ frames # <<>> /\ status = "generating" /\ Stacks \in StackState
      /\ Stacks = Top.at /\ prog \in Programs
  BY InAction
<1>2. Stacks' = Stacks
  BY DEF stacks, Stacks
<1>3. frames' \in Seq(Frame) /\ StackDiscipline'
  BY <1>1, <1>2, ReturnKeeps
<1> QED BY <1>1, <1>2, <1>3 DEF Return, IInv, TypeOK, Code

LEMMA QuietCall ==
  ASSUME IInv, NEW kinds, NEW stage, Generating(kinds, stage),
         stage \in {"start", "then", "else", "handlers"},
         NEW f \in Frame, NEW k \in Nat, k \in DOMAIN f.stmt.kids,
         f.at = Top.at, f.stage \in {"then", "else", "handlers"},
         Call(f, k), UNCHANGED stacks,
         code' \in Code, ip' \in Nat, unreach' \in Nat, lastUnreachable' \in BOOLEAN
  PROVE  IInv'
<1>1. /\ frames # <<>> /\ status = "generating" /\ Stacks \in StackState
      /\ Stacks = Top.at /\ prog \in Programs
  BY InAction
<1>2. Stacks' = Stacks
  BY DEF stacks, Stacks
<1>3. Inside([f EXCEPT !.kid = k]) = f.at
  BY DEF Inside, Frame
<1>4. Stacks' = Inside([f EXCEPT !.kid = k]) /\ Stacks' \in StackState
  BY <1>1, <1>2, <1>3
<1>5. frames' \in Seq(Frame) /\ StackDiscipline'
  BY <1>1, <1>4, CallKeeps
<1> QED BY <1>1, <1>4, <1>5 DEF Call, IInv, TypeOK, Code

LEMMA JumpKeeps ==
  ASSUME IInv, Do \/ ReturnStmt \/ Break \/ Continue
  PROVE  IInv'
<1>1. ASSUME NEW kinds, Generating(kinds, "start"), NEW instr \in Instruction,
             Return, code' = Put(code, ip, instr), UNCHANGED <<ip, stacks, unreach>>,
             lastUnreachable' \in BOOLEAN
      PROVE  IInv'
  <2>1. code \in Code /\ ip \in Nat /\ unreach \in Nat
    BY <1>1, InAction
  <2>2. code' \in Code
    BY <1>1, <2>1, PutType
  <2>3. ip' \in Nat /\ unreach' \in Nat /\ UNCHANGED stacks
    BY <1>1, <2>1
  <2> QED BY <1>1, <2>2, <2>3, QuietReturn
<1>2. CASE Do
  <2>1. Generating(Plain, "start")
    BY <1>2 DEF Do
  <2>2. Top.stmt.kind \in Plain /\ Top.path \in Seq(Nat) /\ lastUnreachable \in BOOLEAN
    BY <2>1, InAction
  <2>3. Instr(Top.stmt.kind, Top.path, <<>>) \in Instruction
    BY <2>2, NoTargets DEF Ops
  <2> QED BY <1>1, <1>2, <2>1, <2>2, <2>3 DEF Do
<1>3. CASE ReturnStmt
  <2>1. Generating({"return"}, "start")
    BY <1>3 DEF ReturnStmt
  <2>2. Instr("ret", Top.path, <<>>) \in Instruction
    BY <2>1, InAction, NoTargets DEF Ops, Terminators
  <2> QED BY <1>1, <1>3, <2>1, <2>2 DEF ReturnStmt, Jump
<1>4. ASSUME NEW to \in Nat PROVE Instr("br", <<>>, <<to>>) \in Instruction
  <2>1. <<>> \in Seq(Nat) /\ <<to>> \in Seq(Nat)
    OBVIOUS
  <2> QED BY <2>1, InstrType DEF Ops, Terminators
<1>5. CASE Break
  <2>1. Generating({"break"}, "start") /\ after # <<>>
    BY <1>5 DEF Break
  <2>2. after[Len(after)] \in Nat
    <3>1. after \in Seq(Nat)
      BY <2>1, InAction, StacksParts
    <3> QED BY <2>1, <3>1, EmptySeq, ElementOfSeq
  <2> QED BY <1>1, <1>4, <1>5, <2>1, <2>2 DEF Break, Jump
<1>6. CASE Continue
  <2>1. Generating({"continue"}, "start") /\ next # <<>>
    BY <1>6 DEF Continue
  <2>2. next[Len(next)] \in Nat
    <3>1. next \in Seq(Nat)
      BY <2>1, InAction, StacksParts
    <3> QED BY <2>1, <3>1, EmptySeq, ElementOfSeq
  <2> QED BY <1>1, <1>4, <1>6, <2>1, <2>2 DEF Continue, Jump
<1> QED BY <1>2, <1>3, <1>5, <1>6

LEMMA ThrowKeeps ==
  ASSUME IInv, Throw
  PROVE  IInv'
<1> DEFINE u == IF unreach = 0 THEN New(1) ELSE unreach
           c == IF unreach = 0 THEN Blocks(code, 1) ELSE code
<1>1. Generating({"throw"}, "start") /\ Return /\ UNCHANGED <<ip, stacks>>
      /\ lastUnreachable' = TRUE
  BY DEF Throw
<1>2. /\ code \in Code /\ ip \in Nat /\ unreach \in Nat /\ New(1) \in Nat
      /\ Top.path \in Seq(Nat) /\ Stacks \in StackState
  BY <1>1, InAction
<1>3. u \in Nat /\ c \in Code
  BY <1>2, BlocksType
<1>4. /\ unreach' = u
      /\ code' = IF catches = <<>>
                   THEN Put(Put(c, ip, Instr("throw", Top.path, <<>>)), ip,
                            Instr("unreachable", <<>>, <<>>))
                   ELSE Put(c, ip, Instr("invoke", Top.path, <<u, catches[Len(catches)]>>))
  BY DEF Throw
<1> HIDE DEF u, c
<1>5. catches # <<>> => catches[Len(catches)] \in Nat
  <2>1. catches \in Seq(Nat)
    BY <1>2, StacksParts
  <2> QED BY <2>1, EmptySeq, ElementOfSeq
<1>6. code' \in Code
  <2>1. <<>> \in Seq(Nat)
    OBVIOUS
  <2>2. CASE catches = <<>>
    <3>1. /\ Instr("throw", Top.path, <<>>) \in Instruction
          /\ Instr("unreachable", <<>>, <<>>) \in Instruction
      BY <1>2, <2>1, InstrType DEF Ops, Terminators
    <3>2. Put(c, ip, Instr("throw", Top.path, <<>>)) \in Code
      BY <1>2, <1>3, <3>1, PutType
    <3>3. Put(Put(c, ip, Instr("throw", Top.path, <<>>)), ip,
              Instr("unreachable", <<>>, <<>>)) \in Code
      BY <1>2, <3>1, <3>2, PutType
    <3> QED BY <1>4, <2>2, <3>3
  <2>3. CASE catches # <<>>
    <3>1. <<u, catches[Len(catches)]>> \in Seq(Nat)
      BY <1>3, <1>5, <2>3
    <3>2. Instr("invoke", Top.path, <<u, catches[Len(catches)]>>) \in Instruction
      BY <1>2, <3>1, InstrType DEF Ops, Terminators
    <3> QED BY <1>2, <1>3, <1>4, <2>3, <3>2, PutType
  <2> QED BY <2>2, <2>3
<1>7. ip' \in Nat /\ unreach' \in Nat /\ lastUnreachable' \in BOOLEAN /\ UNCHANGED stacks
  BY <1>1, <1>2, <1>3, <1>4
<1> QED BY <1>1, <1>6, <1>7, QuietReturn

(***************************************************************************)
(* NodeStmtIf.                                                             *)
(***************************************************************************)
LEMMA JoinedType ==
  ASSUME NEW c \in Code, NEW b \in Nat, ip \in Nat
  PROVE  Joined(c, b) \in Code
BY PutBrType DEF Joined

LEMMA IfKeeps ==
  ASSUME IInv, IfBegin \/ IfElse \/ IfWithoutElse \/ IfMerge
  PROVE  IInv'
<1>1. CASE IfBegin
  <2> DEFINE f == [Top EXCEPT !.stage = "then", !.other = New(2), !.exit = New(3)]
  <2>1. Generating({"if"}, "start")
    BY <1>1 DEF IfBegin
  <2>2. /\ Top \in Frame /\ code \in Code /\ New(1) \in Nat /\ New(2) \in Nat /\ New(3) \in Nat
        /\ ip \in Nat /\ unreach \in Nat /\ lastUnreachable \in BOOLEAN
        /\ Top.path \in Seq(Nat) /\ Top.stmt \in Statements /\ Top.stmt.kind = "if"
    <3>1. /\ Top \in Frame /\ code \in Code /\ \A n \in Nat : New(n) \in Nat
          /\ ip \in Nat /\ unreach \in Nat /\ lastUnreachable \in BOOLEAN
          /\ Top.path \in Seq(Nat) /\ Top.stmt \in Statements /\ Top.stmt.kind \in {"if"}
      BY <2>1, InAction
    <3> QED BY <3>1
  <2>3. f \in Frame /\ f.at = Top.at /\ f.stage = "then" /\ f.stmt = Top.stmt
    BY <2>2 DEF Frame
  <2>4. 1 \in DOMAIN f.stmt.kids
    BY <2>2, <2>3, StatementParts
  <2>5. code' \in Code
    <3>1. <<New(1), New(2)>> \in Seq(Nat)
      BY <2>2
    <3>2. Instr("cond", Top.path, <<New(1), New(2)>>) \in Instruction
      BY <2>2, <3>1, InstrType DEF Ops, Terminators
    <3>3. Blocks(code, 3) \in Code
      BY <2>2, BlocksType
    <3> QED BY <1>1, <2>2, <3>2, <3>3, PutType DEF IfBegin
  <2>6. /\ Call(f, 1) /\ UNCHANGED stacks /\ ip' \in Nat /\ unreach' \in Nat
        /\ lastUnreachable' \in BOOLEAN
    BY <1>1, <2>2 DEF IfBegin
  <2> HIDE DEF f
  <2> QED BY <2>1, <2>3, <2>4, <2>5, <2>6, QuietCall
<1>2. CASE IfElse
  <2> DEFINE f == [Top EXCEPT !.stage = "else"]
  <2>1. Generating({"if"}, "then")
    BY <1>2 DEF IfElse
  <2>2. /\ Top \in Frame /\ code \in Code /\ Top.exit \in Nat /\ Top.other \in Nat
        /\ ip \in Nat /\ unreach \in Nat /\ lastUnreachable \in BOOLEAN
        /\ Top.stmt \in Statements
    BY <2>1, InAction
  <2>3. f \in Frame /\ f.at = Top.at /\ f.stage = "else" /\ f.stmt = Top.stmt
    BY <2>2 DEF Frame
  <2>4. 2 \in DOMAIN f.stmt.kids
    <3>1. Top.stmt.kids \in Seq(Statements) /\ Len(Top.stmt.kids) = 2
      BY <1>2, <2>2, StatementParts DEF IfElse
    <3> QED BY <2>3, <3>1, LenProperties
  <2>5. code' \in Code
    BY <1>2, <2>2, JoinedType DEF IfElse
  <2>6. /\ Call(f, 2) /\ UNCHANGED stacks /\ ip' \in Nat /\ unreach' \in Nat
        /\ lastUnreachable' \in BOOLEAN
    BY <1>2, <2>2 DEF IfElse
  <2> HIDE DEF f
  <2> QED BY <2>1, <2>3, <2>4, <2>5, <2>6, QuietCall
<1>3. ASSUME NEW stage \in {"then", "else"}, Generating({"if"}, stage),
             NEW c \in Code, IfEnd(c)
      PROVE  IInv'
  <2>1. Top.exit \in Nat /\ unreach \in Nat
    BY <1>3, InAction
  <2>2. /\ Return /\ UNCHANGED stacks /\ code' \in Code /\ ip' \in Nat /\ unreach' \in Nat
        /\ lastUnreachable' \in BOOLEAN
    BY <1>3, <2>1 DEF IfEnd
  <2>3. stage \in {"start", "then", "else", "handlers"}
    BY <1>3
  <2> QED BY <1>3, <2>2, <2>3, QuietReturn
<1>4. CASE IfWithoutElse
  <2>1. Generating({"if"}, "then")
    BY <1>4 DEF IfWithoutElse
  <2>2. code \in Code /\ Top.exit \in Nat /\ Top.other \in Nat /\ ip \in Nat
    BY <2>1, InAction
  <2>3. PutBr(Joined(code, Top.exit), Top.other, Top.exit) \in Code
    BY <2>2, JoinedType, PutBrType
  <2> QED BY <1>3, <1>4, <2>1, <2>3 DEF IfWithoutElse
<1>5. CASE IfMerge
  <2>1. Generating({"if"}, "else")
    BY <1>5 DEF IfMerge
  <2>2. Joined(code, Top.exit) \in Code
    BY <2>1, InAction, JoinedType
  <2> QED BY <1>3, <1>5, <2>1, <2>2 DEF IfMerge
<1> QED BY <1>1, <1>2, <1>4, <1>5

(***************************************************************************)
(* NodeStmtWhile and NodeStmtFor.                                          *)
(***************************************************************************)
LEMMA LoopEnterKeeps ==
  ASSUME IInv, Generating({"while", "for"}, "start"),
         NEW f \in Frame, f.stmt = Top.stmt, f.at = Top.at,
         NEW c \in Code, NEW back \in Nat,
         back = IF Top.stmt.kind = "for" THEN f.other ELSE f.again,
         LoopEnter(f, c, back), ip' \in Nat
  PROVE  IInv'
<1> DEFINE g == [f EXCEPT !.stage = "body"]
<1>1. /\ frames # <<>> /\ status = "generating" /\ Stacks = Top.at /\ Stacks \in StackState
      /\ Top.stmt \in Statements /\ Top.stmt.kind \in {"while", "for"}
      /\ prog \in Programs /\ unreach \in Nat /\ lastUnreachable \in BOOLEAN
  BY InAction
<1>2. g \in Frame /\ g.at = Top.at /\ 1 \in DOMAIN g.stmt.kids
  BY <1>1, StatementParts DEF Frame
<1>3. /\ after' = Append(after, f.exit) /\ next' = Append(next, back)
      /\ UNCHANGED <<lastUnreachable, switch, catches, m_vars, unreach>>
      /\ Call(g, 1) /\ code' = c
  BY DEF LoopEnter
<1>4. Stacks' \in StackState
  <2>1. after' \in Seq(Nat) /\ next' \in Seq(Nat)
    BY <1>1, <1>3, StacksParts, AppendProperties DEF Frame
  <2> QED BY <1>1, <1>3, <2>1, StacksParts, StacksTypeNext
<1>5. Stacks' = Inside([g EXCEPT !.kid = 1])
  <2>1. Stacks' = [after |-> Append(after, f.exit), next |-> Append(next, back),
                   switch |-> switch, catches |-> catches, m_vars |-> m_vars]
    BY <1>3 DEF Stacks
  <2>2. /\ after = Top.at.after /\ next = Top.at.next /\ switch = Top.at.switch
        /\ catches = Top.at.catches /\ m_vars = Top.at.m_vars
    BY <1>1 DEF Stacks
  <2>3. Inside([g EXCEPT !.kid = 1])
          = [f.at EXCEPT !.after = Append(@, f.exit), !.next = Append(@, back)]
    BY <1>1 DEF Inside, Frame
  <2>4. Top.at \in StackState /\ Append(Top.at.after, f.exit) \in Seq(Nat)
        /\ Append(Top.at.next, back) \in Seq(Nat)
    BY <1>1, StackRecord, AppendProperties DEF Frame
  <2> DEFINE h == Inside([g EXCEPT !.kid = 1])
  <2>5. h \in StackState
    <3>1. [Top.at EXCEPT !.after = Append(Top.at.after, f.exit), !.next = Append(Top.at.next, back)] \in StackState
      BY <2>4, StackEntered
    <3> QED BY <2>3, <3>1
  <2>6. /\ h.after = Append(Top.at.after, f.exit) /\ h.next = Append(Top.at.next, back)
        /\ h.switch = Top.at.switch /\ h.catches = Top.at.catches /\ h.m_vars = Top.at.m_vars
    BY <2>3, <2>4 DEF StackState
  <2> HIDE DEF h
  <2>7. Stacks' = h
    BY <2>1, <2>2, <2>5, <2>6, StackRecord
  <2> QED BY <2>7 DEF h
<1> HIDE DEF g
<1>6. frames' \in Seq(Frame) /\ StackDiscipline'
  BY <1>1, <1>2, <1>3, <1>4, <1>5, CallKeeps
<1> QED BY <1>1, <1>3, <1>4, <1>6 DEF Call, IInv, TypeOK, Code

LEMMA LoopLeaveKeeps ==
  ASSUME IInv, NEW kind \in {"while", "for"}, Generating({kind}, "body"),
         NEW c \in Code, LoopLeave(c)
  PROVE  IInv'
<1>1. /\ frames # <<>> /\ status = "generating" /\ Stacks \in StackState
      /\ Top.at \in StackState /\ Top.exit \in Nat /\ Top.other \in Nat /\ Top.again \in Nat
      /\ Top.stmt.kind = kind /\ Top.stage = "body" /\ prog \in Programs /\ unreach \in Nat
  <2>1. Top.stmt.kind \in {kind}
    BY InAction
  <2> QED BY <2>1, InAction
<1> DEFINE back == IF kind = "for" THEN Top.other ELSE Top.again
<1>2. Stacks = [Top.at EXCEPT !.after = Append(@, Top.exit), !.next = Append(@, back)]
  BY <1>1, TopType DEF Inside
<1>3. back \in Nat
  BY <1>1
<1> HIDE DEF back
<1>4. /\ after = Append(Top.at.after, Top.exit) /\ next = Append(Top.at.next, back)
      /\ switch = Top.at.switch /\ catches = Top.at.catches /\ m_vars = Top.at.m_vars
      /\ Top.at.after \in Seq(Nat) /\ Top.at.next \in Seq(Nat)
  BY <1>1, <1>2, StackRecord DEF Stacks
<1>5. /\ SubSeq(after, 1, Len(after) - 1) = Top.at.after
      /\ SubSeq(next, 1, Len(next) - 1) = Top.at.next
  BY <1>1, <1>3, <1>4, PopAppend
<1>6. /\ after' = Top.at.after /\ next' = Top.at.next /\ switch' = Top.at.switch
      /\ catches' = Top.at.catches /\ m_vars' = Top.at.m_vars
  BY <1>4, <1>5 DEF LoopLeave
<1>7. Stacks' = Top.at
  BY <1>1, <1>6, StackRecord DEF Stacks
<1>8. /\ Return /\ code' = c /\ ip' \in Nat /\ lastUnreachable' \in BOOLEAN /\ unreach' = unreach
  BY <1>1 DEF LoopLeave
<1>9. frames' \in Seq(Frame) /\ StackDiscipline'
  BY <1>1, <1>7, <1>8, ReturnKeeps
<1> QED BY <1>1, <1>7, <1>8, <1>9 DEF Return, IInv, TypeOK, Code

LEMMA LoopKeeps ==
  ASSUME IInv, WhileBegin \/ WhileEnd \/ ForBegin \/ ForEnd
  PROVE  IInv'
<1>1. ASSUME NEW to \in Seq(Nat), Top.path \in Seq(Nat)
      PROVE  Instr("cond", Top.path, to) \in Instruction
  BY <1>1, InstrType DEF Ops, Terminators
<1>2. ASSUME Top.path \in Seq(Nat)
      PROVE  /\ Instr("let", Top.path, <<>>) \in Instruction
             /\ Instr("step", Top.path, <<>>) \in Instruction
  BY <1>2, NoTargets DEF Ops
<1>3. CASE WhileBegin
  <2> DEFINE f == [Top EXCEPT !.again = New(1), !.exit = New(3)]
             c == Put(PutBr(Blocks(code, 3), ip, New(1)), New(1),
                      Instr("cond", Top.path, <<New(2), New(3)>>))
  <2>1. Generating({"while"}, "start") /\ Generating({"while", "for"}, "start")
    BY <1>3 DEF WhileBegin, Generating
  <2>2. /\ Top \in Frame /\ code \in Code /\ ip \in Nat /\ Top.path \in Seq(Nat)
        /\ Top.stmt.kind \in {"while"} /\ \A n \in Nat : New(n) \in Nat
    BY <2>1, InAction
  <2>3. New(1) \in Nat /\ New(2) \in Nat /\ New(3) \in Nat /\ Top.stmt.kind = "while"
    BY <2>2
  <2>4. f \in Frame /\ f.at = Top.at /\ f.stmt = Top.stmt /\ f.again = New(1)
    BY <2>2, <2>3 DEF Frame
  <2>5. c \in Code
    <3>1. PutBr(Blocks(code, 3), ip, New(1)) \in Code
      BY <2>2, <2>3, BlocksType, PutBrType
    <3>2. <<New(2), New(3)>> \in Seq(Nat)
      BY <2>3
    <3> QED BY <1>1, <2>2, <2>3, <3>1, <3>2, PutType
  <2>6. LoopEnter(f, c, New(1)) /\ ip' \in Nat
    BY <1>3, <2>3 DEF WhileBegin
  <2>7. New(1) = IF Top.stmt.kind = "for" THEN f.other ELSE f.again
    BY <2>3, <2>4
  <2> HIDE DEF f, c
  <2> QED BY <2>1, <2>3, <2>4, <2>5, <2>6, <2>7, LoopEnterKeeps
<1>4. CASE ForBegin
  <2> DEFINE f == [Top EXCEPT !.again = New(1), !.other = New(3), !.exit = New(4)]
             c == Put(PutBr(Put(Blocks(code, 4), ip, Instr("let", Top.path, <<>>)), ip, New(1)),
                      New(1), Instr("cond", Top.path, <<New(2), New(4)>>))
  <2>1. Generating({"for"}, "start") /\ Generating({"while", "for"}, "start")
    BY <1>4 DEF ForBegin, Generating
  <2>2. /\ Top \in Frame /\ code \in Code /\ ip \in Nat /\ Top.path \in Seq(Nat)
        /\ Top.stmt.kind \in {"for"} /\ \A n \in Nat : New(n) \in Nat
    BY <2>1, InAction
  <2>3. /\ New(1) \in Nat /\ New(2) \in Nat /\ New(3) \in Nat /\ New(4) \in Nat
        /\ Top.stmt.kind = "for"
    BY <2>2
  <2>4. f \in Frame /\ f.at = Top.at /\ f.stmt = Top.stmt /\ f.other = New(3)
    BY <2>2, <2>3 DEF Frame
  <2>5. c \in Code
    <3>1. Put(Blocks(code, 4), ip, Instr("let", Top.path, <<>>)) \in Code
      BY <1>2, <2>2, BlocksType, PutType
    <3>2. PutBr(Put(Blocks(code, 4), ip, Instr("let", Top.path, <<>>)), ip, New(1)) \in Code
      BY <2>2, <2>3, <3>1, PutBrType
    <3>3. <<New(2), New(4)>> \in Seq(Nat)
      BY <2>3
    <3> QED BY <1>1, <2>2, <2>3, <3>2, <3>3, PutType
  <2>6. LoopEnter(f, c, New(3)) /\ ip' \in Nat
    BY <1>4, <2>3 DEF ForBegin
  <2>7. New(3) = IF Top.stmt.kind = "for" THEN f.other ELSE f.again
    BY <2>3, <2>4
  <2> HIDE DEF f, c
  <2> QED BY <2>1, <2>3, <2>4, <2>5, <2>6, <2>7, LoopEnterKeeps
<1>5. CASE WhileEnd
  <2>1. Generating({"while"}, "body")
    BY <1>5 DEF WhileEnd
  <2>2. PutBr(code, ip, Top.again) \in Code
    BY <2>1, InAction, PutBrType
  <2> QED BY <1>5, <2>1, <2>2, LoopLeaveKeeps DEF WhileEnd
<1>6. CASE ForEnd
  <2> DEFINE c == PutBr(Put(PutBr(code, ip, Top.other), Top.other,
                            Instr("step", Top.path, <<>>)),
                        Top.other, Top.again)
  <2>1. Generating({"for"}, "body")
    BY <1>6 DEF ForEnd
  <2>2. /\ code \in Code /\ ip \in Nat /\ Top.path \in Seq(Nat)
        /\ Top.other \in Nat /\ Top.again \in Nat
    BY <2>1, InAction
  <2>3. PutBr(code, ip, Top.other) \in Code
    BY <2>2, PutBrType
  <2>4. c \in Code
    BY <1>2, <2>2, <2>3, PutType, PutBrType
  <2>5. LoopLeave(c)
    BY <1>6 DEF ForEnd
  <2> HIDE DEF c
  <2> QED BY <2>1, <2>4, <2>5, LoopLeaveKeeps
<1> QED BY <1>3, <1>4, <1>5, <1>6

(***************************************************************************)
(* NodeStmtSwitch and NodeStmtCase.                                        *)
(***************************************************************************)
LEMMA SwitchBeginKeeps ==
  ASSUME IInv, SwitchBegin
  PROVE  IInv'
<1> DEFINE inst == <<ip, NextIn(code, ip)>>
           g == [Top EXCEPT !.stage = "body", !.exit = New(1), !.inst = inst]
           instr == [Instr("switch", Top.path, <<New(1)>>) EXCEPT !.sel = <<<<>>>>]
           h == Inside([g EXCEPT !.kid = 1])
<1>1. Generating({"switch"}, "start")
  BY DEF SwitchBegin
<1>2. /\ frames # <<>> /\ status = "generating" /\ Stacks = Top.at /\ Top.at \in StackState
      /\ Top.stmt \in Statements /\ Top.stmt.kind \in {"switch"} /\ Top \in Frame
      /\ prog \in Programs /\ unreach \in Nat /\ lastUnreachable \in BOOLEAN
      /\ code \in Code /\ ip \in Nat /\ Top.path \in Seq(Nat) /\ \A n \in Nat : New(n) \in Nat
  BY <1>1, InAction
<1>3. New(1) \in Nat /\ Top.stmt.kind = "switch"
  BY <1>2
<1>4. inst \in Nat \X Nat
  <2>1. NextIn(code, ip) \in Nat
    BY <1>2 DEF NextIn, Code
  <2> QED BY <1>2, <2>1
<1>5. /\ code' = Put(Blocks(code, 1), ip, instr)
      /\ switch' = Append(switch, inst) /\ after' = Append(after, New(1))
      /\ UNCHANGED <<ip, lastUnreachable, next, catches, m_vars, unreach>>
      /\ Call(g, 1)
  BY DEF SwitchBegin
<1>6. code' \in Code
  <2>1. instr \in Instruction
    <3>1. <<New(1)>> \in Seq(Nat) /\ <<<<>>>> \in Seq(Seq(Nat))
      BY <1>3
    <3>2. Instr("switch", Top.path, <<New(1)>>) \in Instruction
      BY <1>2, <3>1, InstrType DEF Ops, Terminators
    <3> QED BY <3>1, <3>2 DEF Instruction
  <2>2. Blocks(code, 1) \in Code
    BY <1>2, BlocksType
  <2> HIDE DEF instr
  <2> QED BY <1>2, <1>5, <2>1, <2>2, PutType
<1> HIDE DEF inst, instr
<1>7. g \in Frame /\ g.at = Top.at /\ 1 \in DOMAIN g.stmt.kids
  <2>1. 1 \in DOMAIN Top.stmt.kids
    BY <1>2, StatementParts
  <2> QED BY <1>2, <1>3, <1>4, <2>1 DEF Frame
<1>8. Append(Top.at.after, New(1)) \in Seq(Nat) /\ Append(Top.at.switch, inst) \in Seq(Nat \X Nat)
  BY <1>2, <1>3, <1>4, StackRecord, AppendProperties
<1>9. h = [Top.at EXCEPT !.after = Append(@, New(1)), !.switch = Append(@, inst)]
  BY <1>2, <1>3 DEF Inside, Frame
<1>10. h \in StackState
  BY <1>2, <1>8, <1>9 DEF StackState
<1>11. /\ h.after = Append(Top.at.after, New(1)) /\ h.switch = Append(Top.at.switch, inst)
       /\ h.next = Top.at.next /\ h.catches = Top.at.catches /\ h.m_vars = Top.at.m_vars
  BY <1>2, <1>8, <1>9 DEF StackState
<1>12. /\ after = Top.at.after /\ next = Top.at.next /\ switch = Top.at.switch
       /\ catches = Top.at.catches /\ m_vars = Top.at.m_vars
  BY <1>2 DEF Stacks
<1> HIDE DEF h
<1>13. Stacks' = h
  <2>1. Stacks' = [after |-> h.after, next |-> h.next, switch |-> h.switch,
                   catches |-> h.catches, m_vars |-> h.m_vars]
    BY <1>5, <1>11, <1>12 DEF Stacks
  <2> QED BY <1>10, <2>1, StackRecord
<1>14. Stacks' \in StackState /\ Stacks' = Inside([g EXCEPT !.kid = 1])
  BY <1>10, <1>13 DEF h
<1> HIDE DEF g
<1>15. frames' \in Seq(Frame) /\ StackDiscipline'
  BY <1>2, <1>5, <1>7, <1>14, CallKeeps
<1> QED BY <1>2, <1>5, <1>6, <1>14, <1>15 DEF Call, IInv, TypeOK, Code

LEMMA CaseAddedType ==
  ASSUME code \in Code, switch \in Seq(Nat \X Nat), Top.path \in Seq(Nat), New(1) \in Nat
  PROVE  CaseAdded \in Code
<1> DEFINE a == switch[Len(switch)][1]
           b == switch[Len(switch)][2]
           old == code[a][b]
           new == IF Top.stmt.kind = "default"
                    THEN [old EXCEPT !.to = [@ EXCEPT ![1] = New(1)],
                                     !.sel = [@ EXCEPT ![1] = Top.path]]
                    ELSE [old EXCEPT !.to = Append(@, New(1)), !.sel = Append(@, Top.path)]
<1>1. CaseAdded = [code EXCEPT ![a] = [code[a] EXCEPT ![b] = new]]
  BY DEF CaseAdded
<1>2. ASSUME old \in Instruction PROVE new \in Instruction
  <2>1. old.to \in Seq(Nat) /\ old.sel \in Seq(Seq(Nat))
    BY <1>2 DEF Instruction
  <2>2. /\ [old.to EXCEPT ![1] = New(1)] \in Seq(Nat)
        /\ [old.sel EXCEPT ![1] = Top.path] \in Seq(Seq(Nat))
    BY <2>1, ExceptType
  <2>3. Append(old.to, New(1)) \in Seq(Nat) /\ Append(old.sel, Top.path) \in Seq(Seq(Nat))
    BY <2>1, AppendProperties
  <2> QED BY <1>2, <2>2, <2>3 DEF Instruction
<1>3. a \in DOMAIN code => code[a] \in Seq(Instruction)
  BY DEF Code
<1> HIDE DEF new
<1>4. a \in DOMAIN code => [code[a] EXCEPT ![b] = new] \in Seq(Instruction)
  <2>1. ASSUME a \in DOMAIN code, b \in DOMAIN code[a] PROVE old \in Instruction
    BY <1>3, <2>1
  <2> QED BY <1>2, <1>3, <2>1, ExceptType
<1> QED BY <1>1, <1>4, ExceptType DEF Code

LEMMA SwitchKeeps ==
  ASSUME IInv, Case \/ SwitchEnd
  PROVE  IInv'
<1>1. CASE Case
  <2>1. Generating(Labels, "start")
    BY <1>1 DEF Case
  <2>2. /\ code \in Code /\ ip \in Nat /\ unreach \in Nat /\ lastUnreachable \in BOOLEAN
        /\ Top.path \in Seq(Nat) /\ Stacks \in StackState /\ \A n \in Nat : New(n) \in Nat
    BY <2>1, InAction
  <2>3. New(1) \in Nat /\ switch \in Seq(Nat \X Nat)
    BY <2>2, StacksParts
  <2>4. code' \in Code
    BY <1>1, <2>2, <2>3, CaseAddedType, BlocksType DEF Case
  <2>5. Return /\ UNCHANGED stacks /\ ip' \in Nat /\ unreach' \in Nat /\ lastUnreachable' \in BOOLEAN
    BY <1>1, <2>2, <2>3 DEF Case
  <2> QED BY <2>1, <2>4, <2>5, QuietReturn
<1>2. CASE SwitchEnd
  <2>1. Generating({"switch"}, "body")
    BY <1>2 DEF SwitchEnd
  <2>2. /\ frames # <<>> /\ status = "generating" /\ Top.at \in StackState /\ Top \in Frame
        /\ Top.exit \in Nat /\ Top.stmt.kind \in {"switch"} /\ Top.stage = "body"
        /\ prog \in Programs /\ unreach \in Nat /\ lastUnreachable \in BOOLEAN /\ code \in Code
    BY <2>1, InAction
  <2>3. Stacks = [Top.at EXCEPT !.after = Append(@, Top.exit), !.switch = Append(@, Top.inst)]
    BY <2>2, TopType DEF Inside
  <2>4. /\ after = Append(Top.at.after, Top.exit) /\ next = Top.at.next
        /\ switch = Append(Top.at.switch, Top.inst)
        /\ catches = Top.at.catches /\ m_vars = Top.at.m_vars
        /\ Top.at.after \in Seq(Nat) /\ Top.at.switch \in Seq(Nat \X Nat)
        /\ Top.inst \in Nat \X Nat
    BY <2>2, <2>3, StackRecord DEF Stacks, Frame
  <2>5. /\ SubSeq(after, 1, Len(after) - 1) = Top.at.after
        /\ SubSeq(switch, 1, Len(switch) - 1) = Top.at.switch
    BY <2>2, <2>4, PopAppend
  <2>6. /\ after' = Top.at.after /\ next' = Top.at.next /\ switch' = Top.at.switch
        /\ catches' = Top.at.catches /\ m_vars' = Top.at.m_vars
    BY <1>2, <2>4, <2>5 DEF SwitchEnd
  <2>7. Stacks' = Top.at
    BY <2>2, <2>6, StackRecord DEF Stacks
  <2>8. Return /\ UNCHANGED <<code, lastUnreachable, unreach>> /\ ip' \in Nat
    BY <1>2, <2>2 DEF SwitchEnd
  <2>9. frames' \in Seq(Frame) /\ StackDiscipline'
    BY <2>2, <2>7, <2>8, ReturnKeeps
  <2> QED BY <2>2, <2>7, <2>8, <2>9 DEF Return, IInv, TypeOK, Code
<1> QED BY <1>1, <1>2

(***************************************************************************)
(* NodeStmtTry.                                                            *)
(***************************************************************************)
LEMMA ChainedType ==
  ASSUME NEW c \in Code, NEW f \in Frame
  PROVE  Chained(f, c) \in Code
<1> DEFINE old == c[f.again][1]
           new == [old EXCEPT !.to = [@ EXCEPT ![2] = Len(c) + 1]]
<1>1. Chained(f, c) = IF f.again = 0 THEN c
                      ELSE [c EXCEPT ![f.again] = [c[f.again] EXCEPT ![1] = new]]
  BY DEF Chained
<1>2. Len(c) + 1 \in Nat
  BY LenProperties DEF Code
<1>3. ASSUME old \in Instruction PROVE new \in Instruction
  <2>1. old.to \in Seq(Nat)
    BY <1>3 DEF Instruction
  <2>2. [old.to EXCEPT ![2] = Len(c) + 1] \in Seq(Nat)
    BY <1>2, <2>1, ExceptType
  <2> QED BY <1>3, <2>2 DEF Instruction
<1>4. f.again \in DOMAIN c => c[f.again] \in Seq(Instruction)
  BY DEF Code
<1> HIDE DEF new
<1>5. f.again \in DOMAIN c => [c[f.again] EXCEPT ![1] = new] \in Seq(Instruction)
  <2>1. ASSUME f.again \in DOMAIN c, 1 \in DOMAIN c[f.again] PROVE old \in Instruction
    BY <1>4, <2>1
  <2> QED BY <1>3, <1>4, <2>1, ExceptType
<1>6. [c EXCEPT ![f.again] = [c[f.again] EXCEPT ![1] = new]] \in Code
  BY <1>5, ExceptType DEF Code
<1> QED BY <1>1, <1>6

LEMMA HandlerEnterKeeps ==
  ASSUME IInv, frames # <<>>, status = "generating",
         NEW f \in Frame, f.stmt = Top.stmt, f.at = Top.at,
         NEW c \in Code, NEW h \in Nat, h + 1 \in DOMAIN f.stmt.kids,
         HandlerEnter(f, c, h), Stacks' = Top.at,
         unreach' \in Nat, lastUnreachable' \in BOOLEAN
  PROVE  IInv'
<1> DEFINE g == [f EXCEPT !.stage = "handlers", !.again = Len(c) + 1]
           d == Blocks(Chained(f, c), 2)
           instr == IF h = Handlers
                      THEN Instr("br", <<>>, <<Len(c) + 2>>)
                      ELSE Instr("cond", Append(f.path, h + 1), <<Len(c) + 2, 0>>)
<1>1. Len(c) \in Nat /\ Len(c) + 1 \in Nat /\ Len(c) + 2 \in Nat /\ h + 1 \in Nat
  BY LenProperties DEF Code
<1>2. /\ code' = IF Handlers = 1
                   THEN PutBr(Blocks(c, 1), f.other, Len(c) + 1)
                   ELSE Put(d, Len(c) + 1, instr)
      /\ ip' = Len(code') /\ Call(g, h + 1)
  BY DEF HandlerEnter
<1>3. instr \in Instruction
  <2>1. Append(f.path, h + 1) \in Seq(Nat)
    BY <1>1, AppendProperties DEF Frame
  <2>2. /\ <<Len(c) + 2>> \in Seq(Nat) /\ <<Len(c) + 2, 0>> \in Seq(Nat)
        /\ <<>> \in Seq(Nat)
    BY <1>1
  <2>3. Instr("br", <<>>, <<Len(c) + 2>>) \in Instruction
    BY <2>2, InstrType DEF Ops, Terminators
  <2>4. Instr("cond", Append(f.path, h + 1), <<Len(c) + 2, 0>>) \in Instruction
    BY <2>1, <2>2, InstrType DEF Ops, Terminators
  <2> QED BY <2>3, <2>4
<1>4. d \in Code
  BY ChainedType, BlocksType
<1> HIDE DEF d, instr
<1>5. code' \in Code
  <2>1. PutBr(Blocks(c, 1), f.other, Len(c) + 1) \in Code
    BY <1>1, BlocksType, PutBrType DEF Frame
  <2>2. Put(d, Len(c) + 1, instr) \in Code
    BY <1>1, <1>3, <1>4, PutType
  <2> QED BY <1>2, <2>1, <2>2
<1>6. ip' \in Nat
  BY <1>2, <1>5, LenProperties DEF Code
<1>7. g \in Frame /\ g.at = Top.at /\ g.stmt = f.stmt /\ Inside([g EXCEPT !.kid = h + 1]) = Top.at
  BY <1>1 DEF Frame, Inside
<1> HIDE DEF g
<1>8. Top \in Frame /\ prog \in Programs
  BY TopType DEF IInv, TypeOK
<1>9. Stacks' \in StackState /\ Stacks' = Inside([g EXCEPT !.kid = h + 1])
  BY <1>7, <1>8 DEF Frame
<1>10. h + 1 \in DOMAIN g.stmt.kids
  BY <1>7
<1>11. frames' \in Seq(Frame) /\ StackDiscipline'
  BY <1>1, <1>2, <1>7, <1>9, <1>10, CallKeeps
<1> QED BY <1>2, <1>5, <1>6, <1>8, <1>9, <1>11 DEF Call, IInv, TypeOK, Code

LEMMA TryBeginKeeps ==
  ASSUME IInv, TryBegin
  PROVE  IInv'
<1> DEFINE g == [Top EXCEPT !.stage = "body", !.other = New(1)]
           h == Inside([g EXCEPT !.kid = 1])
<1>1. Generating({"try"}, "start")
  BY DEF TryBegin
<1>2. /\ frames # <<>> /\ status = "generating" /\ Stacks = Top.at /\ Top.at \in StackState
      /\ Top.stmt \in Statements /\ Top.stmt.kind \in {"try"} /\ Top \in Frame
      /\ prog \in Programs /\ unreach \in Nat /\ lastUnreachable \in BOOLEAN
      /\ code \in Code /\ ip \in Nat /\ \A n \in Nat : New(n) \in Nat
  BY <1>1, InAction
<1>3. New(1) \in Nat /\ Top.stmt.kind = "try"
  BY <1>2
<1>4. /\ code' = Blocks(code, 1) /\ catches' = Append(catches, New(1))
      /\ UNCHANGED <<ip, lastUnreachable, after, next, switch, m_vars, unreach>>
      /\ Call(g, 1)
  BY DEF TryBegin
<1>5. code' \in Code
  BY <1>2, <1>4, BlocksType
<1>6. g \in Frame /\ g.at = Top.at /\ 1 \in DOMAIN g.stmt.kids
  <2>1. 1 \in DOMAIN Top.stmt.kids
    BY <1>2, <1>3, StatementParts
  <2> QED BY <1>2, <1>3, <2>1 DEF Frame
<1>7. Append(Top.at.catches, New(1)) \in Seq(Nat)
  BY <1>2, <1>3, StackRecord, AppendProperties
<1>8. h = [Top.at EXCEPT !.catches = Append(@, New(1))]
  BY <1>2, <1>3 DEF Inside, Frame
<1>9. h \in StackState
  BY <1>2, <1>7, <1>8 DEF StackState
<1>10. /\ h.catches = Append(Top.at.catches, New(1)) /\ h.after = Top.at.after
       /\ h.next = Top.at.next /\ h.switch = Top.at.switch /\ h.m_vars = Top.at.m_vars
  BY <1>2, <1>7, <1>8 DEF StackState
<1>11. /\ after = Top.at.after /\ next = Top.at.next /\ switch = Top.at.switch
       /\ catches = Top.at.catches /\ m_vars = Top.at.m_vars
  BY <1>2 DEF Stacks
<1> HIDE DEF h
<1>12. Stacks' = h
  <2>1. Stacks' = [after |-> h.after, next |-> h.next, switch |-> h.switch,
                   catches |-> h.catches, m_vars |-> h.m_vars]
    BY <1>4, <1>10, <1>11 DEF Stacks
  <2> QED BY <1>9, <2>1, StackRecord
<1>13. Stacks' \in StackState /\ Stacks' = Inside([g EXCEPT !.kid = 1])
  BY <1>9, <1>12 DEF h
<1> HIDE DEF g
<1>14. frames' \in Seq(Frame) /\ StackDiscipline'
  BY <1>2, <1>4, <1>6, <1>13, CallKeeps
<1> QED BY <1>2, <1>4, <1>5, <1>13, <1>14 DEF Call, IInv, TypeOK, Code

LEMMA TryCaughtKeeps ==
  ASSUME IInv, TryCaught
  PROVE  IInv'
<1> DEFINE c == Put(IF lastUnreachable THEN code ELSE PutBr(code, ip, 0),
                    Top.other, Instr("landingpad", Top.path, <<>>))
<1>1. Generating({"try"}, "body")
  BY DEF TryCaught
<1>2. /\ frames # <<>> /\ status = "generating" /\ Top.at \in StackState /\ Top \in Frame
      /\ Top.stmt \in Statements /\ Top.stmt.kind \in {"try"} /\ Top.stage = "body"
      /\ Top.other \in Nat /\ Top.path \in Seq(Nat)
      /\ unreach \in Nat /\ lastUnreachable \in BOOLEAN /\ code \in Code /\ ip \in Nat
  BY <1>1, InAction
<1>3. Stacks = [Top.at EXCEPT !.catches = Append(@, Top.other)]
  BY <1>2, TopType DEF Inside
<1>4. /\ after = Top.at.after /\ next = Top.at.next /\ switch = Top.at.switch
      /\ catches = Append(Top.at.catches, Top.other) /\ m_vars = Top.at.m_vars
      /\ Top.at.catches \in Seq(Nat)
  BY <1>2, <1>3, StackRecord DEF Stacks
<1>5. SubSeq(catches, 1, Len(catches) - 1) = Top.at.catches
  BY <1>2, <1>4, PopAppend
<1>6. /\ after' = Top.at.after /\ next' = Top.at.next /\ switch' = Top.at.switch
      /\ catches' = Top.at.catches /\ m_vars' = Top.at.m_vars
  BY <1>4, <1>5 DEF TryCaught
<1>7. Stacks' = Top.at
  BY <1>2, <1>6, StackRecord DEF Stacks
<1>8. c \in Code
  <2>1. Instr("landingpad", Top.path, <<>>) \in Instruction
    BY <1>2, NoTargets DEF Ops
  <2>2. PutBr(code, ip, 0) \in Code
    BY <1>2, PutBrType
  <2> QED BY <1>2, <2>1, <2>2, PutType
<1>9. HandlerEnter(Top, c, 1) /\ unreach' = unreach /\ lastUnreachable' = lastUnreachable
  BY DEF TryCaught
<1>10. 1 + 1 \in DOMAIN Top.stmt.kids
  BY <1>2, StatementParts
<1> HIDE DEF c
<1> QED BY <1>2, <1>7, <1>8, <1>9, <1>10, HandlerEnterKeeps

LEMMA HandlersKeep ==
  ASSUME IInv, NextHandler \/ TryEnd
  PROVE  IInv'
<1>1. Generating({"try"}, "handlers")
  BY DEF NextHandler, TryEnd
<1>2. /\ frames # <<>> /\ status = "generating" /\ Stacks = Top.at /\ Top \in Frame
      /\ Top.stmt \in Statements /\ Top.stmt.kind \in {"try"} /\ Top.stage = "handlers"
      /\ Top.exit \in Nat /\ Top.kid \in Nat
      /\ unreach \in Nat /\ lastUnreachable \in BOOLEAN /\ code \in Code /\ ip \in Nat
  <2>1. "handlers" \in {"start", "then", "else", "handlers"}
    OBVIOUS
  <2>2. Stacks = Top.at
    BY <1>1, <2>1, InAction
  <2> QED BY <1>1, <2>2, InAction
<1>3. Cont(code) \in Nat
  <2>1. Len(code) + 1 \in Nat
    BY <1>2, LenProperties DEF Code
  <2> QED BY <1>2, <2>1 DEF Cont
<1>4. Continued(code) \in Code
  <2>1. PutBr(IF Top.exit = 0 THEN Blocks(code, 1) ELSE code, ip, Cont(code)) \in Code
    BY <1>2, <1>3, BlocksType, PutBrType
  <2> QED BY <1>2, <2>1 DEF Continued
<1>5. CASE NextHandler
  <2> DEFINE f == [Top EXCEPT !.exit = IF lastUnreachable THEN @ ELSE Cont(code)]
  <2>1. f \in Frame /\ f.stmt = Top.stmt /\ f.at = Top.at
    BY <1>2, <1>3 DEF Frame
  <2>2. Top.kid + 1 \in DOMAIN f.stmt.kids
    <3>1. Top.stmt.kids \in Seq(Statements) /\ Top.kid <= Len(Top.stmt.kids) - 1
      BY <1>2, <1>5, StatementParts DEF NextHandler, Handlers
    <3> QED BY <1>2, <2>1, <3>1, LenProperties
  <2>3. UNCHANGED <<lastUnreachable, stacks, unreach>> /\ HandlerEnter(f, Continued(code), Top.kid)
    BY <1>5 DEF NextHandler
  <2>4. Stacks' = Top.at
    BY <1>2, <2>3 DEF stacks, Stacks
  <2>5. unreach' \in Nat /\ lastUnreachable' \in BOOLEAN
    BY <1>2, <2>3
  <2> HIDE DEF f
  <2> QED BY <1>2, <1>4, <2>1, <2>2, <2>3, <2>4, <2>5, HandlerEnterKeeps
<1>6. CASE TryEnd
  <2>1. /\ Return /\ UNCHANGED stacks /\ code' \in Code /\ ip' \in Nat /\ unreach' \in Nat
        /\ lastUnreachable' \in BOOLEAN
    BY <1>2, <1>3, <1>4, <1>6 DEF TryEnd
  <2> QED BY <1>1, <2>1, QuietReturn
<1> QED BY <1>5, <1>6

(***************************************************************************)
(* Steps that end the generation, or change nothing.                       *)
(***************************************************************************)
LEMMA StopKeeps ==
  ASSUME IInv, Undefined \/ TryCrash \/ UNCHANGED vars
  PROVE  IInv'
<1>1. UNCHANGED <<prog, frames, code, ip, lastUnreachable, stacks, unreach>>
  BY DEF Undefined, TryCrash, vars
<1>2. Stacks' = Stacks
  BY <1>1 DEF stacks, Stacks
<1>3. \A i : Held(i)' = Held(i)
  BY <1>1 DEF Held
<1>4. CASE Undefined \/ TryCrash
  <2>1. /\ status = "generating" /\ frames # <<>> /\ status' \in Ended
    BY <1>4 DEF Undefined, TryCrash, Generating, Ended
  <2>2. StackDiscipline'
    BY <1>1, <1>2, <1>3, <2>1 DEF IInv, StackDiscipline
  <2> QED BY <1>1, <1>2, <2>1, <2>2 DEF IInv, TypeOK
<1>5. CASE UNCHANGED vars
  <2>1. status' = status
    BY <1>5 DEF vars
  <2>2. StackDiscipline'
    BY <1>1, <1>2, <1>3, <2>1 DEF IInv, StackDiscipline
  <2> QED BY <1>1, <1>2, <2>1, <2>2 DEF IInv, TypeOK
<1> QED BY <1>4, <1>5

LEMMA FinishKeeps ==
  ASSUME IInv, Finish
  PROVE  IInv'
<1>1. /\ status = "generating" /\ frames = <<>> /\ m_vars' = m_vars - 1
      /\ UNCHANGED <<prog, frames, ip, lastUnreachable, after, next, switch, catches>>
  BY DEF Finish
<1>2. code \in Code /\ ip \in Nat /\ unreach \in Nat
  BY DEF IInv, TypeOK, Code
<1>3. Stacks = Outermost
  BY <1>1 DEF IInv, StackDiscipline, Held
<1>4. Stacks' = [Outermost EXCEPT !.m_vars = 0]
  <2>1. after = <<>> /\ next = <<>> /\ switch = <<>> /\ catches = <<>> /\ m_vars = 1
    BY <1>3 DEF Stacks, Outermost
  <2>2. m_vars' = 0
    BY <1>1, <2>1
  <2> QED BY <1>1, <2>1, <2>2 DEF Stacks, Outermost
<1>5. Stacks' \in StackState
  <2>1. <<>> \in Seq(Nat) /\ <<>> \in Seq(Nat \X Nat)
    OBVIOUS
  <2> QED BY <1>4, <2>1 DEF StackState, Outermost
<1>6. FinishedCode \in Code
  <2> DEFINE c == IF prog[1] THEN Put(code, ip, Instr("ret", <<>>, <<>>)) ELSE code
  <2>1. <<>> \in Seq(Nat)
    OBVIOUS
  <2>2. Instr("ret", <<>>, <<>>) \in Instruction /\ Instr("unreachable", <<>>, <<>>) \in Instruction
    BY <2>1, NoTargets DEF Ops, Terminators
  <2>3. Put(code, ip, Instr("ret", <<>>, <<>>)) \in Code
    BY <1>2, <2>2, PutType
  <2>4. c \in Code
    BY <1>2, <2>3
  <2>5. FinishedCode = IF unreach = 0 THEN c ELSE Put(c, unreach, Instr("unreachable", <<>>, <<>>))
    BY DEF FinishedCode
  <2> HIDE DEF c
  <2> QED BY <1>2, <2>2, <2>4, <2>5, PutType
<1>7. /\ code' \in Code /\ unreach' \in Nat /\ status' \in Ended
  <2>1. CASE NoReturn
    BY <1>2, <2>1 DEF Finish, Ended
  <2>2. CASE ~ NoReturn
    BY <1>6, <2>2 DEF Finish, Ended
  <2> QED BY <2>1, <2>2
<1>8. StackDiscipline'
  <2>1. status' # "generating"
    BY <1>7 DEF Ended
  <2> QED BY <1>1, <1>4, <2>1 DEF StackDiscipline
<1> QED BY <1>1, <1>5, <1>7, <1>8 DEF IInv, TypeOK, Code

-----------------------------------------------------------------------------
LEMMA InitKeeps ==
  ASSUME Init
  PROVE  IInv
<1>1. prog \in Programs /\ prog[2] \in Statements
  BY ProgramsAssumption DEF Init
<1>2. Stacks = Outermost /\ Outermost \in StackState
  BY DEF Init, Stacks, Outermost, StackState
<1>3. Activation(prog[2], <<>>, Stacks) \in Frame
  <2>1. <<>> \in Seq(Nat)
    OBVIOUS
  <2> QED BY <1>1, <1>2, <2>1, ActivationType
<1>4. frames = <<Activation(prog[2], <<>>, Stacks)>>
  BY DEF Init
<1>5. frames \in Seq(Frame) /\ Len(frames) = 1 /\ DOMAIN frames = {1} /\ frames # <<>>
  BY <1>3, <1>4
<1>6. code \in Seq(Seq(Instruction))
  <2>1. <<>> \in Seq(Instruction)
    OBVIOUS
  <2> QED BY <2>1 DEF Init
<1>7. frames[1].at = Outermost /\ Inside(frames[1]) = Outermost
  <2>1. frames[1].at = Outermost /\ frames[1].stage = "start"
    BY <1>2, <1>4 DEF Activation
  <2> QED BY <2>1 DEF Inside
<1>8. StackDiscipline
  BY <1>2, <1>5, <1>7 DEF StackDiscipline, Held
<1> QED BY <1>1, <1>2, <1>5, <1>6, <1>8 DEF Init, IInv, TypeOK

LEMMA Induction ==
  ASSUME IInv, [GenNext \/ Terminating]_vars
  PROVE  IInv'
<1>1. CASE GenNext
  BY <1>1, ScopeKeeps, JumpKeeps, ThrowKeeps, StopKeeps, IfKeeps, LoopKeeps,
     SwitchBeginKeeps, SwitchKeeps, TryBeginKeeps, TryCaughtKeeps, HandlersKeep, FinishKeeps
     DEF GenNext
<1>2. CASE Terminating \/ UNCHANGED vars
  BY <1>2, StopKeeps DEF Terminating
<1> QED BY <1>1, <1>2

LEMMA Invariant == GenSpec => []IInv
<1>1. Init => IInv
  BY InitKeeps
<1>2. IInv /\ [GenNext \/ Terminating]_vars => IInv'
  BY Induction
<1> QED BY <1>1, <1>2, PTL DEF GenSpec

(***************************************************************************)
(* For every program, the generation of a body keeps its types: no layer   *)
(* of variables is popped that was not pushed.                             *)
(***************************************************************************)
THEOREM TypeCorrect == GenSpec => []TypeOK
<1>1. IInv => TypeOK
  BY DEF IInv
<1> QED BY <1>1, Invariant, PTL

(***************************************************************************)
(* For every program, however its statements are nested, each generate()   *)
(* that returns leaves the stacks of the Generator as it found them, and   *)
(* genFunc leaves them empty for the next function.                        *)
(***************************************************************************)
THEOREM StackDisciplineCorrect == GenSpec => []StackDiscipline
<1>1. IInv => StackDiscipline
  BY DEF IInv
<1> QED BY <1>1, Invariant, PTL
=============================================================================
