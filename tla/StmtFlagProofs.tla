--------------------------- MODULE StmtFlagProofs ---------------------------
(***************************************************************************)
(* For all programs: lastUnreachable is sound.                             *)
(*                                                                         *)
(* FlagSound alone is not inductive.  A statement that ends moves the      *)
(* insertion point to a block it created earlier and kept in a local       *)
(* variable, and that this block is still open depends on what everything  *)
(* in between did: no statement inside may have put an instruction into    *)
(* it.  SpareInv says so for every activation at once.  And a branch may   *)
(* start with the flag of the branch before it: Opened says that the block *)
(* a statement starts in is open whatever the flag is.                     *)
(***************************************************************************)
EXTENDS StmtGenProofs

\* the blocks the activation f still has in reserve
KeepsTwo(f) == f.stage = "then" \/ (f.stage = "body" /\ f.stmt.kind = "for")
Spare(f) ==
  IF KeepsTwo(f) THEN {f.other, f.exit}
  ELSE IF f.stage = "else" \/ (f.stage = "body" /\ f.stmt.kind # "try") THEN {f.exit}
  ELSE IF f.stage = "body" THEN {f.other}
  ELSE IF f.stage = "handlers" THEN {f.exit} \ {0}
  ELSE {}

\* what its local variables are at a stage
Locals(f) ==
  /\ KeepsTwo(f) => f.other # f.exit
  /\ f.stage = "start" => f.exit = 0
  /\ f.stage = "body" /\ f.stmt.kind = "try" => f.exit = 0
  /\ f.stage = "handlers" => f.kid >= 2

Blank(c) == {b \in DOMAIN c : c[b] = <<>>}

(***************************************************************************)
(* What is in reserve is empty, is not where instructions go now, and is   *)
(* in reserve once.  Only the innermost activation is still to start.      *)
(***************************************************************************)
SpareInv ==
  /\ \A i \in DOMAIN frames :
       /\ Spare(frames[i]) \subseteq Blank(code) \ {ip}
       /\ Locals(frames[i])
       /\ frames[i].stage = "start" => i = Len(frames)
  /\ \A i, j \in DOMAIN frames : i # j => Spare(frames[i]) \cap Spare(frames[j]) = {}
  /\ ip \in 0 .. Len(code)

Open ==
  /\ ip \in DOMAIN code
  /\ EndsInJump(ip) => switch # <<>> /\ ip = switch[Len(switch)][1]

Starting == frames # <<>> /\ Top.stage = "start"

Opened == status = "generating" /\ (Starting \/ ~ lastUnreachable) => Open

FlagInv == SpareInv /\ Opened

-----------------------------------------------------------------------------
(***************************************************************************)
(* What the operations on blocks leave empty.                              *)
(***************************************************************************)
LEMMA CodeParts ==
  ASSUME NEW c \in Code
  PROVE  /\ Len(c) \in Nat /\ DOMAIN c = 1 .. Len(c)
         /\ \A b \in DOMAIN c : c[b] \in Seq(Instruction)
BY LenProperties DEF Code

LEMMA BlankBlocks ==
  ASSUME NEW c \in Code, NEW n \in Nat
  PROVE  /\ Len(Blocks(c, n)) = Len(c) + n /\ DOMAIN Blocks(c, n) = 1 .. Len(c) + n
         /\ Blank(Blocks(c, n)) = Blank(c) \cup (Len(c) + 1 .. Len(c) + n)
<1> DEFINE e == [i \in 1 .. n |-> <<>>]
<1>1. Len(c) \in Nat /\ DOMAIN c = 1 .. Len(c) /\ c \in Seq(Seq(Instruction))
  BY CodeParts DEF Code
<1>2. e \in Seq(Seq(Instruction)) /\ Len(e) = n /\ \A i \in 1 .. n : e[i] = <<>>
  OBVIOUS
<1> HIDE DEF e
<1>3. /\ c \o e \in Seq(Seq(Instruction)) /\ Len(c \o e) = Len(c) + n
      /\ \A i \in 1 .. Len(c) + n : (c \o e)[i] = IF i <= Len(c) THEN c[i] ELSE e[i - Len(c)]
  BY <1>1, <1>2, ConcatProperties
<1>4. DOMAIN (c \o e) = 1 .. Len(c) + n
  BY <1>3, LenProperties
<1>5. \A b \in 1 .. Len(c) + n : b \in DOMAIN c \/ (b \in Len(c) + 1 .. Len(c) + n /\ b - Len(c) \in 1 .. n)
  BY <1>1
<1>6. \A b \in 1 .. Len(c) + n : b \in Len(c) + 1 .. Len(c) + n => (c \o e)[b] = <<>>
  BY <1>1, <1>2, <1>3
<1>7. \A b \in DOMAIN c : (c \o e)[b] = c[b] /\ b \in 1 .. Len(c) + n
  BY <1>1, <1>3
<1>8. \A b \in Len(c) + 1 .. Len(c) + n : b \in 1 .. Len(c) + n
  BY <1>1
<1>9. Blank(c \o e) = Blank(c) \cup (Len(c) + 1 .. Len(c) + n)
  BY <1>4, <1>5, <1>6, <1>7, <1>8 DEF Blank
<1> QED BY <1>3, <1>4, <1>9 DEF Blocks, e

LEMMA NewBlocks ==
  ASSUME NEW c \in Code, NEW m, m = Len(c), NEW n \in Nat
  PROVE  /\ Blank(Blocks(c, n)) = Blank(c) \cup (m + 1 .. m + n)
         /\ Len(Blocks(c, n)) = m + n /\ Blocks(c, n) \in Code
<1>1. /\ Blank(Blocks(c, n)) = Blank(c) \cup (Len(c) + 1 .. Len(c) + n)
      /\ Len(Blocks(c, n)) = Len(c) + n
  BY BlankBlocks
<1>2. Blocks(c, n) \in Code
  BY BlocksType
<1> QED BY <1>1, <1>2, Zenon

LEMMA BlankExcept ==
  ASSUME NEW c \in Code, NEW b, NEW e
  PROVE  /\ DOMAIN [c EXCEPT ![b] = e] = DOMAIN c
         /\ Blank(c) \ {b} \subseteq Blank([c EXCEPT ![b] = e])
BY DEF Blank

LEMMA SameLength ==
  ASSUME NEW m \in Nat, NEW n \in Nat, 1 .. m = 1 .. n
  PROVE  m = n
<1>1. (m \in 1 .. m \/ m = 0) /\ (n \in 1 .. n \/ n = 0)
  OBVIOUS
<1>2. m \in 1 .. n \/ m = 0
  BY <1>1
<1>3. n \in 1 .. m \/ n = 0
  BY <1>1
<1>4. 1 \in 1 .. m <=> 1 \in 1 .. n
  OBVIOUS
<1> QED BY <1>2, <1>3, <1>4

LEMMA BlankPut ==
  ASSUME NEW c \in Code, NEW b \in Nat, NEW instr \in Instruction
  PROVE  /\ Put(c, b, instr) \in Code
         /\ Len(Put(c, b, instr)) = Len(c) /\ DOMAIN Put(c, b, instr) = DOMAIN c
         /\ Blank(c) \ {b} \subseteq Blank(Put(c, b, instr))
<1>1. Put(c, b, instr) \in Code
  BY PutType
<1>2. /\ DOMAIN Put(c, b, instr) = DOMAIN c
      /\ Blank(c) \ {b} \subseteq Blank(Put(c, b, instr))
  <2>1. CASE b = 0
    BY <2>1 DEF Put
  <2>2. CASE b # 0
    BY <2>2, BlankExcept DEF Put
  <2> QED BY <2>1, <2>2
<1>3. Len(Put(c, b, instr)) = Len(c)
  <2>1. /\ DOMAIN Put(c, b, instr) = 1 .. Len(Put(c, b, instr)) /\ Len(Put(c, b, instr)) \in Nat
        /\ DOMAIN c = 1 .. Len(c) /\ Len(c) \in Nat
    BY <1>1, CodeParts
  <2> QED BY <1>2, <2>1, SameLength, Zenon
<1> QED BY <1>1, <1>2, <1>3

LEMMA BlankPutBr ==
  ASSUME NEW c \in Code, NEW b \in Nat, NEW to \in Nat
  PROVE  /\ PutBr(c, b, to) \in Code
         /\ Len(PutBr(c, b, to)) = Len(c) /\ DOMAIN PutBr(c, b, to) = DOMAIN c
         /\ Blank(c) \ {b} \subseteq Blank(PutBr(c, b, to))
<1>1. <<>> \in Seq(Nat) /\ <<to>> \in Seq(Nat)
  OBVIOUS
<1>2. Instr("br", <<>>, <<to>>) \in Instruction
  BY <1>1, InstrType DEF Ops, Terminators
<1> QED BY <1>2, BlankPut DEF PutBr

\* An instruction that is changed in place leaves every empty block empty.
LEMMA BlankInPlace ==
  ASSUME NEW c \in Code, NEW b, NEW i, NEW e
  PROVE  /\ DOMAIN [c EXCEPT ![b][i] = e] = DOMAIN c
         /\ Blank(c) \subseteq Blank([c EXCEPT ![b][i] = e])
<1> DEFINE d == [c EXCEPT ![b] = [c[b] EXCEPT ![i] = e]]
<1>1. d = [c EXCEPT ![b][i] = e] /\ DOMAIN d = DOMAIN c
  OBVIOUS
<1>2. ASSUME NEW x \in Blank(c) PROVE d[x] = <<>>
  <2>1. x \in DOMAIN c /\ c[x] = <<>> /\ c[x] \in Seq(Instruction)
    BY CodeParts DEF Blank
  <2>2. CASE x # b
    BY <2>1, <2>2
  <2>3. CASE x = b
    <3> DEFINE s == [c[x] EXCEPT ![i] = e]
    <3>1. d[x] = s
      BY <2>1, <2>3
    <3>2. DOMAIN c[x] = 1 .. 0
      BY <2>1
    <3>3. s = [y \in 1 .. 0 |-> e]
      BY <3>2
    <3>4. \A y : y \notin 1 .. 0
      OBVIOUS
    <3>5. c[x] = [y \in 1 .. 0 |-> e]
      BY <2>1, <3>4
    <3> QED BY <2>1, <3>1, <3>3, <3>5
  <2> QED BY <2>2, <2>3
<1>3. Blank(c) \subseteq Blank(d)
  BY <1>1, <1>2 DEF Blank
<1> QED BY <1>1, <1>3

-----------------------------------------------------------------------------
(***************************************************************************)
(* A step: the activations below the innermost are still there, that one   *)
(* ended or went on, at most one is new.                                   *)
(***************************************************************************)
LEMMA ReserveKept ==
  ASSUME IInv, IInv', SpareInv, NEW n \in Nat \ {0}, Len(frames) = n,
         \A i \in DOMAIN frames' : i < n => frames'[i] = frames[i],
         \A i \in DOMAIN frames' : i > n => i = Len(frames') /\ frames'[i].stage = "start"
                                              /\ Locals(frames'[i]),
         n \in DOMAIN frames' =>
           /\ Spare(frames'[n]) \subseteq Blank(code') \ {ip'}
           /\ \A b \in Spare(frames'[n]) : b \in Spare(Top) \/ b \notin DOMAIN code
           /\ Locals(frames'[n])
           /\ frames'[n].stage = "start" => n = Len(frames'),
         \A b \in (Blank(code) \ {ip}) \ Spare(Top) : b \in Blank(code') \ {ip'},
         Len(frames') >= n - 1,
         ip' \in 0 .. Len(code')
  PROVE  SpareInv'
<1>1. /\ DOMAIN frames = 1 .. n /\ Top = frames[n]
      /\ DOMAIN frames' = 1 .. Len(frames') /\ Len(frames') \in Nat
  BY LenProperties DEF IInv, TypeOK, Top
<1>0. \A i \in 1 .. Len(frames') : i \in Int /\ (i < n => i \in 1 .. n /\ i # n) /\ n \in 1 .. n
  OBVIOUS
<1>2. ASSUME NEW f, f.stage = "start" PROVE Spare(f) = {} /\ ~ KeepsTwo(f)
  BY <1>2 DEF Spare, KeepsTwo
<1>3. ASSUME NEW i \in DOMAIN frames', i < n
      PROVE  /\ i \in DOMAIN frames /\ i # n /\ n \in DOMAIN frames /\ frames'[i] = frames[i]
             /\ Spare(frames[i]) \cap Spare(Top) = {}
             /\ Spare(frames[i]) \subseteq Blank(code) \ {ip}
             /\ Spare(frames'[i]) \subseteq Blank(code') \ {ip'}
             /\ Locals(frames'[i])
             /\ frames'[i].stage # "start"
  <2>1. i \in DOMAIN frames /\ i # n /\ n \in DOMAIN frames /\ frames'[i] = frames[i]
    BY <1>0, <1>1, <1>3, Zenon
  <2>2. /\ Spare(frames[i]) \cap Spare(Top) = {}
        /\ Spare(frames[i]) \subseteq Blank(code) \ {ip}
        /\ Locals(frames[i])
        /\ frames[i].stage # "start"
    BY <1>1, <2>1 DEF SpareInv
  <2>3. Spare(frames[i]) \subseteq Blank(code') \ {ip'}
    BY <2>2
  <2> QED BY <2>1, <2>2, <2>3, Zenon
<1>4. ASSUME NEW i \in DOMAIN frames'
      PROVE  /\ Spare(frames'[i]) \subseteq Blank(code') \ {ip'}
             /\ Locals(frames'[i])
             /\ frames'[i].stage = "start" => i = Len(frames')
  <2>0. i \in Int
    BY <1>0, <1>1, Zenon
  <2>1. i < n \/ i = n \/ i > n
    BY <2>0
  <2>2. CASE i < n
    BY <1>3, <2>2, Zenon
  <2>3. CASE i = n
    BY <2>3, Zenon
  <2>4. CASE i > n
    <3>1. Spare(frames'[i]) = {} /\ Locals(frames'[i]) /\ i = Len(frames')
      BY <1>2, <2>4, Zenon
    <3> QED BY <3>1, Zenon
  <2> QED BY <2>1, <2>2, <2>3, <2>4, Zenon
<1>5. ASSUME NEW i \in DOMAIN frames', i < n, n \in DOMAIN frames'
      PROVE  Spare(frames'[i]) \cap Spare(frames'[n]) = {}
  <2>1. Spare(frames[i]) \subseteq DOMAIN code
    BY <1>3, <1>5 DEF Blank
  <2>2. ASSUME NEW b \in Spare(frames'[i]), b \in Spare(frames'[n]) PROVE FALSE
    <3>1. b \in DOMAIN code /\ b \notin Spare(Top)
      BY <1>3, <1>5, <2>1, <2>2
    <3> QED BY <1>5, <2>2, <3>1
  <2> QED BY <2>2
<1>6. ASSUME NEW i \in DOMAIN frames', NEW j \in DOMAIN frames', i < j
      PROVE  Spare(frames'[i]) \cap Spare(frames'[j]) = {}
  <2>0. i \in Int /\ j \in Int
    BY <1>0, <1>1, Zenon
  <2>1. (j < n /\ i < n) \/ (j = n /\ i < n) \/ j > n
    BY <1>6, <2>0
  <2>2. CASE j < n /\ i < n
    <3>1. i # j
      BY <1>6, <2>0
    <3>2. Spare(frames[i]) \cap Spare(frames[j]) = {}
      BY <1>3, <2>2, <3>1 DEF SpareInv
    <3> QED BY <1>3, <2>2, <3>2, Zenon
  <2>3. CASE j = n /\ i < n
    BY <1>5, <2>3, Zenon
  <2>4. CASE j > n
    <3>1. Spare(frames'[j]) = {}
      BY <1>2, <2>4, Zenon
    <3> QED BY <3>1
  <2> QED BY <2>1, <2>2, <2>3, <2>4, Zenon
<1>7. ASSUME NEW i \in DOMAIN frames', NEW j \in DOMAIN frames', i # j
      PROVE  Spare(frames'[i]) \cap Spare(frames'[j]) = {}
  <2>0. i \in Int /\ j \in Int
    BY <1>0, <1>1, Zenon
  <2>1. i < j \/ j < i
    BY <1>7, <2>0
  <2>2. Spare(frames'[i]) \cap Spare(frames'[j]) = {} \/ Spare(frames'[j]) \cap Spare(frames'[i]) = {}
    BY <1>6, <2>1, Zenon
  <2> QED BY <2>2
<1> QED BY <1>4, <1>7 DEF SpareInv, Spare, Locals, KeepsTwo

\* The three shapes of a step.
LEMMA ReturnSpares ==
  ASSUME IInv, IInv', SpareInv, frames # <<>>, frames' = Below,
         \A b \in (Blank(code) \ {ip}) \ Spare(Top) : b \in Blank(code') \ {ip'},
         ip' \in 0 .. Len(code'),
         lastUnreachable' \/ Open'
  PROVE  FlagInv'
<1>1. PICK n \in Nat \ {0} : n = Len(frames)
  BY TopType
<1>2. Len(Below) = n - 1 /\ (\A i \in 1 .. n - 1 : Below[i] = frames[i]) /\ Below \in Seq(Frame)
  BY <1>1, TopType
<1>3. DOMAIN frames' = 1 .. n - 1 /\ DOMAIN frames = 1 .. n
  BY <1>1, <1>2, LenProperties DEF IInv, TypeOK
<1>4. /\ \A i \in DOMAIN frames' : i < n => frames'[i] = frames[i]
      /\ \A i \in DOMAIN frames' : ~ (i > n)
      /\ n \notin DOMAIN frames' /\ Len(frames') >= n - 1
  BY <1>2, <1>3
<1>5. SpareInv'
  BY <1>1, <1>4, ReserveKept
<1>6. ~ Starting'
  <2>1. ASSUME frames' # <<>> PROVE Top'.stage # "start"
    <3>1. n - 1 # 0
      BY <1>2, <2>1, EmptySeq
    <3>2. n - 1 \in 1 .. n - 1 /\ n - 1 \in DOMAIN frames /\ n - 1 # n
      BY <1>3, <3>1
    <3>3. Top' = frames[n - 1]
      BY <1>2, <3>2 DEF Top
    <3> QED BY <1>1, <3>2, <3>3 DEF SpareInv
  <2> QED BY <2>1 DEF Starting
<1> QED BY <1>5, <1>6 DEF FlagInv, Opened

LEMMA CallSpares ==
  ASSUME IInv, IInv', SpareInv, frames # <<>>, NEW g, NEW inner,
         frames' = Append(Append(Below, g), inner),
         g \in Frame, inner \in Frame, inner.stage = "start", g.stage # "start",
         Spare(g) \subseteq Blank(code') \ {ip'},
         \A b \in Spare(g) : b \in Spare(Top) \/ b \notin DOMAIN code,
         Locals(g), Locals(inner),
         \A b \in (Blank(code) \ {ip}) \ Spare(Top) : b \in Blank(code') \ {ip'},
         ip' \in 0 .. Len(code'),
         Open'
  PROVE  FlagInv'
<1>1. PICK n \in Nat \ {0} : n = Len(frames)
  BY TopType
<1>2. Len(Below) = n - 1 /\ (\A i \in 1 .. n - 1 : Below[i] = frames[i]) /\ Below \in Seq(Frame)
  BY <1>1, TopType
<1>3. /\ Append(Below, g) \in Seq(Frame) /\ Len(Append(Below, g)) = n
      /\ Append(Below, g)[n] = g
      /\ \A i \in 1 .. n - 1 : Append(Below, g)[i] = frames[i]
  BY <1>2, AppendProperties
<1>4. /\ frames' \in Seq(Frame) /\ Len(frames') = n + 1
      /\ frames'[n + 1] = inner /\ frames'[n] = g
      /\ \A i \in 1 .. n - 1 : frames'[i] = frames[i]
  BY <1>2, <1>3, AppendProperties
<1>5. DOMAIN frames' = 1 .. n + 1
  BY <1>4, LenProperties
<1>6. /\ \A i \in DOMAIN frames' : i < n => frames'[i] = frames[i]
      /\ \A i \in DOMAIN frames' : i > n => i = Len(frames') /\ frames'[i].stage = "start"
                                            /\ Locals(frames'[i])
      /\ Len(frames') >= n - 1
  BY <1>4, <1>5
<1>7. SpareInv'
  BY <1>1, <1>4, <1>6, ReserveKept
<1> QED BY <1>7 DEF FlagInv, Opened

-----------------------------------------------------------------------------
(***************************************************************************)
(* What an action may rely on, and when the block at ip is open again.     *)
(***************************************************************************)
LEMMA InFlag ==
  ASSUME IInv, FlagInv, NEW kinds, NEW stage, Generating(kinds, stage)
  PROVE  /\ Spare(Top) \subseteq Blank(code) \ {ip}
         /\ Locals(Top) /\ (KeepsTwo(Top) => Top.other # Top.exit)
         /\ ip \in 0 .. Len(code) /\ Len(code) \in Nat /\ DOMAIN code = 1 .. Len(code)
         /\ stage = "start" \/ ~ lastUnreachable => Open
         /\ stage \in {"start", "stmts"} => Spare(Top) = {}
<1>1. frames # <<>> /\ status = "generating" /\ Top.stage = stage /\ code \in Code
  BY InAction
<1>2. Len(frames) \in DOMAIN frames /\ Top = frames[Len(frames)]
  BY <1>1, EmptySeq, LenProperties DEF Top, IInv, TypeOK
<1>3. /\ Spare(Top) \subseteq Blank(code) \ {ip}
      /\ Locals(Top) /\ ip \in 0 .. Len(code)
  BY <1>2, Zenon DEF FlagInv, SpareInv
<1>4. stage = "start" \/ ~ lastUnreachable => Open
  BY <1>1 DEF FlagInv, Opened, Starting
<1>5. stage \in {"start", "stmts"} => Spare(Top) = {}
  BY <1>1 DEF Spare, KeepsTwo
<1>6. KeepsTwo(Top) => Top.other # Top.exit
  BY <1>3 DEF Locals
<1> QED BY <1>1, <1>3, <1>4, <1>5, <1>6, CodeParts

LEMMA BlankIsOpen ==
  ASSUME ip' \in Blank(code')
  PROVE  Open'
BY DEF Open, EndsInJump, Blank

LEMMA OpenStays ==
  ASSUME Open, UNCHANGED <<code, ip, switch>>
  PROVE  Open'
BY DEF Open, EndsInJump

LEMMA OpenAfter ==
  ASSUME Open, code \in Code, ip' = ip, NEW instr \in Instruction,
         code' = Put(code, ip, instr),
         instr.op \notin Terminators
  PROVE  Open'
<1>1. ip \in DOMAIN code /\ DOMAIN code = 1 .. Len(code) /\ code[ip] \in Seq(Instruction)
  BY CodeParts DEF Open
<1>2. ip # 0 /\ code' = [code EXCEPT ![ip] = Append(code[ip], instr)]
  BY <1>1 DEF Put
<1>3. DOMAIN code' = DOMAIN code /\ code'[ip] = Append(code[ip], instr)
  BY <1>1, <1>2
<1>4. code'[ip][Len(code'[ip])] = instr
  BY <1>1, <1>3, AppendProperties
<1>5. ~ EndsInJump(ip)'
  BY <1>4 DEF EndsInJump
<1> QED BY <1>1, <1>3, <1>5 DEF Open

LEMMA CallKeepsFlag ==
  ASSUME IInv, IInv', SpareInv, frames # <<>>,
         NEW f \in Frame, NEW k \in Nat, k \in DOMAIN f.stmt.kids,
         Call(f, k), f.stage # "start",
         Spare(f) \subseteq Blank(code') \ {ip'},
         \A b \in Spare(f) : b \in Spare(Top) \/ b \notin DOMAIN code,
         KeepsTwo(f) => f.other # f.exit, f.stage = "handlers" => k >= 2,
         f.stage = "body" /\ f.stmt.kind = "try" => f.exit = 0,
         \A b \in (Blank(code) \ {ip}) \ Spare(Top) : b \in Blank(code') \ {ip'},
         ip' \in 0 .. Len(code'),
         Open'
  PROVE  FlagInv'
<1> DEFINE g == [f EXCEPT !.kid = k]
           inner == Activation(f.stmt.kids[k], Append(f.path, k), Stacks')
<1>1. /\ g \in Frame /\ g.stage = f.stage /\ g.stmt = f.stmt
      /\ g.other = f.other /\ g.exit = f.exit /\ g.kid = k
  BY DEF Frame
<1>2. inner \in Frame /\ inner.stage = "start" /\ inner.exit = 0
  <2>1. f.stmt.kids[k] \in Statements
    BY StatementParts DEF Frame
  <2>2. Append(f.path, k) \in Seq(Nat)
    BY AppendProperties DEF Frame
  <2>3. Stacks' \in StackState
    BY DEF IInv, TypeOK
  <2> QED BY <2>1, <2>2, <2>3, ActivationType DEF Activation
<1>3. frames' = Append(Append(Below, g), inner)
  BY DEF Call
<1>4. Spare(g) = Spare(f) /\ (KeepsTwo(g) <=> KeepsTwo(f))
  BY <1>1 DEF Spare, KeepsTwo
<1> HIDE DEF g, inner
<1>5. Locals(g) /\ Locals(inner)
  BY <1>1, <1>2, <1>4 DEF Locals, KeepsTwo
<1> QED BY <1>1, <1>2, <1>3, <1>4, <1>5, CallSpares

-----------------------------------------------------------------------------
(***************************************************************************)
(* The actions.                                                            *)
(***************************************************************************)
LEMMA ScopeFlag ==
  ASSUME IInv, IInv', FlagInv, ScopeEnter \/ ScopeStmt \/ ScopeLeave
  PROVE  FlagInv'
<1>1. CASE ScopeEnter
  <2> DEFINE g == [Top EXCEPT !.stage = "stmts"]
  <2>0. PICK n \in Nat \ {0} : n = Len(frames)
    BY <1>1, InAction, TopType DEF ScopeEnter
  <2>1. /\ Generating({"scope"}, "start") /\ UNCHANGED <<code, ip, switch, status>>
        /\ frames' = Append(Below, g) /\ frames # <<>> /\ Top \in Frame
    BY <1>1, InAction DEF ScopeEnter
  <2>2. /\ Below \in Seq(Frame) /\ Len(Below) = n - 1
        /\ \A i \in 1 .. n - 1 : Below[i] = frames[i]
    BY <2>0, <2>1, TopType
  <2>3. g \in Frame /\ g.stage = "stmts" /\ Spare(g) = {} /\ Locals(g)
    BY <2>1 DEF Frame, Spare, KeepsTwo, Locals
  <2> HIDE DEF g
  <2>4. /\ frames' \in Seq(Frame) /\ Len(frames') = n /\ frames'[n] = g
        /\ \A i \in 1 .. n - 1 : frames'[i] = frames[i]
    BY <2>1, <2>2, <2>3, AppendProperties
  <2>5. DOMAIN frames' = 1 .. n
    BY <2>4, LenProperties
  <2>6. Open /\ Open'
    BY <2>1, InFlag, OpenStays
  <2>7. /\ Spare(Top) = {} /\ ip' \in 0 .. Len(code')
        /\ \A b \in Blank(code) \ {ip} : b \in Blank(code') \ {ip'}
    BY <2>1, InFlag
  <2>8. /\ \A i \in DOMAIN frames' : i < n => frames'[i] = frames[i]
        /\ \A i \in DOMAIN frames' : ~ (i > n)
        /\ Len(frames') >= n - 1
    BY <2>4, <2>5
  <2>9. SpareInv'
    BY <2>0, <2>3, <2>4, <2>7, <2>8, ReserveKept DEF FlagInv
  <2> QED BY <2>6, <2>9 DEF FlagInv, Opened
<1>2. CASE ScopeStmt
  <2>1. /\ Generating({"scope"}, "stmts") /\ UNCHANGED <<code, ip, switch>>
        /\ ~ lastUnreachable /\ Top.kid < Len(Top.stmt.kids) /\ Call(Top, Top.kid + 1)
    BY <1>2 DEF ScopeStmt, stacks
  <2>2. Top \in Frame /\ frames # <<>> /\ Top.stage = "stmts" /\ Top.stmt \in Statements
    BY <2>1, InAction
  <2>3. Spare(Top) = {} /\ ip \in 0 .. Len(code) /\ Open'
    BY <2>1, InFlag, OpenStays
  <2>4. Top.kid + 1 \in Nat /\ Top.kid + 1 \in DOMAIN Top.stmt.kids
    <3>1. Top.kid \in Nat /\ Top.stmt.kids \in Seq(Statements)
      BY <2>2, StatementParts DEF Frame
    <3> QED BY <2>1, <3>1, LenProperties
  <2>5. ~ KeepsTwo(Top)
    BY <2>2 DEF KeepsTwo
  <2> QED BY <2>1, <2>2, <2>3, <2>4, <2>5, CallKeepsFlag DEF FlagInv
<1>3. CASE ScopeLeave
  <2>1. /\ Generating({"scope"}, "stmts") /\ UNCHANGED <<code, ip, switch, lastUnreachable>>
        /\ frames' = Below
    BY <1>3 DEF ScopeLeave, Return
  <2>2. frames # <<>> /\ Spare(Top) = {} /\ ip \in 0 .. Len(code) /\ (~ lastUnreachable => Open)
    BY <2>1, InFlag, InAction
  <2>3. lastUnreachable' \/ Open'
    BY <2>1, <2>2, OpenStays
  <2> QED BY <2>1, <2>2, <2>3, ReturnSpares DEF FlagInv
<1> QED BY <1>1, <1>2, <1>3

LEMMA PutInstr ==
  ASSUME NEW op \in Ops, NEW path \in Seq(Nat), NEW c \in Code, NEW b \in Nat
  PROVE  /\ Put(c, b, Instr(op, path, <<>>)) \in Code
         /\ Len(Put(c, b, Instr(op, path, <<>>))) = Len(c)
         /\ Blank(c) \ {b} \subseteq Blank(Put(c, b, Instr(op, path, <<>>)))
BY NoTargets, BlankPut

LEMMA SimpleFlag ==
  ASSUME IInv, IInv', FlagInv, Do \/ ReturnStmt \/ Break \/ Continue
  PROVE  FlagInv'
<1>1. CASE Do
  <2> DEFINE instr == Instr(Top.stmt.kind, Top.path, <<>>)
  <2>1. /\ Generating(Plain, "start") /\ UNCHANGED <<ip, switch, lastUnreachable>>
        /\ frames' = Below /\ code' = Put(code, ip, instr)
    BY <1>1 DEF Do, Return, stacks
  <2>2. /\ frames # <<>> /\ Top.stmt.kind \in Plain /\ Top.path \in Seq(Nat)
        /\ code \in Code /\ ip \in Nat
    BY <2>1, InAction
  <2>3. instr \in Instruction /\ instr.op \notin Terminators
    BY <2>2, NoTargets DEF Ops, Plain, Terminators, Instr
  <2> HIDE DEF instr
  <2>4. /\ Open /\ Spare(Top) = {} /\ ip \in 0 .. Len(code)
    BY <2>1, InFlag
  <2>5. Open'
    BY <2>1, <2>2, <2>3, <2>4, OpenAfter
  <2>6. Len(code') = Len(code) /\ Blank(code) \ {ip} \subseteq Blank(code')
    BY <2>1, <2>2, <2>3, BlankPut
  <2> QED BY <2>1, <2>2, <2>4, <2>5, <2>6, ReturnSpares DEF FlagInv
<1>2. ASSUME NEW kinds, NEW instr \in Instruction, Generating(kinds, "start"), Jump(instr)
      PROVE  FlagInv'
  <2>1. /\ UNCHANGED <<ip, switch>> /\ lastUnreachable'
        /\ frames' = Below /\ code' = Put(code, ip, instr)
    BY <1>2 DEF Jump, Return, stacks
  <2>2. frames # <<>> /\ code \in Code /\ ip \in Nat
    BY <1>2, InAction
  <2>3. Spare(Top) = {} /\ ip \in 0 .. Len(code)
    BY <1>2, InFlag
  <2>4. Len(code') = Len(code) /\ Blank(code) \ {ip} \subseteq Blank(code')
    BY <2>1, <2>2, BlankPut
  <2> QED BY <2>1, <2>2, <2>3, <2>4, ReturnSpares DEF FlagInv
<1>3. CASE ReturnStmt
  <2>1. Generating({"return"}, "start") /\ Jump(Instr("ret", Top.path, <<>>))
    BY <1>3 DEF ReturnStmt
  <2>2. Instr("ret", Top.path, <<>>) \in Instruction
    BY <2>1, InAction, NoTargets DEF Ops, Terminators
  <2> QED BY <1>2, <2>1, <2>2
<1>4. CASE Break
  <2>1. /\ Generating({"break"}, "start") /\ after # <<>>
        /\ Jump(Instr("br", <<>>, <<after[Len(after)]>>))
    BY <1>4 DEF Break
  <2>2. after[Len(after)] \in Nat
    <3>1. after \in Seq(Nat)
      BY <2>1, InAction, StacksParts
    <3> QED BY <2>1, <3>1, EmptySeq, ElementOfSeq
  <2>3. <<after[Len(after)]>> \in Seq(Nat) /\ <<>> \in Seq(Nat)
    BY <2>2
  <2>4. Instr("br", <<>>, <<after[Len(after)]>>) \in Instruction
    BY <2>3, InstrType DEF Ops, Terminators
  <2> QED BY <1>2, <2>1, <2>4
<1>5. CASE Continue
  <2>1. /\ Generating({"continue"}, "start") /\ next # <<>>
        /\ Jump(Instr("br", <<>>, <<next[Len(next)]>>))
    BY <1>5 DEF Continue
  <2>2. next[Len(next)] \in Nat
    <3>1. next \in Seq(Nat)
      BY <2>1, InAction, StacksParts
    <3> QED BY <2>1, <3>1, EmptySeq, ElementOfSeq
  <2>3. <<next[Len(next)]>> \in Seq(Nat) /\ <<>> \in Seq(Nat)
    BY <2>2
  <2>4. Instr("br", <<>>, <<next[Len(next)]>>) \in Instruction
    BY <2>3, InstrType DEF Ops, Terminators
  <2> QED BY <1>2, <2>1, <2>4
<1> QED BY <1>1, <1>3, <1>4, <1>5

LEMMA ThrowFlag ==
  ASSUME IInv, IInv', FlagInv, Throw
  PROVE  FlagInv'
<1> DEFINE u == IF unreach = 0 THEN New(1) ELSE unreach
           c == IF unreach = 0 THEN Blocks(code, 1) ELSE code
<1>1. /\ Generating({"throw"}, "start") /\ frames' = Below /\ UNCHANGED ip
      /\ lastUnreachable' = TRUE
  BY DEF Throw, Return
<1>2. /\ code \in Code /\ ip \in Nat /\ unreach \in Nat /\ New(1) \in Nat
      /\ Top.path \in Seq(Nat) /\ Stacks \in StackState /\ frames # <<>>
  BY <1>1, InAction
<1>3. u \in Nat /\ c \in Code
  BY <1>2, BlocksType
<1>4. /\ code' = IF catches = <<>>
                   THEN Put(Put(c, ip, Instr("throw", Top.path, <<>>)), ip,
                            Instr("unreachable", <<>>, <<>>))
                   ELSE Put(c, ip, Instr("invoke", Top.path, <<u, catches[Len(catches)]>>))
  BY DEF Throw
<1>5. Len(c) \in Nat /\ Len(c) >= Len(code) /\ Len(code) \in Nat /\ Blank(code) \subseteq Blank(c)
  <2>1. Len(code) \in Nat
    BY <1>2, CodeParts
  <2>2. Len(Blocks(code, 1)) = Len(code) + 1 /\ Blank(code) \subseteq Blank(Blocks(code, 1))
    BY <1>2, BlankBlocks
  <2>3. CASE unreach = 0
    BY <2>1, <2>2, <2>3
  <2>4. CASE unreach # 0
    BY <2>1, <2>4
  <2> QED BY <2>3, <2>4
<1> HIDE DEF u, c
<1>6. catches # <<>> => catches[Len(catches)] \in Nat
  <2>1. catches \in Seq(Nat)
    BY <1>2, StacksParts
  <2> QED BY <2>1, EmptySeq, ElementOfSeq
<1>7. Len(code') = Len(c) /\ Blank(c) \ {ip} \subseteq Blank(code')
  <2>1. <<>> \in Seq(Nat)
    OBVIOUS
  <2>2. CASE catches = <<>>
    <3> DEFINE d == Put(c, ip, Instr("throw", Top.path, <<>>))
    <3>1. d \in Code /\ Len(d) = Len(c) /\ Blank(c) \ {ip} \subseteq Blank(d)
      BY <1>2, <1>3, PutInstr DEF Ops
    <3>2. code' = Put(d, ip, Instr("unreachable", <<>>, <<>>))
      BY <1>4, <2>2
    <3> HIDE DEF d
    <3>3. Len(code') = Len(d) /\ Blank(d) \ {ip} \subseteq Blank(code')
      BY <1>2, <2>1, <3>1, <3>2, PutInstr DEF Ops, Terminators
    <3> QED BY <3>1, <3>3
  <2>3. CASE catches # <<>>
    <3>1. <<u, catches[Len(catches)]>> \in Seq(Nat)
      BY <1>3, <1>6, <2>3
    <3>2. Instr("invoke", Top.path, <<u, catches[Len(catches)]>>) \in Instruction
      BY <1>2, <3>1, InstrType DEF Ops, Terminators
    <3> QED BY <1>2, <1>3, <1>4, <2>3, <3>2, BlankPut
  <2> QED BY <2>2, <2>3
<1>8. ip \in 0 .. Len(code) /\ Spare(Top) = {}
  BY <1>1, InFlag
<1>9. /\ ip' \in 0 .. Len(code')
      /\ \A b \in Blank(code) \ {ip} : b \in Blank(code') \ {ip'}
  BY <1>1, <1>5, <1>7, <1>8
<1> QED BY <1>1, <1>2, <1>8, <1>9, ReturnSpares DEF FlagInv

LEMMA JoinedBlank ==
  ASSUME NEW c \in Code, NEW b \in Nat, ip \in Nat
  PROVE  /\ Joined(c, b) \in Code /\ Len(Joined(c, b)) = Len(c)
         /\ Blank(c) \ {ip} \subseteq Blank(Joined(c, b))
BY BlankPutBr DEF Joined

LEMMA IfFlag ==
  ASSUME IInv, IInv', FlagInv, IfBegin \/ IfElse \/ IfWithoutElse \/ IfMerge
  PROVE  FlagInv'
<1>0. code' \in Code /\ Len(code') \in Nat /\ DOMAIN code' = 1 .. Len(code')
  <2>1. code' \in Code
    BY DEF IInv, TypeOK, Code
  <2> QED BY <2>1, CodeParts
<1>1. CASE IfBegin
  <2> DEFINE f == [Top EXCEPT !.stage = "then", !.other = New(2), !.exit = New(3)]
             instr == Instr("cond", Top.path, <<New(1), New(2)>>)
  <2>1. /\ Generating({"if"}, "start") /\ ip' = New(1)
        /\ code' = Put(Blocks(code, 3), ip, instr) /\ Call(f, 1)
    BY <1>1 DEF IfBegin
  <2>2. /\ frames # <<>> /\ Top \in Frame /\ code \in Code /\ ip \in Nat
        /\ Top.path \in Seq(Nat) /\ Top.stmt \in Statements /\ Top.stmt.kind = "if"
    BY <2>1, InAction
  <2>3. PICK m \in Nat : m = Len(code)
    BY <2>2, CodeParts
  <2>4. New(1) = m + 1 /\ New(2) = m + 2 /\ New(3) = m + 3
    BY <2>3 DEF New
  <2>5. instr \in Instruction
    <3>1. <<New(1), New(2)>> \in Seq(Nat)
      BY <2>4
    <3> QED BY <2>2, <3>1, InstrType DEF Ops, Terminators
  <2>6. /\ f \in Frame /\ f.stage = "then" /\ f.other = m + 2 /\ f.exit = m + 3
        /\ f.stmt = Top.stmt
    <3>1. New(2) \in Nat /\ New(3) \in Nat
      BY <2>4
    <3>2. /\ f \in Frame /\ f.stage = "then" /\ f.other = New(2) /\ f.exit = New(3)
          /\ f.stmt = Top.stmt
      BY <2>2, <3>1 DEF Frame
    <3> HIDE DEF f
    <3> QED BY <2>4, <3>2
  <2> HIDE DEF f, instr
  <2>7. /\ Blank(Blocks(code, 3)) = Blank(code) \cup (m + 1 .. m + 3)
        /\ Len(Blocks(code, 3)) = m + 3 /\ Blocks(code, 3) \in Code
    BY <2>2, <2>3, BlankBlocks, BlocksType
  <2>8. Len(code') = m + 3 /\ (Blank(code) \cup (m + 1 .. m + 3)) \ {ip} \subseteq Blank(code')
    BY <2>1, <2>2, <2>5, <2>7, BlankPut
  <2>9. /\ ip \in 0 .. m /\ Spare(Top) = {} /\ DOMAIN code = 1 .. m
    BY <2>1, <2>3, InFlag
  <2>10. Spare(f) = {m + 2, m + 3} /\ f.other # f.exit
    BY <2>6 DEF Spare, KeepsTwo
  <2>11. /\ m + 1 \in Blank(code') /\ m + 2 \in Blank(code') /\ m + 3 \in Blank(code')
    BY <2>8, <2>9
  <2>12. /\ Spare(f) \subseteq Blank(code') \ {ip'}
         /\ \A b \in Spare(f) : b \notin DOMAIN code
         /\ ip' \in 0 .. Len(code') /\ ip' \in Blank(code')
    BY <2>1, <2>4, <2>8, <2>9, <2>10, <2>11
  <2>13. \A b \in Blank(code) \ {ip} : b \in Blank(code') \ {ip'}
    BY <2>1, <2>4, <2>8, <2>9 DEF Blank
  <2>14. Open'
    BY <2>12, BlankIsOpen
  <2>15. 1 \in DOMAIN f.stmt.kids /\ f.stage # "start"
    BY <2>2, <2>6, StatementParts
  <2> QED BY <2>1, <2>2, <2>6, <2>9, <2>10, <2>12, <2>13, <2>14, <2>15, CallKeepsFlag DEF FlagInv
<1>2. CASE IfElse
  <2> DEFINE f == [Top EXCEPT !.stage = "else"]
  <2>1. /\ Generating({"if"}, "then") /\ ip' = Top.other
        /\ code' = Joined(code, Top.exit) /\ Call(f, 2) /\ Len(Top.stmt.kids) = 2
    BY <1>2 DEF IfElse
  <2>2. /\ frames # <<>> /\ Top \in Frame /\ code \in Code /\ ip \in Nat /\ Top.stage = "then"
        /\ Top.stmt \in Statements /\ Top.exit \in Nat /\ Top.other \in Nat
    BY <2>1, InAction
  <2>3. /\ Spare(Top) = {Top.other, Top.exit} /\ Top.other # Top.exit
        /\ Spare(Top) \subseteq Blank(code) \ {ip} /\ DOMAIN code = 1 .. Len(code)
    BY <2>1, <2>2, InFlag DEF Spare, KeepsTwo
  <2>4. Len(code') = Len(code) /\ Blank(code) \ {ip} \subseteq Blank(code')
    BY <2>1, <2>2, JoinedBlank
  <2>5. f \in Frame /\ f.stage = "else" /\ f.exit = Top.exit /\ f.stmt = Top.stmt
    BY <2>2 DEF Frame
  <2>6. Spare(f) = {Top.exit} /\ ~ KeepsTwo(f)
    BY <2>5 DEF Spare, KeepsTwo
  <2> HIDE DEF f
  <2>7. /\ ip' \in Blank(code') /\ Spare(f) \subseteq Blank(code') \ {ip'}
        /\ \A b \in (Blank(code) \ {ip}) \ Spare(Top) : b \in Blank(code') \ {ip'}
    BY <2>1, <2>3, <2>4, <2>6
  <2>8. ip' \in 0 .. Len(code')
    BY <1>0, <2>7 DEF Blank
  <2>9. Open'
    BY <2>7, BlankIsOpen
  <2>10. 2 \in DOMAIN f.stmt.kids
    BY <2>1, <2>2, <2>5, StatementParts, LenProperties
  <2> QED BY <2>1, <2>2, <2>3, <2>5, <2>6, <2>7, <2>8, <2>9, <2>10, CallKeepsFlag DEF FlagInv
<1>3. ASSUME NEW c \in Code, NEW stage, Generating({"if"}, stage), stage \in {"then", "else"},
             IfEnd(c), (Blank(code) \ {ip}) \ ({Top.other} \ {Top.exit}) \subseteq Blank(c),
             stage = "else" => Blank(code) \ {ip} \subseteq Blank(c)
      PROVE  FlagInv'
  <2>1. /\ frames' = Below /\ code' = c /\ ip' = Top.exit
    BY <1>3 DEF IfEnd, Return
  <2>2. frames # <<>> /\ Top.stage = stage
    BY <1>3, InAction
  <2>3. /\ Spare(Top) = IF stage = "then" THEN {Top.other, Top.exit} ELSE {Top.exit}
        /\ Spare(Top) \subseteq Blank(code) \ {ip}
    BY <1>3, <2>2, InFlag DEF Spare, KeepsTwo
  <2>4. /\ ip' \in Blank(code')
        /\ \A b \in (Blank(code) \ {ip}) \ Spare(Top) : b \in Blank(code') \ {ip'}
    BY <1>3, <2>1, <2>3
  <2>5. ip' \in 0 .. Len(code')
    BY <1>0, <2>4 DEF Blank
  <2>6. Open'
    BY <2>4, BlankIsOpen
  <2> QED BY <2>1, <2>2, <2>4, <2>5, <2>6, ReturnSpares DEF FlagInv
<1>4. CASE IfWithoutElse
  <2> DEFINE j == Joined(code, Top.exit)
             c == PutBr(j, Top.other, Top.exit)
  <2>1. Generating({"if"}, "then") /\ IfEnd(c)
    BY <1>4 DEF IfWithoutElse
  <2>2. code \in Code /\ ip \in Nat /\ Top.exit \in Nat /\ Top.other \in Nat /\ Top.stage = "then"
    BY <2>1, InAction
  <2>3. Top.other # Top.exit
    BY <2>1, <2>2, InFlag DEF KeepsTwo
  <2>4. j \in Code /\ Blank(code) \ {ip} \subseteq Blank(j)
    BY <2>2, JoinedBlank
  <2> HIDE DEF j
  <2>5. c \in Code /\ Blank(j) \ {Top.other} \subseteq Blank(c)
    BY <2>2, <2>4, BlankPutBr
  <2> HIDE DEF c
  <2>6. (Blank(code) \ {ip}) \ ({Top.other} \ {Top.exit}) \subseteq Blank(c)
    BY <2>3, <2>4, <2>5
  <2> QED BY <1>3, <2>1, <2>5, <2>6
<1>5. CASE IfMerge
  <2>1. Generating({"if"}, "else") /\ IfEnd(Joined(code, Top.exit))
    BY <1>5 DEF IfMerge
  <2>2. code \in Code /\ ip \in Nat /\ Top.exit \in Nat
    BY <2>1, InAction
  <2>3. Joined(code, Top.exit) \in Code /\ Blank(code) \ {ip} \subseteq Blank(Joined(code, Top.exit))
    BY <2>2, JoinedBlank
  <2>4. (Blank(code) \ {ip}) \ ({Top.other} \ {Top.exit}) \subseteq Blank(Joined(code, Top.exit))
    BY <2>3
  <2> QED BY <1>3, <2>1, <2>3, <2>4
<1> QED BY <1>1, <1>2, <1>4, <1>5

\* A statement that starts reserves new blocks and goes on in another of them.
LEMMA FreshCall ==
  ASSUME IInv, IInv', FlagInv, NEW kinds, Generating(kinds, "start"),
         NEW f \in Frame, 1 \in DOMAIN f.stmt.kids, Call(f, 1),
         f.stage \notin {"start", "handlers"}, f.stmt.kind # "try",
         NEW m \in Nat, m = Len(code), NEW r \in Nat, NEW written,
         Spare(f) \subseteq (m + 1 .. m + r) \ written, KeepsTwo(f) => f.other # f.exit,
         Len(code') = m + r,
         (Blank(code) \cup (m + 1 .. m + r)) \ ({ip} \cup written) \subseteq Blank(code'),
         written \subseteq m + 1 .. m + r,
         ip' \in (m + 1 .. m + r) \ written, ip' \notin Spare(f)
  PROVE  FlagInv'
<1>1. frames # <<>> /\ Spare(Top) = {} /\ ip \in 0 .. m /\ DOMAIN code = 1 .. m
  BY InAction, InFlag
<1>2. \A b \in m + 1 .. m + r : b # ip /\ b \notin DOMAIN code /\ b \in 0 .. m + r
  BY <1>1
<1>3. /\ Spare(f) \subseteq Blank(code') \ {ip'}
      /\ \A b \in Spare(f) : b \notin DOMAIN code
      /\ ip' \in Blank(code') /\ ip' \in 0 .. Len(code')
  BY <1>2
<1>4. \A b \in Blank(code) \ {ip} : b \in Blank(code') \ {ip'}
  <2>1. Blank(code) \subseteq DOMAIN code
    BY DEF Blank
  <2> QED BY <1>2, <2>1
<1>5. Open'
  BY <1>3, BlankIsOpen
<1> QED BY <1>1, <1>3, <1>4, <1>5, CallKeepsFlag DEF FlagInv

LEMMA LoopBeginFlag ==
  ASSUME IInv, IInv', FlagInv, WhileBegin \/ ForBegin
  PROVE  FlagInv'
<1>1. /\ Generating({"while", "for"}, "start")
      /\ WhileBegin => Top.stmt.kind = "while"
      /\ ForBegin => Top.stmt.kind = "for"
  BY DEF WhileBegin, ForBegin, Generating
<1>2. /\ frames # <<>> /\ Top \in Frame /\ code \in Code /\ ip \in Nat
      /\ Top.path \in Seq(Nat) /\ Top.stmt \in Statements /\ Top.stmt.kind \in {"while", "for"}
  BY <1>1, InAction
<1>3. PICK m \in Nat : m = Len(code)
  BY <1>2, CodeParts
<1>4. New(1) = m + 1 /\ New(2) = m + 2 /\ New(3) = m + 3 /\ New(4) = m + 4
  BY <1>3 DEF New
<1>5. ip \in 0 .. m /\ 1 \in DOMAIN Top.stmt.kids
  BY <1>1, <1>2, <1>3, InFlag, StatementParts
<1>6. ASSUME NEW to \in Seq(Nat) PROVE Instr("cond", Top.path, to) \in Instruction
  BY <1>2, <1>6, InstrType DEF Ops, Terminators
<1>7. CASE WhileBegin
  <2> DEFINE f == [Top EXCEPT !.again = New(1), !.exit = New(3)]
             g == [f EXCEPT !.stage = "body"]
             instr == Instr("cond", Top.path, <<New(2), New(3)>>)
             d == PutBr(Blocks(code, 3), ip, New(1))
  <2>1. ip' = New(2) /\ code' = Put(d, New(1), instr) /\ Call(g, 1)
    BY <1>7 DEF WhileBegin, LoopEnter
  <2>2. instr \in Instruction
    <3>1. <<New(2), New(3)>> \in Seq(Nat)
      BY <1>4
    <3> QED BY <1>6, <3>1
  <2>3. g \in Frame /\ g.stage = "body" /\ g.exit = m + 3 /\ g.stmt = Top.stmt
    <3>1. New(1) \in Nat /\ New(3) \in Nat
      BY <1>4
    <3>2. g \in Frame /\ g.stage = "body" /\ g.exit = New(3) /\ g.stmt = Top.stmt
      BY <1>2, <3>1 DEF Frame
    <3> HIDE DEF g
    <3> QED BY <1>4, <3>2
  <2> HIDE DEF g, instr
  <2>4. /\ Blank(Blocks(code, 3)) = Blank(code) \cup (m + 1 .. m + 3)
        /\ Len(Blocks(code, 3)) = m + 3 /\ Blocks(code, 3) \in Code /\ New(1) \in Nat
    <3>1. code \in Code /\ New(1) \in Nat
      BY <1>2, <1>4
    <3> HIDE DEF d, f
    <3>2. /\ Blank(Blocks(code, 3)) = Blank(code) \cup (m + 1 .. m + 3)
          /\ Len(Blocks(code, 3)) = m + 3 /\ Blocks(code, 3) \in Code
      BY <1>3, <3>1, BlankBlocks, BlocksType
    <3> QED BY <3>1, <3>2
  <2>5. d \in Code /\ Len(d) = m + 3 /\ Blank(Blocks(code, 3)) \ {ip} \subseteq Blank(d)
    BY <1>2, <2>4, BlankPutBr
  <2> HIDE DEF d
  <2>6. Len(code') = m + 3 /\ Blank(d) \ {m + 1} \subseteq Blank(code')
    BY <1>4, <2>1, <2>2, <2>4, <2>5, BlankPut
  <2>7. Spare(g) = {m + 3} /\ ~ KeepsTwo(g)
    BY <1>1, <1>7, <2>3 DEF Spare, KeepsTwo
  <2>8. (Blank(code) \cup (m + 1 .. m + 3)) \ ({ip} \cup {m + 1}) \subseteq Blank(code')
    BY <2>4, <2>5, <2>6
  <2>9. /\ ip' \in (m + 1 .. m + 3) \ {m + 1} /\ ip' \notin Spare(g)
        /\ Spare(g) \subseteq (m + 1 .. m + 3) \ {m + 1} /\ {m + 1} \subseteq m + 1 .. m + 3
    BY <1>4, <2>1, <2>7
  <2>10. 1 \in DOMAIN g.stmt.kids /\ g.stage \notin {"start", "handlers"} /\ g.stmt.kind # "try"
    BY <1>2, <1>5, <2>3
  <2> QED BY <1>1, <1>3, <2>1, <2>3, <2>6, <2>7, <2>8, <2>9, <2>10, FreshCall
<1>8. CASE ForBegin
  <2> DEFINE f == [Top EXCEPT !.again = New(1), !.other = New(3), !.exit = New(4)]
             g == [f EXCEPT !.stage = "body"]
             instr == Instr("cond", Top.path, <<New(2), New(4)>>)
             let == Put(Blocks(code, 4), ip, Instr("let", Top.path, <<>>))
             d == PutBr(let, ip, New(1))
  <2>1. ip' = New(2) /\ code' = Put(d, New(1), instr) /\ Call(g, 1)
    BY <1>8 DEF ForBegin, LoopEnter
  <2>2. instr \in Instruction
    <3>1. <<New(2), New(4)>> \in Seq(Nat)
      BY <1>4
    <3> QED BY <1>6, <3>1
  <2>3. g \in Frame /\ g.stage = "body" /\ g.other = m + 3 /\ g.exit = m + 4 /\ g.stmt = Top.stmt
    <3>1. New(1) \in Nat /\ New(3) \in Nat /\ New(4) \in Nat
      BY <1>4
    <3>2. /\ g \in Frame /\ g.stage = "body" /\ g.other = New(3) /\ g.exit = New(4)
          /\ g.stmt = Top.stmt
      BY <1>2, <3>1 DEF Frame
    <3> HIDE DEF g
    <3> QED BY <1>4, <3>2
  <2> HIDE DEF g, instr
  <2>4. /\ Blank(Blocks(code, 4)) = Blank(code) \cup (m + 1 .. m + 4)
        /\ Len(Blocks(code, 4)) = m + 4 /\ Blocks(code, 4) \in Code /\ New(1) \in Nat
    <3>1. code \in Code /\ New(1) \in Nat
      BY <1>2, <1>4
    <3> HIDE DEF d, let, f
    <3>2. /\ Blank(Blocks(code, 4)) = Blank(code) \cup (m + 1 .. m + 4)
          /\ Len(Blocks(code, 4)) = m + 4 /\ Blocks(code, 4) \in Code
      BY <1>3, <3>1, BlankBlocks, BlocksType
    <3> QED BY <3>1, <3>2
  <2>5. let \in Code /\ Len(let) = m + 4 /\ Blank(Blocks(code, 4)) \ {ip} \subseteq Blank(let)
    BY <1>2, <2>4, PutInstr DEF Ops
  <2> HIDE DEF let
  <2>6. d \in Code /\ Len(d) = m + 4 /\ Blank(let) \ {ip} \subseteq Blank(d)
    BY <1>2, <2>4, <2>5, BlankPutBr
  <2> HIDE DEF d
  <2>7. Len(code') = m + 4 /\ Blank(d) \ {m + 1} \subseteq Blank(code')
    BY <1>4, <2>1, <2>2, <2>4, <2>6, BlankPut
  <2>8. Spare(g) = {m + 3, m + 4} /\ g.other # g.exit
    BY <1>1, <1>8, <2>3 DEF Spare, KeepsTwo
  <2>9. (Blank(code) \cup (m + 1 .. m + 4)) \ ({ip} \cup {m + 1}) \subseteq Blank(code')
    BY <2>4, <2>5, <2>6, <2>7
  <2>10. /\ ip' \in (m + 1 .. m + 4) \ {m + 1} /\ ip' \notin Spare(g)
         /\ Spare(g) \subseteq (m + 1 .. m + 4) \ {m + 1} /\ {m + 1} \subseteq m + 1 .. m + 4
    BY <1>4, <2>1, <2>8
  <2>11. 1 \in DOMAIN g.stmt.kids /\ g.stage \notin {"start", "handlers"} /\ g.stmt.kind # "try"
    BY <1>2, <1>5, <2>3
  <2> QED BY <1>1, <1>3, <2>1, <2>3, <2>7, <2>8, <2>9, <2>10, <2>11, FreshCall
<1> QED BY <1>7, <1>8

LEMMA LoopEndFlag ==
  ASSUME IInv, IInv', FlagInv, WhileEnd \/ ForEnd
  PROVE  FlagInv'
<1>0. code' \in Code /\ Len(code') \in Nat /\ DOMAIN code' = 1 .. Len(code')
  <2>1. code' \in Code
    BY DEF IInv, TypeOK, Code
  <2> QED BY <2>1, CodeParts
<1>1. ASSUME NEW kinds, NEW c, Generating(kinds, "body"), LoopLeave(c),
             Top.exit \in Spare(Top), \A b \in (Blank(code) \ {ip}) \ Spare(Top) : b \in Blank(c),
             Top.exit \in Blank(c)
      PROVE  FlagInv'
  <2>1. frames' = Below /\ code' = c /\ ip' = Top.exit
    BY <1>1 DEF LoopLeave, Return
  <2>2. frames # <<>>
    BY <1>1, InAction
  <2>3. /\ ip' \in Blank(code')
        /\ \A b \in (Blank(code) \ {ip}) \ Spare(Top) : b \in Blank(code') \ {ip'}
    BY <1>1, <2>1
  <2>4. ip' \in 0 .. Len(code')
    BY <1>0, <2>3 DEF Blank
  <2>5. Open'
    BY <2>3, BlankIsOpen
  <2> QED BY <2>1, <2>2, <2>3, <2>4, <2>5, ReturnSpares DEF FlagInv
<1>2. CASE WhileEnd
  <2>1. Generating({"while"}, "body") /\ LoopLeave(PutBr(code, ip, Top.again))
    BY <1>2 DEF WhileEnd
  <2>2. code \in Code /\ ip \in Nat /\ Top.again \in Nat /\ Top.stage = "body"
        /\ Top.stmt.kind \in {"while"}
    BY <2>1, InAction
  <2>3. Spare(Top) = {Top.exit}
    BY <2>2 DEF Spare, KeepsTwo
  <2>4. Top.exit \in Blank(code) \ {ip}
    BY <2>1, <2>3, InFlag
  <2>5. Blank(code) \ {ip} \subseteq Blank(PutBr(code, ip, Top.again))
    BY <2>2, BlankPutBr
  <2> QED BY <1>1, <2>1, <2>3, <2>4, <2>5
<1>3. CASE ForEnd
  <2> DEFINE d == PutBr(code, ip, Top.other)
             e == Put(d, Top.other, Instr("step", Top.path, <<>>))
             c == PutBr(e, Top.other, Top.again)
  <2>1. Generating({"for"}, "body") /\ LoopLeave(c)
    BY <1>3 DEF ForEnd
  <2>2. /\ code \in Code /\ ip \in Nat /\ Top.again \in Nat /\ Top.other \in Nat
        /\ Top.path \in Seq(Nat) /\ Top.stage = "body" /\ Top.stmt.kind \in {"for"}
    BY <2>1, InAction
  <2>3. Spare(Top) = {Top.other, Top.exit}
    BY <2>2 DEF Spare, KeepsTwo
  <2>4. Top.exit \in Blank(code) \ {ip} /\ Top.other # Top.exit
    BY <2>1, <2>2, <2>3, InFlag DEF KeepsTwo
  <2>5. d \in Code /\ Blank(code) \ {ip} \subseteq Blank(d)
    BY <2>2, BlankPutBr
  <2> HIDE DEF d
  <2>6. e \in Code /\ Blank(d) \ {Top.other} \subseteq Blank(e)
    BY <2>2, <2>5, PutInstr DEF Ops
  <2> HIDE DEF e
  <2>7. Blank(e) \ {Top.other} \subseteq Blank(c)
    BY <2>2, <2>6, BlankPutBr
  <2> HIDE DEF c
  <2> QED BY <1>1, <2>1, <2>3, <2>4, <2>5, <2>6, <2>7
<1> QED BY <1>2, <1>3

LEMMA SwitchFlag ==
  ASSUME IInv, IInv', FlagInv, SwitchBegin \/ Case \/ SwitchEnd
  PROVE  FlagInv'
<1>0. code' \in Code /\ Len(code') \in Nat /\ DOMAIN code' = 1 .. Len(code')
  <2>1. code' \in Code
    BY DEF IInv, TypeOK, Code
  <2> QED BY <2>1, CodeParts
<1>1. CASE SwitchBegin
  <2> DEFINE inst == <<ip, NextIn(code, ip)>>
             g == [Top EXCEPT !.stage = "body", !.exit = New(1), !.inst = inst]
             instr == [Instr("switch", Top.path, <<New(1)>>) EXCEPT !.sel = <<<<>>>>]
  <2>1. Generating({"switch"}, "start")
    BY <1>1 DEF SwitchBegin
  <2>2. /\ frames # <<>> /\ Top \in Frame /\ code \in Code /\ ip \in Nat
        /\ Top.path \in Seq(Nat) /\ Top.stmt \in Statements /\ Top.stmt.kind \in {"switch"}
        /\ Stacks \in StackState
    BY <2>1, InAction
  <2>3. PICK m \in Nat : m = Len(code)
    BY <2>2, CodeParts
  <2>4. New(1) = m + 1
    BY <2>3 DEF New
  <2>5. inst \in Nat \X Nat
    <3>1. NextIn(code, ip) \in Nat
      BY <2>2 DEF NextIn, Code
    <3> QED BY <2>2, <3>1
  <2>6. instr \in Instruction
    <3>1. <<New(1)>> \in Seq(Nat) /\ <<<<>>>> \in Seq(Seq(Nat))
      BY <2>4
    <3>2. Instr("switch", Top.path, <<New(1)>>) \in Instruction
      BY <2>2, <3>1, InstrType DEF Ops, Terminators
    <3> QED BY <3>1, <3>2 DEF Instruction
  <2>7. g \in Frame /\ g.stage = "body" /\ g.exit = m + 1 /\ g.stmt = Top.stmt
    <3>1. New(1) \in Nat
      BY <2>4
    <3> HIDE DEF inst
    <3>2. g \in Frame /\ g.stage = "body" /\ g.exit = New(1) /\ g.stmt = Top.stmt
      BY <2>2, <2>5, <3>1 DEF Frame
    <3> QED BY <2>4, <3>2
  <2>8. /\ code' = Put(Blocks(code, 1), ip, instr) /\ ip' = ip /\ Call(g, 1)
        /\ switch' = Append(switch, inst)
    BY <1>1 DEF SwitchBegin
  <2>9. inst[1] = ip
    OBVIOUS
  <2> HIDE DEF g, instr, inst
  <2>10. /\ Blank(Blocks(code, 1)) = Blank(code) \cup (m + 1 .. m + 1)
         /\ Len(Blocks(code, 1)) = m + 1 /\ Blocks(code, 1) \in Code
    <3>1. 1 \in Nat
      OBVIOUS
    <3> QED BY <2>2, <2>3, <3>1, NewBlocks, ZenonT(40)
  <2>11. Len(code') = m + 1 /\ Blank(Blocks(code, 1)) \ {ip} \subseteq Blank(code')
    BY <2>2, <2>6, <2>8, <2>10, BlankPut
  <2>12. /\ ip \in 0 .. m /\ ip \in 1 .. m /\ DOMAIN code = 1 .. m /\ Spare(Top) = {}
    <3>1. ip \in 0 .. Len(code) /\ DOMAIN code = 1 .. Len(code) /\ Spare(Top) = {} /\ Open
      BY <2>1, InFlag
    <3> QED BY <2>3, <3>1 DEF Open
  <2>13. Spare(g) = {m + 1} /\ ~ KeepsTwo(g)
    BY <2>2, <2>7 DEF Spare, KeepsTwo
  <2>14. /\ Spare(g) \subseteq Blank(code') \ {ip'}
         /\ \A b \in Spare(g) : b \notin DOMAIN code
         /\ \A b \in (Blank(code) \ {ip}) \ Spare(Top) : b \in Blank(code') \ {ip'}
         /\ ip' \in 0 .. Len(code')
    BY <2>8, <2>10, <2>11, <2>12, <2>13
  <2>15. Open'
    <3>1. switch \in Seq(Nat \X Nat)
      BY <2>2, StacksParts
    <3>2. switch' # <<>> /\ switch'[Len(switch')] = inst
      BY <2>5, <2>8, <3>1, AppendProperties
    <3>3. ip' \in DOMAIN code'
      BY <1>0, <2>8, <2>11, <2>12
    <3> QED BY <2>8, <2>9, <3>2, <3>3 DEF Open
  <2>16. 1 \in DOMAIN g.stmt.kids /\ g.stage # "start"
    BY <2>2, <2>7, StatementParts
  <2> QED BY <2>2, <2>7, <2>8, <2>13, <2>14, <2>15, <2>16, CallKeepsFlag DEF FlagInv
<1>2. CASE Case
  <2>1. /\ Generating(Labels, "start") /\ frames' = Below /\ ip' = New(1)
        /\ code' = Blocks(CaseAdded, 1) /\ switch # <<>>
    BY <1>2 DEF Case, Return
  <2>2. /\ frames # <<>> /\ code \in Code /\ Top.path \in Seq(Nat) /\ Stacks \in StackState
        /\ \A n \in Nat : New(n) \in Nat
    BY <2>1, InAction
  <2>3. PICK m \in Nat : m = Len(code)
    BY <2>2, CodeParts
  <2>4. New(1) = m + 1
    BY <2>3 DEF New
  <2>5. CaseAdded \in Code
    BY <2>1, <2>2, <2>4, StacksParts, CaseAddedType
  <2>6. DOMAIN CaseAdded = DOMAIN code /\ Blank(code) \subseteq Blank(CaseAdded)
    BY <2>2, BlankInPlace DEF CaseAdded
  <2>7. Len(CaseAdded) = m
    <3>1. /\ DOMAIN CaseAdded = 1 .. Len(CaseAdded) /\ Len(CaseAdded) \in Nat
          /\ DOMAIN code = 1 .. m
      BY <2>2, <2>3, <2>5, CodeParts
    <3> QED BY <2>6, <3>1, SameLength, Zenon
  <2>8. /\ Blank(code') = Blank(CaseAdded) \cup (m + 1 .. m + 1) /\ Len(code') = m + 1
    BY <2>1, <2>5, <2>7, NewBlocks
  <2>9. DOMAIN code = 1 .. m /\ Spare(Top) = {}
    BY <2>1, <2>3, InFlag
  <2>10. /\ ip' \in Blank(code') /\ ip' \in 0 .. Len(code')
         /\ \A b \in Blank(code) : b \in Blank(code') \ {ip'}
    BY <2>1, <2>4, <2>6, <2>8, <2>9 DEF Blank
  <2>11. Open'
    BY <2>10, BlankIsOpen
  <2> QED BY <2>1, <2>2, <2>10, <2>11, ReturnSpares DEF FlagInv
<1>3. CASE SwitchEnd
  <2>1. Generating({"switch"}, "body") /\ frames' = Below /\ ip' = Top.exit /\ code' = code
    BY <1>3 DEF SwitchEnd, Return
  <2>2. frames # <<>> /\ Top.stage = "body" /\ Top.stmt.kind \in {"switch"}
    BY <2>1, InAction
  <2>3. Spare(Top) = {Top.exit}
    BY <2>2 DEF Spare, KeepsTwo
  <2>4. /\ Top.exit \in Blank(code)
        /\ \A b \in (Blank(code) \ {ip}) \ Spare(Top) : b \in Blank(code') \ {ip'}
    BY <2>1, <2>3, InFlag
  <2>5. ip' \in Blank(code') /\ ip' \in 0 .. Len(code')
    BY <1>0, <2>1, <2>4 DEF Blank
  <2>6. Open'
    BY <2>5, BlankIsOpen
  <2> QED BY <2>1, <2>2, <2>4, <2>5, <2>6, ReturnSpares DEF FlagInv
<1> QED BY <1>1, <1>2, <1>3

LEMMA TryBeginFlag ==
  ASSUME IInv, IInv', FlagInv, TryBegin
  PROVE  FlagInv'
<1> DEFINE g == [Top EXCEPT !.stage = "body", !.other = New(1)]
<1>1. /\ Generating({"try"}, "start") /\ code' = Blocks(code, 1) /\ Call(g, 1)
      /\ UNCHANGED <<ip, switch>>
  BY DEF TryBegin
<1>2. /\ frames # <<>> /\ Top \in Frame /\ code \in Code /\ Top.stage = "start"
      /\ Top.stmt \in Statements /\ Top.stmt.kind \in {"try"}
  BY <1>1, InAction
<1>3. PICK m \in Nat : m = Len(code)
  BY <1>2, CodeParts
<1>4. New(1) = m + 1 /\ New(1) \in Nat
  BY <1>3 DEF New
<1>5. /\ DOMAIN code = 1 .. m /\ ip \in 0 .. m /\ Spare(Top) = {} /\ Locals(Top) /\ Open
  BY <1>1, <1>3, InFlag
<1>6. /\ g \in Frame /\ g.stage = "body" /\ g.other = New(1) /\ g.stmt = Top.stmt /\ g.exit = Top.exit
  BY <1>2, <1>4 DEF Frame
<1> HIDE DEF g
<1>7. g.exit = 0 /\ g.stmt.kind = "try" /\ Spare(g) = {m + 1} /\ ~ KeepsTwo(g)
  BY <1>2, <1>4, <1>5, <1>6 DEF Locals, Spare, KeepsTwo
<1>8. /\ Len(code') = m + 1 /\ Blank(code') = Blank(code) \cup (m + 1 .. m + 1)
      /\ DOMAIN code' = 1 .. m + 1 /\ \A b \in DOMAIN code : code'[b] = code[b]
  <2>1. 1 \in Nat
    OBVIOUS
  <2>2. /\ Len(code') = m + 1 /\ Blank(code') = Blank(code) \cup (m + 1 .. m + 1)
    BY <1>1, <1>2, <1>3, NewBlocks
  <2>3. DOMAIN code' = 1 .. m + 1
    BY <1>1, <1>2, <1>3, BlankBlocks
  <2>4. [i \in 1 .. 1 |-> <<>>] \in Seq(Seq(Instruction)) /\ Len([i \in 1 .. 1 |-> <<>>]) = 1
    OBVIOUS
  <2>5. \A b \in DOMAIN code : code'[b] = code[b]
    BY <1>1, <1>2, <1>3, <1>5, <2>4, ConcatProperties DEF Blocks, Code
  <2> QED BY <2>2, <2>3, <2>5
<1>9. Open'
  <2>1. ip \in DOMAIN code /\ code'[ip] = code[ip] /\ ip \in DOMAIN code'
    BY <1>5, <1>8 DEF Open
  <2>2. EndsInJump(ip)' <=> EndsInJump(ip)
    BY <1>1, <2>1 DEF EndsInJump
  <2> QED BY <1>1, <1>5, <2>1, <2>2 DEF Open
<1>10. /\ Spare(g) \subseteq Blank(code') \ {ip'}
       /\ \A b \in Spare(g) : b \notin DOMAIN code
       /\ \A b \in (Blank(code) \ {ip}) \ Spare(Top) : b \in Blank(code') \ {ip'}
       /\ ip' \in 0 .. Len(code')
  BY <1>1, <1>5, <1>7, <1>8
<1>11. 1 \in DOMAIN g.stmt.kids
  BY <1>2, <1>6, StatementParts
<1> QED BY <1>1, <1>2, <1>6, <1>7, <1>9, <1>10, <1>11, CallKeepsFlag DEF FlagInv

LEMMA ChainedBlank ==
  ASSUME NEW c \in Code, NEW f \in Frame
  PROVE  Chained(f, c) \in Code /\ Len(Chained(f, c)) = Len(c) /\ Blank(c) \subseteq Blank(Chained(f, c))
<1> DEFINE new == [c[f.again][1] EXCEPT !.to = [@ EXCEPT ![2] = Len(c) + 1]]
<1>1. Chained(f, c) = IF f.again = 0 THEN c ELSE [c EXCEPT ![f.again][1] = new]
  BY DEF Chained
<1> HIDE DEF new
<1>2. DOMAIN Chained(f, c) = DOMAIN c /\ Blank(c) \subseteq Blank(Chained(f, c))
  BY <1>1, BlankInPlace
<1>3. Chained(f, c) \in Code
  BY ChainedType
<1>4. /\ DOMAIN Chained(f, c) = 1 .. Len(Chained(f, c)) /\ Len(Chained(f, c)) \in Nat
      /\ DOMAIN c = 1 .. Len(c) /\ Len(c) \in Nat
  BY <1>3, CodeParts
<1>5. Len(Chained(f, c)) = Len(c)
  BY <1>2, <1>4, SameLength, Zenon
<1> QED BY <1>2, <1>3, <1>5

\* A handler starts in the last block there is, which is new.
LEMMA HandlerFlag ==
  ASSUME IInv, IInv', FlagInv, NEW stage, Generating({"try"}, stage),
         NEW f \in Frame, f.stmt = Top.stmt, NEW c \in Code, NEW h \in Nat, h >= 1,
         h + 1 \in DOMAIN f.stmt.kids, HandlerEnter(f, c, h),
         Len(c) >= Len(code), (Blank(code) \ {ip}) \ Spare(Top) \subseteq Blank(c),
         Handlers = 1 => f.exit = 0 /\ f.other \in Spare(Top),
         f.exit # 0 => f.exit \in Blank(c) /\ (f.exit \in Spare(Top) \/ f.exit \notin DOMAIN code)
  PROVE  FlagInv'
<1> DEFINE g == [f EXCEPT !.stage = "handlers", !.again = Len(c) + 1]
           d == Blocks(Chained(f, c), 2)
           instr == IF h = Handlers
                      THEN Instr("br", <<>>, <<Len(c) + 2>>)
                      ELSE Instr("cond", Append(f.path, h + 1), <<Len(c) + 2, 0>>)
<1>1. PICK p \in Nat : p = Len(c)
  BY CodeParts
<1>2. /\ code' = IF Handlers = 1
                   THEN PutBr(Blocks(c, 1), f.other, Len(c) + 1)
                   ELSE Put(d, Len(c) + 1, instr)
      /\ ip' = Len(code') /\ Call(g, h + 1)
  BY DEF HandlerEnter
<1>3. instr \in Instruction
  <2>1. Append(f.path, h + 1) \in Seq(Nat)
    BY <1>1, AppendProperties DEF Frame
  <2>2. /\ <<Len(c) + 2>> \in Seq(Nat) /\ <<Len(c) + 2, 0>> \in Seq(Nat)
        /\ <<>> \in Seq(Nat)
    BY <1>1
  <2>3. Instr("br", <<>>, <<Len(c) + 2>>) \in Instruction
    BY <2>2, InstrType DEF Ops, Terminators
  <2>4. Instr("cond", Append(f.path, h + 1), <<Len(c) + 2, 0>>) \in Instruction
    BY <2>1, <2>2, InstrType DEF Ops, Terminators
  <2> QED BY <2>3, <2>4
<1>4. /\ frames # <<>> /\ Top \in Frame /\ code \in Code /\ ip \in Nat /\ Top.stage = stage
  BY InAction
<1>5. /\ DOMAIN code \subseteq 1 .. p /\ Spare(Top) \subseteq Blank(code) \ {ip} /\ Spare(Top) \subseteq 1 .. p
  BY <1>1, <1>4, InFlag DEF Blank
<1>6. g \in Frame /\ g.stage = "handlers" /\ g.exit = f.exit /\ g.stmt = f.stmt
  <2>1. Len(c) + 1 \in Nat
    BY <1>1
  <2> HIDE DEF d, instr
  <2> QED BY <2>1 DEF Frame
<1> HIDE DEF g, instr
<1>7. /\ Len(code') \in Nat /\ Len(code') > p /\ Len(code') \in Blank(code')
      /\ \A b \in Blank(c) : b \in Blank(code') \/ (Handlers = 1 /\ b = f.other)
  <2>1. CASE Handlers = 1
    <3> DEFINE e == Blocks(c, 1)
    <3> HIDE DEF d
    <3>1. Blank(e) = Blank(c) \cup (p + 1 .. p + 1) /\ Len(e) = p + 1 /\ e \in Code
      BY <1>1, BlankBlocks, BlocksType
    <3>2. f.other \in 1 .. p /\ f.other \in Nat
      BY <1>5, <2>1
    <3>3. code' = PutBr(e, f.other, p + 1) /\ p + 1 \in Nat
      BY <1>1, <1>2, <2>1
    <3> HIDE DEF e
    <3>4. Len(code') = p + 1 /\ Blank(e) \ {f.other} \subseteq Blank(code')
      BY <3>1, <3>2, <3>3, BlankPutBr
    <3> QED BY <2>1, <3>1, <3>2, <3>4
  <2>2. CASE Handlers # 1
    <3>1. /\ Chained(f, c) \in Code /\ Len(Chained(f, c)) = p
          /\ Blank(c) \subseteq Blank(Chained(f, c))
      BY <1>1, ChainedBlank
    <3>2. d \in Code /\ Len(d) = p + 2 /\ Blank(d) = Blank(Chained(f, c)) \cup (p + 1 .. p + 2)
      <4> HIDE DEF d
      <4>1. ASSUME NEW a \in Code, Len(a) = p
            PROVE  /\ Blocks(a, 2) \in Code /\ Len(Blocks(a, 2)) = p + 2
                   /\ Blank(Blocks(a, 2)) = Blank(a) \cup (p + 1 .. p + 2)
        BY <4>1, BlankBlocks, BlocksType
      <4> QED BY <3>1, <4>1, Zenon DEF d
    <3>3. code' = Put(d, p + 1, instr) /\ p + 1 \in Nat
      BY <1>1, <1>2, <2>2
    <3> HIDE DEF d
    <3>4. Len(code') = p + 2 /\ Blank(d) \ {p + 1} \subseteq Blank(code')
      BY <1>3, <3>2, <3>3, BlankPut
    <3>5. \A b \in Blank(c) : b \in 1 .. p
      BY <1>1, CodeParts DEF Blank
    <3> QED BY <3>1, <3>2, <3>4, <3>5
  <2> QED BY <2>1, <2>2
<1>8. Open'
  BY <1>2, <1>7, BlankIsOpen
<1>9. Blank(c) \subseteq 1 .. p
  BY <1>1, CodeParts DEF Blank
<1>10. \A b \in (Blank(code) \ {ip}) \ Spare(Top) : b \in Blank(code') \ {ip'}
  BY <1>2, <1>7, <1>9
<1>11. Spare(g) = {f.exit} \ {0} /\ ~ KeepsTwo(g)
  BY <1>6 DEF Spare, KeepsTwo
<1>12. /\ Spare(g) \subseteq Blank(code') \ {ip'}
       /\ \A b \in Spare(g) : b \in Spare(Top) \/ b \notin DOMAIN code
  BY <1>2, <1>7, <1>9, <1>11
<1>13. ip' \in 0 .. Len(code')
  BY <1>2, <1>7
<1>14. h + 1 \in DOMAIN g.stmt.kids /\ h + 1 \in Nat /\ h + 1 >= 2
  BY <1>6
<1> QED BY <1>2, <1>4, <1>6, <1>8, <1>10, <1>11, <1>12, <1>13, <1>14, CallKeepsFlag DEF FlagInv

\* The end of a handler: `cont` is empty when control goes there.
LEMMA ContinuedBlank ==
  ASSUME code \in Code, NEW m \in Nat, m = Len(code), ip \in 0 .. m, Top.exit \in Nat,
         {Top.exit} \ {0} \subseteq Blank(code) \ {ip}
  PROVE  /\ Continued(code) \in Code /\ Len(Continued(code)) >= m /\ Len(Continued(code)) \in Nat
         /\ Blank(code) \ {ip} \subseteq Blank(Continued(code))
         /\ lastUnreachable => Continued(code) = code
         /\ ~ lastUnreachable => /\ Cont(code) \in Blank(Continued(code)) /\ Cont(code) # 0
                                 /\ Cont(code) = Top.exit \/ Cont(code) = m + 1
<1>0. ip \in Nat /\ m + 1 \in Nat
  OBVIOUS
<1>1. CASE lastUnreachable
  BY <1>1 DEF Continued
<1>2. CASE ~ lastUnreachable /\ Top.exit = 0
  <2>1. Cont(code) = m + 1 /\ Continued(code) = PutBr(Blocks(code, 1), ip, m + 1)
    BY <1>2 DEF Cont, Continued
  <2>2. /\ Blank(Blocks(code, 1)) = Blank(code) \cup (m + 1 .. m + 1)
        /\ Len(Blocks(code, 1)) = m + 1 /\ Blocks(code, 1) \in Code
    BY NewBlocks
  <2>3. /\ Continued(code) \in Code /\ Len(Continued(code)) = m + 1
        /\ Blank(Blocks(code, 1)) \ {ip} \subseteq Blank(Continued(code))
    BY <1>0, <2>1, <2>2, BlankPutBr
  <2> QED BY <1>2, <2>1, <2>2, <2>3
<1>3. CASE ~ lastUnreachable /\ Top.exit # 0
  <2>1. Cont(code) = Top.exit /\ Continued(code) = PutBr(code, ip, Top.exit)
    BY <1>3 DEF Cont, Continued
  <2>2. /\ Continued(code) \in Code /\ Len(Continued(code)) = m
        /\ Blank(code) \ {ip} \subseteq Blank(Continued(code))
    BY <1>0, <2>1, BlankPutBr
  <2> QED BY <1>3, <2>1, <2>2
<1> QED BY <1>1, <1>2, <1>3

LEMMA TryFlag ==
  ASSUME IInv, IInv', FlagInv, TryCaught \/ NextHandler \/ TryEnd
  PROVE  FlagInv'
<1>0. code' \in Code /\ Len(code') \in Nat /\ DOMAIN code' = 1 .. Len(code')
  <2>1. code' \in Code
    BY DEF IInv, TypeOK, Code
  <2> QED BY <2>1, CodeParts
<1>1. CASE TryCaught
  <2> DEFINE d == IF lastUnreachable THEN code ELSE PutBr(code, ip, 0)
             c == Put(d, Top.other, Instr("landingpad", Top.path, <<>>))
  <2>1. Generating({"try"}, "body") /\ HandlerEnter(Top, c, 1)
    BY <1>1 DEF TryCaught
  <2>2. /\ Top \in Frame /\ Top.stmt \in Statements /\ Top.stmt.kind \in {"try"}
        /\ Top.stage = "body" /\ Top.other \in Nat /\ Top.path \in Seq(Nat)
        /\ code \in Code /\ ip \in Nat
    BY <2>1, InAction
  <2>3. Top.exit = 0 /\ Spare(Top) = {Top.other}
    <3>1. Locals(Top)
      BY <2>1, InFlag
    <3> QED BY <2>2, <3>1 DEF Locals, Spare, KeepsTwo
  <2>4. d \in Code /\ Len(d) = Len(code) /\ Blank(code) \ {ip} \subseteq Blank(d)
    BY <2>2, BlankPutBr
  <2> HIDE DEF d
  <2>5. c \in Code /\ Len(c) = Len(d) /\ Blank(d) \ {Top.other} \subseteq Blank(c)
    BY <2>2, <2>4, PutInstr DEF Ops
  <2> HIDE DEF c
  <2>6. /\ Len(c) >= Len(code) /\ (Blank(code) \ {ip}) \ Spare(Top) \subseteq Blank(c)
    BY <2>2, <2>3, <2>4, <2>5, CodeParts
  <2>7. 1 + 1 \in DOMAIN Top.stmt.kids
    BY <2>2, StatementParts
  <2> QED BY <2>1, <2>2, <2>3, <2>5, <2>6, <2>7, HandlerFlag
<1>2. ASSUME NextHandler \/ TryEnd
      PROVE  /\ Generating({"try"}, "handlers") /\ frames # <<>> /\ Top \in Frame
             /\ code \in Code /\ Top.exit \in Nat /\ Top.kid \in Nat /\ Top.kid >= 2
             /\ Top.stmt \in Statements /\ Top.stmt.kind \in {"try"}
             /\ Spare(Top) = {Top.exit} \ {0} /\ Spare(Top) \subseteq Blank(code) \ {ip}
             /\ DOMAIN code = 1 .. Len(code) /\ Len(code) \in Nat /\ ip \in 0 .. Len(code)
  <2>1. Generating({"try"}, "handlers")
    BY <1>2 DEF NextHandler, TryEnd
  <2>2. /\ frames # <<>> /\ Top \in Frame /\ code \in Code /\ Top.exit \in Nat
        /\ Top.kid \in Nat /\ Top.stmt \in Statements /\ Top.stmt.kind \in {"try"}
        /\ Top.stage = "handlers"
    BY <2>1, InAction
  <2>3. /\ Spare(Top) \subseteq Blank(code) \ {ip} /\ Locals(Top)
        /\ DOMAIN code = 1 .. Len(code) /\ Len(code) \in Nat /\ ip \in 0 .. Len(code)
    BY <2>1, InFlag
  <2>4. Spare(Top) = {Top.exit} \ {0} /\ Top.kid >= 2
    BY <2>2, <2>3 DEF Spare, KeepsTwo, Locals
  <2> QED BY <2>1, <2>2, <2>3, <2>4
<1>3. ASSUME NextHandler \/ TryEnd
      PROVE  /\ Continued(code) \in Code /\ Len(Continued(code)) >= Len(code)
             /\ Blank(code) \ {ip} \subseteq Blank(Continued(code))
             /\ lastUnreachable => Continued(code) = code
             /\ ~ lastUnreachable =>
                  /\ Cont(code) \in Blank(Continued(code)) /\ Cont(code) # 0
                  /\ Cont(code) = Top.exit \/ Cont(code) \notin DOMAIN code
             /\ Cont(code) \in Nat
  <2>1. PICK m \in Nat : m = Len(code)
    BY <1>2, <1>3
  <2>2. m + 1 \notin 1 .. m /\ m + 1 \in Nat
    OBVIOUS
  <2>3. ip \in 0 .. m /\ DOMAIN code = 1 .. m /\ {Top.exit} \ {0} \subseteq Blank(code) \ {ip}
    BY <1>2, <1>3, <2>1
  <2>4. Cont(code) = Top.exit \/ Cont(code) = m + 1
    BY <2>1 DEF Cont
  <2> QED BY <1>2, <1>3, <2>1, <2>2, <2>3, <2>4, ContinuedBlank
<1>4. CASE NextHandler
  <2> DEFINE f == [Top EXCEPT !.exit = IF lastUnreachable THEN @ ELSE Cont(code)]
             c == Continued(code)
  <2>1. /\ HandlerEnter(f, c, Top.kid) /\ Top.kid <= Handlers /\ Generating({"try"}, "handlers")
    BY <1>4 DEF NextHandler
  <2>2. /\ f \in Frame /\ f.stmt = Top.stmt
        /\ f.exit = IF lastUnreachable THEN Top.exit ELSE Cont(code)
    BY <1>2, <1>3, <1>4 DEF Frame
  <2> HIDE DEF f
  <2>3. /\ c \in Code /\ Len(c) >= Len(code) /\ Blank(code) \ {ip} \subseteq Blank(c)
    BY <1>3, <1>4
  <2>4. f.exit # 0 => f.exit \in Blank(c) /\ (f.exit \in Spare(Top) \/ f.exit \notin DOMAIN code)
    <3>1. CASE lastUnreachable
      BY <1>2, <1>3, <1>4, <2>2, <3>1
    <3>2. CASE ~ lastUnreachable
      BY <1>2, <1>3, <1>4, <2>2, <3>2
    <3> QED BY <3>1, <3>2
  <2>5. Handlers # 1 /\ Top.kid >= 1 /\ Top.kid \in Nat /\ Top.kid + 1 \in DOMAIN f.stmt.kids
    <3> HIDE DEF c
    <3>1. /\ Top.stmt.kids \in Seq(Statements) /\ Len(Top.stmt.kids) \in Nat
          /\ Top.kid <= Len(Top.stmt.kids) - 1 /\ Top.kid \in Nat /\ Top.kid >= 2
      BY <1>2, <1>4, <2>1, StatementParts DEF Handlers
    <3>2. Handlers # 1
      BY <2>1, <3>1
    <3> QED BY <2>2, <3>1, <3>2, LenProperties
  <2> HIDE DEF c
  <2>6. (Blank(code) \ {ip}) \ Spare(Top) \subseteq Blank(c)
    BY <2>3
  <2> QED BY <2>1, <2>2, <2>3, <2>4, <2>5, <2>6, HandlerFlag
<1>5. CASE TryEnd
  <2>1. /\ code' = Continued(code) /\ frames' = Below
        /\ ip' = (IF NoCont THEN 0 ELSE Cont(code))
        /\ UNCHANGED lastUnreachable
    BY <1>5 DEF TryEnd, Return
  <2>2. 0 \notin DOMAIN code
    BY <1>2, <1>5
  <2>3. CASE lastUnreachable
    <3>1. code' = code /\ ip' = Top.exit
      BY <1>3, <1>5, <2>1, <2>3 DEF NoCont, Cont
    <3>2. Top.exit \in {0} \cup Spare(Top) /\ Spare(Top) \subseteq DOMAIN code
      BY <1>2, <1>5 DEF Blank
    <3>3. /\ \A b \in (Blank(code) \ {ip}) \ Spare(Top) : b \in Blank(code') \ {ip'}
          /\ ip' \in 0 .. Len(code')
      BY <1>2, <1>5, <2>2, <3>1, <3>2 DEF Blank
    <3> QED BY <1>2, <1>5, <2>1, <2>3, <3>3, ReturnSpares DEF FlagInv
  <2>4. CASE ~ lastUnreachable
    <3>1. ip' = Cont(code) /\ ip' \in Blank(code') /\ (ip' = Top.exit \/ ip' \notin DOMAIN code) /\ ip' # 0
      BY <1>3, <1>5, <2>1, <2>4 DEF NoCont
    <3>2. \A b \in (Blank(code) \ {ip}) \ Spare(Top) : b \in Blank(code') \ {ip'}
      BY <1>2, <1>3, <1>5, <2>1, <3>1 DEF Blank
    <3>3. ip' \in 0 .. Len(code')
      BY <1>0, <3>1 DEF Blank
    <3>4. Open'
      BY <3>1, BlankIsOpen
    <3> QED BY <1>2, <1>5, <2>1, <3>2, <3>3, <3>4, ReturnSpares DEF FlagInv
  <2> QED BY <2>3, <2>4
<1> QED BY <1>1, <1>4, <1>5

LEMMA StopFlag ==
  ASSUME IInv, IInv', FlagInv, Undefined \/ TryCrash \/ Finish \/ Terminating \/ UNCHANGED vars
  PROVE  FlagInv'
<1>1. CASE Undefined \/ TryCrash \/ Terminating \/ UNCHANGED vars
  <2>1. UNCHANGED <<frames, code, ip, lastUnreachable, switch>>
    BY <1>1 DEF Undefined, TryCrash, Terminating, vars, stacks
  <2>2. SpareInv'
    BY <2>1 DEF FlagInv, SpareInv
  <2>3. status' = status \/ status' # "generating"
    BY <1>1 DEF Undefined, TryCrash, Terminating, vars, Ended
  <2>4. Opened'
    BY <2>1, <2>3, OpenStays DEF FlagInv, Opened, Starting, Top
  <2> QED BY <2>2, <2>4 DEF FlagInv
<1>2. CASE Finish
  <2>1. status = "generating" /\ frames' = <<>> /\ ip' = ip
    BY <1>2 DEF Finish
  <2>2. status' # "generating"
    BY <1>2 DEF Finish
  <2>3. code \in Code /\ code' \in Code /\ ip \in Nat /\ ip \in 0 .. Len(code) /\ unreach \in Nat
    BY DEF IInv, TypeOK, Code, FlagInv, SpareInv
  <2>4. Len(code') = Len(code)
    <3>1. CASE code' = code
      BY <3>1
    <3>2. CASE code' = FinishedCode
      <4> DEFINE c == IF prog[1] THEN Put(code, ip, Instr("ret", <<>>, <<>>)) ELSE code
      <4>1. <<>> \in Seq(Nat)
        OBVIOUS
      <4>2. c \in Code /\ Len(c) = Len(code)
        BY <2>3, <4>1, PutInstr DEF Ops, Terminators
      <4>3. FinishedCode = IF unreach = 0 THEN c ELSE Put(c, unreach, Instr("unreachable", <<>>, <<>>))
        BY DEF FinishedCode
      <4> HIDE DEF c
      <4>4. Len(FinishedCode) = Len(c)
        BY <2>3, <4>1, <4>2, <4>3, PutInstr DEF Ops, Terminators
      <4> QED BY <3>2, <4>2, <4>4
    <3> QED BY <1>2, <3>1, <3>2 DEF Finish
  <2>5. SpareInv'
    BY <2>1, <2>3, <2>4 DEF SpareInv
  <2> QED BY <2>2, <2>5 DEF FlagInv, Opened
<1> QED BY <1>1, <1>2

-----------------------------------------------------------------------------
LEMMA InitFlag ==
  ASSUME Init
  PROVE  FlagInv
<1>1. /\ frames = <<Activation(prog[2], <<>>, Stacks)>> /\ code = <<<<>>>> /\ ip = 1
  BY DEF Init
<1>2. /\ DOMAIN frames = {1} /\ Len(frames) = 1 /\ frames # <<>>
      /\ frames[1].stage = "start" /\ frames[1].exit = 0
      /\ DOMAIN code = {1} /\ code[1] = <<>> /\ Len(code) = 1
  BY <1>1 DEF Activation
<1>3. Spare(frames[1]) = {} /\ Locals(frames[1])
  BY <1>2 DEF Spare, Locals, KeepsTwo
<1>4. SpareInv
  BY <1>1, <1>2, <1>3 DEF SpareInv
<1>5. Open
  BY <1>1, <1>2 DEF Open, EndsInJump
<1> QED BY <1>4, <1>5 DEF FlagInv, Opened

LEMMA FlagInduction ==
  ASSUME IInv, IInv', FlagInv, [GenNext \/ Terminating]_vars
  PROVE  FlagInv'
<1>1. CASE GenNext
  BY <1>1, ScopeFlag, SimpleFlag, ThrowFlag, IfFlag, LoopBeginFlag, LoopEndFlag, SwitchFlag,
     TryBeginFlag, TryFlag, StopFlag DEF GenNext
<1>2. CASE Terminating \/ UNCHANGED vars
  BY <1>2, StopFlag
<1> QED BY <1>1, <1>2

(***************************************************************************)
(* For every program, however its statements are nested: whenever          *)
(* lastUnreachable is not set there is a block at the insertion point, and *)
(* no statement was put behind a jump, except before the first case of a   *)
(* switch.                                                                 *)
(***************************************************************************)
THEOREM FlagSoundCorrect == GenSpec => []FlagSound
<1>1. Init => FlagInv
  BY InitFlag
<1>2. IInv /\ IInv' /\ FlagInv /\ [GenNext \/ Terminating]_vars => FlagInv'
  BY FlagInduction
<1>3. IInv /\ FlagInv => FlagSound
  <2> SUFFICES ASSUME IInv, FlagInv, status = "generating", ~ lastUnreachable
               PROVE  ip # 0 /\ (EndsInJump(ip) => switch # <<>> /\ ip = switch[Len(switch)][1])
    BY DEF FlagSound
  <2>1. Open
    BY DEF FlagInv, Opened
  <2>2. 0 \notin DOMAIN code
    <3>1. code \in Code
      BY DEF IInv, TypeOK, Code
    <3> QED BY <3>1, CodeParts
  <2> QED BY <2>1, <2>2 DEF Open
<1> QED BY <1>1, <1>2, <1>3, Invariant, PTL DEF GenSpec
=============================================================================
