----------------------------- MODULE MCStmtGen -----------------------------
(***************************************************************************)
(* Small functions for TLC, in three families: nested loops and branches,  *)
(* switches, and try.                                                      *)
(***************************************************************************)
EXTENDS StmtRules

S(kind, kids) == [kind |-> kind, kids |-> kids]
Simple(kinds) == {S(k, <<>>) : k \in kinds}
Scope(kids) == S("scope", kids)
Scopes(Stmts, n) == {Scope(kids) : kids \in SeqOf(Stmts, n)}
Pairs(A, B) == {Scope(<<a, b>>) : a \in A, b \in B}

Ifs(Then, Else) ==
  {S("if", <<t>>) : t \in Then} \cup {S("if", <<t, e>>) : t \in Then, e \in Else}
Loops(Bodies) == {S(k, <<b>>) : k \in {"while", "for"}, b \in Bodies}
Switches(Bodies) == {S("switch", <<b>>) : b \in Bodies}
Tries(Bodies, Handler) ==
  {S("try", <<b, h>>) : b \in Bodies, h \in Handler}

Parts(stmts) == UNION {Range(s.kids) : s \in stmts}
Within(bodies) ==   \* the statements of bodies at most seven levels deep
  LET l1 == Parts(bodies)
      l2 == Parts(l1)
      l3 == Parts(l2)
      l4 == Parts(l3)
      l5 == Parts(l4)
  IN bodies \cup l1 \cup l2 \cup l3 \cup l4 \cup l5 \cup Parts(l5)

(***************************************************************************)
(* Loops and branches, with bodies that are scopes or lone statements: two *)
(* levels of compounds, followed or preceded by a simple statement.        *)
(***************************************************************************)
Leaf == Simple(Plain \cup Jumps)
Inner == Scopes(Leaf, 1) \cup Simple({"do", "break", "return"})
           \cup Pairs(Simple({"do"}), Simple({"continue"}))
FlatIfs == Ifs(Inner, Inner)
FlatLoops == Loops(Inner \cup Simple({"throw"}))
Compounds == FlatIfs \cup FlatLoops
ElseIfs == Ifs(Scopes(Simple({"do", "return"}), 1),
               Ifs(Simple({"do", "return"}), Scopes(Simple({"do", "return"}), 1)))
InLoops == Loops(Pairs(FlatIfs \cup ElseIfs, Simple({"do", "break"}))
                   \cup Scopes(Compounds, 1) \cup FlatIfs)
InIfs == Ifs(Scopes(FlatLoops, 1) \cup FlatLoops, Scopes(Simple({"return"}), 1))
LoopBodies ==
  Scopes(Leaf, 2) \cup Scopes(Compounds \cup ElseIfs \cup InIfs \cup InLoops, 1)
    \cup Pairs(Compounds \cup ElseIfs, Simple({"do", "return"}))
    \cup Pairs(Simple({"do", "throw"}), Compounds)

(***************************************************************************)
(* Switches: every scope of at most three simple statements and labels,    *)
(* compounds behind a label, switches in switches, loops, branches and     *)
(* after them.                                                             *)
(***************************************************************************)
CaseLeaf == Simple({"case", "default", "do", "break", "return"})
Label == Simple({"case"})
Cased(Stmts) == {Scope(<<l, s>>) : l \in Label, s \in Stmts}
FlatSwitches == Switches(Scopes(CaseLeaf, 3))
OneCase == Switches({Scope(<<l, a, b>>) : l \in Simple({"case", "default"}),
                                         a \in Simple({"do"}),
                                         b \in Simple({"break", "continue", "throw"})})
BranchCase == Ifs(Scopes(Simple({"do", "break", "case"}), 1), Scopes(Simple({"return"}), 1))
DeepSwitches ==
  Switches(Cased(BranchCase \cup OneCase \cup Loops(Scopes(Simple({"case", "break"}), 1)))
             \cup Pairs({Scope(<<>>)}, Label) \cup Pairs(Cased(Simple({"break"})), Label)
             \cup Scopes(Loops({Scope(<<>>)}) \cup OneCase, 1))
AroundSwitch ==
  Loops(Scopes(FlatSwitches \cup OneCase, 1) \cup OneCase \cup Pairs(OneCase, Simple({"do"})))
    \cup Ifs(Scopes(OneCase, 1), Scopes(OneCase, 1)) \cup Ifs(OneCase, {})
SwitchBodies ==
  Scopes(FlatSwitches \cup OneCase \cup DeepSwitches \cup AroundSwitch, 1)
    \cup Pairs(FlatSwitches \cup OneCase, Simple({"do", "return"}))
    \cup Pairs(AroundSwitch, Simple({"return"})) \cup Scopes(Label, 1)

(***************************************************************************)
(* Try: up to three handlers, alone, in loops, in another try and in its   *)
(* handler, before and after simple statements.                            *)
(***************************************************************************)
Tried == Scopes(Simple({"do", "throw", "return", "break"}), 2)
Handler == Scopes(Simple({"do", "throw", "return"}), 1)
FlatTries == Tries(Tried, Handler)
GoodTries == Tries(Pairs(Simple({"do", "call"}), Simple({"throw", "return"})),
                   Scopes(Simple({"do"}), 1))
ManyHandlers ==
  {S("try", <<b, g, h>>) : b \in Scopes(Simple({"throw"}), 1), g \in Handler, h \in Handler}
    \cup {S("try", <<Scope(<<>>), Scope(<<>>), h, Scope(<<>>)>>) : h \in Handler}
BranchTries == Tries(Scopes(Ifs(Scopes(Simple({"throw"}), 1), Scopes(Simple({"throw"}), 1)), 1)
                       \cup Pairs(Ifs(Scopes(Simple({"throw"}), 1), {}), Simple({"throw"})),
                     Scopes(Simple({"do"}), 1))
NestedTries ==
  Tries(Pairs(GoodTries, Simple({"do", "throw"})), Scopes(Simple({"do"}), 1))
    \cup Tries(Scopes(Simple({"throw"}), 1), Scopes(GoodTries, 1) \cup Pairs(GoodTries, Simple({"throw"})))
LoopTries ==
  Loops(Scopes(FlatTries \cup GoodTries, 1) \cup Pairs(GoodTries, Simple({"do", "continue"})))
TryBodies ==
  Scopes(FlatTries \cup GoodTries \cup ManyHandlers \cup BranchTries \cup NestedTries \cup LoopTries, 1)
    \cup Pairs(FlatTries \cup BranchTries \cup NestedTries \cup LoopTries, Simple({"do", "throw", "return"}))

\* TLC evaluates AllBodies and AllParts once, what a cfg names at every use.
AllBodies == LoopBodies \cup SwitchBodies \cup TryBodies
AllParts == Within(AllBodies)
AllPrograms == BOOLEAN \X AllBodies
AllStatements == AllParts
=============================================================================
