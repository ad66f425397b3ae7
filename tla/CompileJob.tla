----------------------------- MODULE CompileJob -----------------------------
(***************************************************************************)
(* What a compilation promises about its files, whatever the module store  *)
(* does: every file is declared before any is defined, so that a body may  *)
(* use what any file declares, and a file is shipped at most once, after   *)
(* it was defined.                                                         *)
(***************************************************************************)
CONSTANT SrcFile

VARIABLES
  todo,   \* the files of the job
  stage   \* how far each file is

Stages == {"unseen", "declared", "defined", "shipped"}

Init ==
  /\ todo \in SUBSET SrcFile
  /\ stage = [f \in SrcFile |-> "unseen"]

Move(f, from, to) ==
  /\ stage[f] = from
  /\ stage' = [stage EXCEPT ![f] = to]
  /\ UNCHANGED todo

Declare(f) == (\A g \in todo : stage[g] \in {"unseen", "declared"}) /\ Move(f, "unseen", "declared")

Define(f) == (\A g \in todo : stage[g] # "unseen") /\ Move(f, "declared", "defined")

Ship(f) == Move(f, "defined", "shipped")

Next == \E f \in todo : Declare(f) \/ Define(f) \/ Ship(f)

Spec == Init /\ [][Next]_<<todo, stage>>
=============================================================================
