----------------------------- MODULE StmtRules -----------------------------
(***************************************************************************)
(* Which function bodies the compiler accepts, stated on the syntax tree   *)
(* alone, and what the generator of StmtGen has to do with it.             *)
(***************************************************************************)
EXTENDS StmtGen, SequencesExt

(***************************************************************************)
(* Leaves: generating the statement sets lastUnreachable.                  *)
(* Listed: the statements of nested scopes up to the first that leaves,    *)
(* all that is generated of a scope.                                       *)
(***************************************************************************)
RECURSIVE Leaves(_)
Leaves(s) ==
  \/ s.kind \in Jumps
  \/ s.kind \in {"scope", "switch"} /\ \E i \in DOMAIN s.kids : Leaves(s.kids[i])
  \/ s.kind = "try" /\ Leaves(Last(s.kids))

RECURSIVE Listed(_)
Listed(s) ==
  IF s.kind # "scope" THEN <<s>>
  ELSE LET stop == SelectInSeq(s.kids, Leaves)
           kids == IF stop = 0 THEN s.kids ELSE SubSeq(s.kids, 1, stop)
       IN FlattenSeq([i \in DOMAIN kids |-> Listed(kids[i])])

\* the code of s ends in a closed block, or in none
Sealed(s) == Listed(s) # <<>> /\ Last(Listed(s)).kind \in Jumps
Dead(s) == Listed(s) # <<>> /\ Last(Listed(s)).kind \in Jumps \cup {"try"} /\ Leaves(s)

\* the label of a switch around s is generated in s
RECURSIVE HasLabel(_)
HasLabel(s) ==
  \/ s.kind \in Labels
  \/ s.kind # "switch" /\ \E k \in Range(s.kids) : \E x \in Range(Listed(k)) : HasLabel(x)

(***************************************************************************)
(* Sound: the code of s is well-formed wherever it is open.  c says which  *)
(* statements are around s, and whether lastUnreachable is still set from  *)
(* a statement before it, which happens to a lone statement after else.    *)
(***************************************************************************)
Outside == [loop |-> FALSE, exit |-> FALSE, switch |-> FALSE, stale |-> FALSE]

SetAfter(s, c) == Leaves(s) \/ (c.stale /\ s.kind \in Plain \cup Labels)

RECURSIVE Sound(_, _)
Sound(s, c) ==
  CASE s.kind = "break" -> c.exit
    [] s.kind = "continue" -> c.loop
    [] s.kind \in Labels -> c.switch
    [] s.kind = "scope" ->
         \A x \in Range(Listed(s)) : Sound(x, [c EXCEPT !.stale = FALSE])
    \* each branch sets the flag if and only if it ends in a jump
    [] s.kind = "if" ->
         \A i \in DOMAIN s.kids :
           LET d == IF i = 1 THEN c ELSE [c EXCEPT !.stale = SetAfter(s.kids[1], c)]
           IN Sound(s.kids[i], d) /\ (SetAfter(s.kids[i], d) <=> Dead(s.kids[i]))
    \* the body of a loop must not end in a jump
    [] s.kind \in {"while", "for"} ->
         /\ Sound(s.kids[1], [c EXCEPT !.loop = TRUE, !.exit = TRUE])
         /\ ~ Sealed(s.kids[1])
    \* a switch has one label, before anything else, and its code ends in a jump
    [] s.kind = "switch" ->
         LET list == Listed(s.kids[1])
         IN list # <<>> =>
              /\ Head(list).kind \in Labels
              /\ ~ \E x \in Range(Tail(list)) : HasLabel(x)
              /\ Dead(s.kids[1])
              /\ Sound(s.kids[1], [c EXCEPT !.exit = TRUE, !.switch = TRUE])
    \* one handler, for a body that ends in a jump
    [] s.kind = "try" ->
         /\ Len(s.kids) = 2
         /\ Dead(s.kids[1]) /\ (Leaves(s.kids[2]) => Dead(s.kids[2]))
         /\ Sound(s.kids[1], c) /\ Sound(s.kids[2], c)
    [] OTHER -> TRUE

Compiles(p) ==
  /\ Sound(p[2], Outside)
  /\ IF p[1] THEN ~ Sealed(p[2]) ELSE Dead(p[2])

(***************************************************************************)
(* The code generator accepts exactly the bodies that satisfy the rules.   *)
(* Nothing in the compiler states them: they are the joint effect of the   *)
(* flag, of the branches created without looking at it, and of the checks  *)
(* at the end of genFunc.  (A try that leaves no block to go on in may     *)
(* also crash the compiler.)                                               *)
(***************************************************************************)
AcceptedByRule ==
  status \in Ended \ {"crashed"} => (status = "accepted" <=> Compiles(prog))

(***************************************************************************)
(* Where control may go, by the meaning of the source.                     *)
(***************************************************************************)
RECURSIVE Breaks(_)   \* s may break out of a switch around it
Breaks(s) ==
  \/ s.kind = "break"
  \/ s.kind \in {"scope", "if", "try"}
       /\ \E k \in Range(s.kids) : \E x \in Range(Listed(k)) : Breaks(x)

RECURSIVE Ends(_)   \* execution may go on behind s
Ends(s) ==
  CASE s.kind \in Jumps -> FALSE
    [] s.kind = "scope" -> \A i \in DOMAIN s.kids : Ends(s.kids[i])
    [] s.kind = "if" -> Len(s.kids) = 1 \/ \E i \in {1, 2} : Ends(s.kids[i])
    [] s.kind = "try" -> \E i \in DOMAIN s.kids : Ends(s.kids[i])
    [] s.kind = "switch" ->
         \/ ~ \E k \in Range(s.kids[1].kids) : k.kind = "default"
         \/ \E x \in Range(Listed(s.kids[1])) : Breaks(x)
         \/ Ends(s.kids[1])
    [] OTHER -> TRUE

(***************************************************************************)
(* genFunc's message "No return statement in non void function" is about a *)
(* function that can reach its end without one.                            *)
(***************************************************************************)
NoReturnReported == status = "noReturn" => Ends(prog[2])
=============================================================================
