----------------------------- MODULE MCLangMain -----------------------------
(***************************************************************************)
(* Jobs over three files for TLC: every way of splitting some of them, in  *)
(* every order, into native and live files, with every set of files that   *)
(* have static variables; and the jobs OptionsParser runs, whose linked    *)
(* files are all the files of the command line.                            *)
(***************************************************************************)
EXTENDS LangMain, SequencesExt

Lists == SetToAllKPermutations(SrcFile)

Pipeline(emits) ==
  {[files |-> n \o l, native |-> n, jitted |-> l, linked |-> l,
    emit |-> e, link |-> k, statics |-> st] :
     <<n, l, e, k, st>> \in
       {t \in Lists \X Lists \X emits \X BOOLEAN \X SUBSET SrcFile :
          IsInjective(t[1] \o t[2])}}

BuildScript ==
  {[files |-> g, native |-> <<>>, jitted |-> g, linked |-> l,
    emit |-> FALSE, link |-> FALSE, statics |-> {}] :
     <<g, l>> \in {t \in Lists \X Lists : Range(t[1]) \subseteq Range(t[2])}}

AllJobs == Pipeline(BOOLEAN) \cup BuildScript
=============================================================================
