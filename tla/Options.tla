------------------------------ MODULE Options -------------------------------
(***************************************************************************)
(* From the command line to the end of the process: OptionsParser          *)
(* (CompilerInfo/OptionsParser.cpp), the Info object a build script fills  *)
(* (Info.h), and what LangMain::compile and exec make of the result        *)
(* (langMain/langMain.hpp, main.cpp).                                      *)
(*                                                                         *)
(* The option loop asks `id + 1 >= argc` with the CHARACTER of the option  *)
(* where the index of the argument is meant.  All files of the command     *)
(* line are compiled and run in the compiler first, as build files; the    *)
(* others are taken out of the list while it is walked.                    *)
(*                                                                         *)
(* What is in the files is taken to be correct: the front end and the      *)
(* generator refuse nothing here.                                          *)
(***************************************************************************)
EXTENDS Integers, Sequences, FiniteSets, SequencesExt

CONSTANTS
  Path,     \* files, named by their path
  Live,     \* those whose extension ends in `l`
  Dir,      \* directories that exist: listFiles gives files[d]
  Code,     \* character code of each option, as an integer
  Inputs    \* the inputs explored

Letters == {"o", "L", "I", "c", "e"}
TakesValue == {"o", "L", "I", "e"}
LongToShort == [out |-> "o", Link |-> "L", Include |-> "I", emit |-> "e"]
LongOptions == {"ffreestanding", "fno-mangle", "emit-c", "emit-cpp"}

\* "short": a letter behind a dash; "joined": and more behind the letter; "dash": nothing
\* behind it; "word": no dash, a path or another value.
Arg == [kind : {"short", "joined", "dash", "long", "word"}, name : STRING]
None == [kind |-> "none", name |-> ""]

\* What the first token of a file of the command line is: `#info`, another `#` word, the
\* identifier `info`, anything else; "empty" has no tokens, "absent" does not exist.
HeadToken == {"info", "tag", "named", "plain", "empty", "absent"}
Call == [op : {"addSourceDir", "setMainFile", "setOutName", "setFlag", "addLinkerFlag", "shouldLink", "verify"},
         of : STRING]
Input ==
  [args : Seq(Arg), head : [Path -> HeadToken], files : [Dir -> SUBSET Path],
   script : Seq(Call), build : BOOLEAN, ret : {0, 1}]

ASSUME PathAssumption == IsFiniteSet(Path) /\ "" \notin Path
ASSUME CodeAssumption == Code \in [Letters -> Nat]
ASSUME LiveAssumption == Live \subseteq Path
ASSUME InputsAssumption == Inputs \subseteq Input

VARIABLES
  input,
  pc,        \* the phase, or how the process ended
  i,         \* index into what the phase walks
  params, longs, includeArgs, files,   \* what the option loop collects
  store,     \* the storage of cmp.files: what erase moves down stays behind the end
  size,      \* the length of cmp.files
  extFiles,
  hasInfo,
  info,      \* Info while the build script runs, InternalInfo afterwards
  words      \* the command for clang

argVars == <<params, longs, includeArgs, files>>
cmpVars == <<store, size, extFiles, hasInfo>>
vars == <<input, pc, i, argVars, cmpVars, info, words>>

Ended == {"done", "refused", "crashed"}

\* An object of class SrcFile: of the command line, or one of the two copies modify()
\* makes of what the build script lists.
Object == [of : {"arg", "list", "table"}, path : Path, n : Nat]
Obj(of, path, n) == [of |-> of, path |-> path, n |-> n]

NewInfo ==
  [mainFile |-> "", table |-> <<>>, isMain |-> {}, outName |-> None, flags |-> {}, link |-> TRUE,
   linker |-> <<>>, emitPath |-> None, main |-> "", native |-> {}, live |-> {}]

Init ==
  /\ input \in Inputs
  /\ pc = "args"
  /\ i = 1
  /\ params = <<>> /\ longs = <<>> /\ includeArgs = <<>> /\ files = <<>>
  /\ store = <<>> /\ size = 0 /\ extFiles = <<>> /\ hasInfo = FALSE
  /\ info = NewInfo
  /\ words = <<>>

End(how) == pc' = how /\ UNCHANGED <<input, i, argVars, cmpVars, info, words>>
Go(phase) == pc' = phase /\ i' = 1

-----------------------------------------------------------------------------
(***************************************************************************)
(* The option loop.  args[k] is argv[k]; argv[argc] is null.               *)
(***************************************************************************)
argc == Len(input.args) + 1
InArgs == pc = "args" /\ i < argc
arg == input.args[i]
NextArg == IF i + 1 < argc THEN input.args[i + 1] ELSE None

IsOption(a) ==
  \/ a.kind = "long" /\ a.name \in DOMAIN LongToShort
  \/ a.kind \in {"short", "joined"} /\ a.name \in Letters
IsFlag(a) == a.kind = "long" /\ a.name \in LongOptions
Letter(a) == IF a.kind = "long" THEN LongToShort[a.name] ELSE a.name

\* has_param and the test of the length of the command line
Wants(a) == Letter(a) \in TakesValue
ReachesIndex(a) == i + 1 < argc   \* variant: the index is compared
Reaches(a) == Code[Letter(a)] + 1 >= argc

\* Both branches store a null pointer in a string when the option is the last argument.
TakesNull ==
  /\ IsOption(arg) /\ NextArg = None
  /\ \/ Wants(arg) /\ Reaches(arg)
     \/ arg = [kind |-> "short", name |-> "I"]

ReadOption ==
  /\ InArgs /\ IsOption(arg) /\ ~ TakesNull
  /\ Wants(arg) => Reaches(arg)
  /\ params' = Append(params, <<Letter(arg), IF Wants(arg) THEN NextArg ELSE None>>)
  /\ includeArgs' = IF arg.kind = "short" /\ arg.name = "I" THEN Append(includeArgs, NextArg) ELSE includeArgs
  /\ i' = IF Wants(arg) THEN i + 2 ELSE i + 1
  /\ UNCHANGED <<input, pc, longs, files, cmpVars, info, words>>

\* "Expected argument": the message of a short option is read from behind its literal.
OptionRefused ==
  /\ InArgs /\ IsOption(arg) /\ ~ TakesNull
  /\ Wants(arg) /\ ~ Reaches(arg)
  /\ \/ End("refused")
     \/ arg.kind # "long" /\ End("crashed")

OptionCrashes == InArgs /\ (TakesNull \/ arg.kind = "dash") /\ End("crashed")

ReadFlag ==
  /\ InArgs /\ IsFlag(arg)
  /\ longs' = Append(longs, arg.name)
  /\ i' = i + 1
  /\ UNCHANGED <<input, pc, params, includeArgs, files, cmpVars, info, words>>

UnknownOption ==
  /\ InArgs /\ arg.kind \in {"short", "joined", "long"} /\ ~ IsOption(arg) /\ ~ IsFlag(arg)
  /\ End("refused")

Exists(name) == name \in Path /\ input.head[name] # "absent"

ReadFile ==
  /\ InArgs /\ arg.kind = "word" /\ Exists(arg.name)
  /\ files' = Append(files, Obj("arg", arg.name, i))
  /\ i' = i + 1
  /\ UNCHANGED <<input, pc, params, longs, includeArgs, cmpVars, info, words>>

UnknownFile == InArgs /\ arg.kind = "word" /\ ~ Exists(arg.name) /\ End("refused")

\* file_table keeps the last object of a path.
file_table == {o \in ToSet(files) : \A p \in ToSet(files) : p.path = o.path => p.n <= o.n}

-----------------------------------------------------------------------------
HeadOf(o) == input.head[o.path]
IsInfo(o) == HeadOf(o) = "info"

Tokenize ==
  /\ pc = "args" /\ i = argc
  /\ store' = files
  /\ size' = Len(files)
  /\ hasInfo' = \E o \in ToSet(files) : IsInfo(o)
  /\ Go("separate")
  /\ UNCHANGED <<input, argVars, extFiles, info, words>>

(***************************************************************************)
(* The range-for over cmp.files, which erases from cmp.files.  Its end is  *)
(* that of the list as it was; the storage keeps what was moved down.      *)
(***************************************************************************)
Taken(o) == HeadOf(o) = "plain"
PlaceOf(o) == {k \in 1 .. size : store[k] = o}
ErasedEverywhere(k) ==   \* variant: nothing is left behind the end
  SubSeq(store, 1, k - 1) \o SubSeq(store, k + 1, Len(store)) \o <<store[k]>>
Erased(k) == [j \in DOMAIN store |-> IF j >= k /\ j < size THEN store[j + 1] ELSE store[j]]

Separate ==
  /\ pc = "separate" /\ i <= Len(store)
  /\ LET o == store[i] IN
       IF Taken(o)
         THEN /\ extFiles' = Append(extFiles, o)
              /\ store' = IF PlaceOf(o) = {} THEN store ELSE Erased(CHOOSE k \in PlaceOf(o) : TRUE)
              /\ size' = size - Cardinality(PlaceOf(o))
         ELSE UNCHANGED <<store, size, extFiles>>
  /\ i' = i + 1
  /\ UNCHANGED <<input, pc, argVars, hasInfo, info, words>>

BuildFiles == {store[k] : k \in 1 .. size}

(***************************************************************************)
(* preParse() to link(): the files left in cmp.files are declared and      *)
(* generated, all files of the command line are linked: LangMain's job     *)
(*   [files |-> BuildFiles, native |-> <<>>, jitted |-> BuildFiles,        *)
(*    linked |-> files, ...],                                              *)
(* which ends as its EndsByRule says.                                      *)
(***************************************************************************)
JobCrashes(declared, linked) == declared # {} /\ linked > 1

Jit ==
  /\ pc = "separate" /\ i > Len(store)
  /\ ~ JobCrashes(BuildFiles, Len(files))
  /\ Go(IF hasInfo THEN "script" ELSE "enter")
  /\ UNCHANGED <<input, argVars, cmpVars, info, words>>

JitCrashes ==
  /\ pc = "separate" /\ i > Len(store)
  /\ JobCrashes(BuildFiles, Len(files))
  /\ End("crashed")

-----------------------------------------------------------------------------
(***************************************************************************)
(* The build script.  table maps a path to whether Info has an object for  *)
(* it: setMainFile looks the file up with operator[], which enters a null  *)
(* pointer when it is not there.                                           *)
(***************************************************************************)
InScript(op) == pc = "script" /\ input.build /\ i <= Len(input.script) /\ input.script[i].op = op
Operand == input.script[i].of
Called == i' = i + 1 /\ UNCHANGED <<input, pc, argVars, cmpVars, words>>

NoBuild == pc = "script" /\ ~ input.build /\ End("refused")

With(table, paths, object) ==
  [p \in DOMAIN table \cup paths |-> IF p \in paths THEN object ELSE table[p]]

AddSourceDir ==
  /\ InScript("addSourceDir") /\ Operand \in Dir
  /\ LET listed == input.files[Operand] IN
       info' = [info EXCEPT !.table = With(@, listed, TRUE),
                            !.isMain = (@ \ listed) \cup (listed \cap {info.mainFile})]
  /\ Called

NoSuchDir == InScript("addSourceDir") /\ Operand \notin Dir /\ End("refused")

SetMainFile ==
  /\ InScript("setMainFile")
  /\ LET known == Operand \in DOMAIN info.table /\ info.table[Operand] IN
       info' = [info EXCEPT !.mainFile = Operand,
                            !.table = IF known THEN @ ELSE With(@, {Operand}, FALSE),
                            !.isMain = IF known THEN @ \cup {Operand} ELSE @]
  /\ Called

SetOutName ==
  /\ InScript("setOutName")
  /\ info' = [info EXCEPT !.outName = [kind |-> "word", name |-> Operand]]
  /\ Called

\* setFlag replaces all flags by the one it is given.
SetFlag == InScript("setFlag") /\ info' = [info EXCEPT !.flags = {Operand}] /\ Called

AddLinkerFlag ==
  /\ InScript("addLinkerFlag")
  /\ info' = [info EXCEPT !.linker = Append(@, [kind |-> "word", name |-> Operand])]
  /\ Called

ShouldLink == InScript("shouldLink") /\ info' = [info EXCEPT !.link = (Operand = "true")] /\ Called

Verify == InScript("verify") /\ info.mainFile # "" /\ Called /\ UNCHANGED info
VerifyFails == InScript("verify") /\ info.mainFile = "" /\ End("refused")

ScriptEnds == pc = "script" /\ input.build /\ i > Len(input.script)

(***************************************************************************)
(* modify() copies each object twice, into the table and into the list of  *)
(* the live or of the other files, and crashes on a null pointer.  It runs *)
(* before the result of the script is looked at.                           *)
(***************************************************************************)
Modify ==
  /\ ScriptEnds
  /\ \A p \in DOMAIN info.table : info.table[p]
  /\ LET paths == DOMAIN info.table IN
       info' = [info EXCEPT !.native = {Obj("list", p, 0) : p \in paths \ Live},
                            !.live = {Obj("list", p, 0) : p \in paths \cap Live},
                            !.main = IF info.mainFile \in paths THEN info.mainFile ELSE "",
                            !.table = [p \in paths |-> Obj("table", p, 0)]]
  /\ IF input.ret = 0 THEN Go("enter") ELSE pc' = "refused" /\ UNCHANGED i
  /\ UNCHANGED <<input, argVars, cmpVars, words>>

ModifyCrashes == ScriptEnds /\ (\E p \in DOMAIN info.table : ~ info.table[p]) /\ End("crashed")

-----------------------------------------------------------------------------
(***************************************************************************)
(* The files taken out enter the table, then the options are applied in    *)
(* the order of the command line, then the long ones, then every file that *)
(* is no build script is to be compiled.                                   *)
(***************************************************************************)
ApplyParamOnce(in, param) ==   \* variant: what the script named is kept
  CASE param[1] = "o" /\ in.outName = None -> [in EXCEPT !.outName = param[2]]
    [] param[1] = "L" -> [in EXCEPT !.linker = Append(@, param[2])]
    [] param[1] = "c" -> [in EXCEPT !.link = FALSE]
    [] param[1] = "e" -> [in EXCEPT !.emitPath = param[2]]
    [] OTHER -> in

ApplyParam(in, param) ==
  CASE param[1] = "o" -> [in EXCEPT !.outName = param[2]]
    [] param[1] = "L" -> [in EXCEPT !.linker = Append(@, param[2])]
    [] param[1] = "c" -> [in EXCEPT !.link = FALSE]
    [] param[1] = "e" -> [in EXCEPT !.emitPath = param[2]]
    [] OTHER -> in   \* addIncludeDir: its headers are not modelled

EnterFiles ==
  /\ pc = "enter"
  /\ LET paths == {o.path : o \in ToSet(extFiles)}
         last(p) == extFiles[Max({k \in DOMAIN extFiles : extFiles[k].path = p})]
     IN info' = [info EXCEPT !.table = [p \in DOMAIN info.table \cup paths |->
                                          IF p \in paths THEN last(p) ELSE info.table[p]]]
  /\ Go("apply")
  /\ UNCHANGED <<input, argVars, cmpVars, words>>

InParams == pc = "apply" /\ i <= Len(params)
IsDir(a) == a.kind = "word" /\ a.name \in Dir
BadInclude == params[i][1] = "I" /\ ~ IsDir(params[i][2])

ApplyNext ==
  /\ InParams /\ ~ BadInclude
  /\ info' = ApplyParam(info, params[i])
  /\ i' = i + 1
  /\ UNCHANGED <<input, pc, argVars, cmpVars, words>>

ApplyFails == InParams /\ BadInclude /\ End("refused")

AddFiles ==
  /\ pc = "apply" /\ i > Len(params)
  /\ info' = [info EXCEPT !.flags = @ \cup ToSet(longs),
                          !.native = @ \cup {o \in file_table : ~ IsInfo(o)}]
  /\ Go("compile")
  /\ UNCHANGED <<input, argVars, cmpVars, words>>

-----------------------------------------------------------------------------
(***************************************************************************)
(* LangMain::compile.  The files of an unordered table come in any order.  *)
(***************************************************************************)
Bitcode(o) == [kind |-> "bitcode", name |-> o.path]
OutWord == IF info.outName = None THEN <<>> ELSE <<info.outName>>
LinkWord == IF info.link THEN <<>> ELSE <<[kind |-> "short", name |-> "c"]>>

\* `flags & EMIT_CPP != 0` is `flags & (EMIT_CPP != 0)`, the first bit: DEBUG_FLAG.
Emits == "DEBUG_FLAG" \in info.flags

NothingToDo == pc = "compile" /\ info.native = {} /\ info.link /\ Go("exec")
               /\ UNCHANGED <<input, argVars, cmpVars, info, words>>

GenNonLive ==
  /\ pc = "compile" /\ ~ (info.native = {} /\ info.link)
  /\ IF Emits /\ info.emitPath = None
       THEN pc' = "refused" /\ UNCHANGED <<i, words>>   \* mkdir("")
       ELSE /\ \E order \in SetToSeqs(info.native) :
                 words' = <<[kind |-> "short", name |-> "o"]>> \o OutWord \o LinkWord
                            \o [k \in DOMAIN order |-> Bitcode(order[k])] \o info.linker
            /\ Go("clang")
  /\ UNCHANGED <<input, argVars, cmpVars, info>>

\* clang++ runs if there is a native file; what it is told may be wrong.
Clang ==
  /\ pc = "clang"
  /\ \/ Go("link") /\ UNCHANGED <<input, argVars, cmpVars, info, words>>
     \/ info.native # {} /\ End("refused")

\* genLive() and link() of LangMain's own job
LinkLive ==
  /\ pc = "link"
  /\ IF JobCrashes(info.native \cup info.live, Cardinality(info.live))
       THEN pc' = "crashed" /\ UNCHANGED i ELSE Go("exec")
  /\ UNCHANGED <<input, argVars, cmpVars, info, words>>

\* exec() runs the main file if it is live.
Exec == pc = "exec" /\ End("done")

Terminating == pc \in Ended /\ UNCHANGED vars

Next ==
  \/ ReadOption \/ OptionRefused \/ OptionCrashes \/ ReadFlag \/ UnknownOption \/ ReadFile \/ UnknownFile
  \/ Tokenize \/ Separate \/ Jit \/ JitCrashes
  \/ NoBuild \/ AddSourceDir \/ NoSuchDir \/ SetMainFile \/ SetOutName \/ SetFlag \/ AddLinkerFlag
  \/ ShouldLink \/ Verify \/ VerifyFails \/ Modify \/ ModifyCrashes
  \/ EnterFiles \/ ApplyNext \/ ApplyFails \/ AddFiles \/ NothingToDo \/ GenNonLive \/ Clang \/ LinkLive \/ Exec
  \/ Terminating

Spec == Init /\ [][Next]_vars
=============================================================================
