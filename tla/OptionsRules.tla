---------------------------- MODULE OptionsRules ----------------------------
(***************************************************************************)
(* What a command line and a build script have to be like for the compiler *)
(* to get through them, said of the input alone.                           *)
(***************************************************************************)
EXTENDS Options

args == input.args
Positions == DOMAIN args

WantsValue == {k \in Positions : IsOption(args[k]) /\ Wants(args[k])}

\* k stands behind an odd number of members of S that follow one another.
Second(S, k) ==
  \E s \in 1 .. k : s .. k - 1 \subseteq S /\ s - 1 \notin S /\ (k - s) % 2 = 1

\* The others are the values of the option before them.
Read == {k \in Positions : ~ Second(WantsValue, k)}

\* An option with a value is taken only on a command line longer than its character's code.
TooShort(k) == k \in WantsValue /\ Code[Letter(args[k])] + 1 < argc
AtEnd(k) ==
  /\ k = Len(args) /\ k \in WantsValue
  /\ ~ TooShort(k) \/ args[k] = [kind |-> "short", name |-> "I"]
Unknown(k) ==
  \/ args[k].kind \in {"short", "joined", "long"} /\ ~ IsOption(args[k]) /\ ~ IsFlag(args[k])
  \/ args[k].kind = "word" /\ ~ Exists(args[k].name)
Faulty == {k \in Read : args[k].kind = "dash" \/ TooShort(k) \/ AtEnd(k) \/ Unknown(k)}

OptionsAt(letter) == {k \in Read : IsOption(args[k]) /\ Letter(args[k]) = letter}
LastOf(letter) == args[Max(OptionsAt(letter)) + 1]

\* The members of a set of numbers, the least one first
InOrder(S) ==
  [j \in 1 .. Cardinality(S) |-> CHOOSE k \in S : Cardinality({t \in S : t <= k}) = j]

Sources == InOrder({k \in Read : args[k].kind = "word"})
SourceHead(j) == input.head[args[Sources[j]].name]
IsPlain(j) == SourceHead(j) = "plain"

(***************************************************************************)
(* Of plain files that follow one another every second is passed over and  *)
(* stays a build file, unless it is the last one.                          *)
(***************************************************************************)
Passed(j) == Second({k \in DOMAIN Sources : IsPlain(k)}, j)
StaysBuildFile(j) == IsPlain(j) => Passed(j) /\ j < Len(Sources)
SourceObj(j) == Obj("arg", args[Sources[j]].name, Sources[j])

SeparatedByRule ==
  pc = "separate" /\ i > Len(store) =>
    /\ BuildFiles = {SourceObj(j) : j \in {k \in DOMAIN Sources : StaysBuildFile(k)}}
    /\ ToSet(extFiles) = {SourceObj(j) : j \in {k \in DOMAIN Sources : ~ StaysBuildFile(k)}}

-----------------------------------------------------------------------------
(***************************************************************************)
(* Two files at most are compiled, and a build script only alone: what is  *)
(* left in the list is compiled in the compiler's own process, which does  *)
(* not survive the linking of a second file.                               *)
(***************************************************************************)
SourcesFit ==
  \/ Len(Sources) <= 1
  \/ Len(Sources) = 2 /\ IsPlain(1) /\ IsPlain(2)

HasScript == Sources # <<>> /\ SourceHead(1) = "info"
Said(op) == {k \in DOMAIN input.script : input.script[k].op = op}
Operands(op) == {input.script[k].of : k \in Said(op)}
Listed == UNION {input.files[d] : d \in Operands("addSourceDir") \cap Dir}

ScriptRuns ==
  /\ input.build
  /\ \A k \in DOMAIN input.script :
       LET call == input.script[k] IN
         /\ call.op = "addSourceDir" => call.of \in Dir
         /\ call.op = "verify" => \E j \in 1 .. k - 1 : input.script[j].op = "setMainFile"

\* A main file has to be in a source directory, which verify() does not ask.
MainsListed == Operands("setMainFile") \subseteq Listed

\* DEBUG_FLAG asks for headers, and these for a directory.
LastSaid(op) == IF HasScript /\ Said(op) # {} THEN <<input.script[Max(Said(op))].of>> ELSE <<>>
HeadersFail == LastSaid("setFlag") = <<"DEBUG_FLAG">> /\ OptionsAt("e") = {}

Linking == OptionsAt("c") = {} /\ LastSaid("shouldLink") \in {<<>>, <<"true">>}
NativeFiles ==
  IF HasScript THEN Listed \ Live
  ELSE {args[Sources[j]].name : j \in DOMAIN Sources}
LiveFiles == IF HasScript THEN Listed \cap Live ELSE {}
Idle == NativeFiles = {} /\ Linking

IncludesExist == \A k \in OptionsAt("I") : IsDir(args[k + 1])

(***************************************************************************)
(* A command line is compiled exactly if it is read, its sources fit, the  *)
(* script runs, its main file is listed, and it does not debug without a   *)
(* directory for headers; clang alone may refuse it then.                  *)
(***************************************************************************)
Readable == Faulty = {}
Scripted == HasScript => ScriptRuns /\ MainsListed /\ input.ret = 0
Acceptable ==
  /\ Readable /\ SourcesFit /\ Scripted /\ IncludesExist
  /\ Idle \/ (~ HeadersFail /\ Cardinality(LiveFiles) <= 1)

EndByRule ==
  /\ pc = "done" => Acceptable
  /\ pc \in Ended /\ Acceptable => pc = "done" \/ (pc = "refused" /\ words # <<>>)

(***************************************************************************)
(* clang++ takes the word behind -o as its output: the last name given on  *)
(* the command line, or else by the script; without one it is `-c`, or the *)
(* bitcode of a source, which then is overwritten and not linked.          *)
(***************************************************************************)
OutName ==
  IF OptionsAt("o") # {} THEN <<LastOf("o")>>
  ELSE IF LastSaid("setOutName") = <<>> THEN <<>>
  ELSE <<[kind |-> "word", name |-> LastSaid("setOutName")[1]]>>

OutputByRule ==
  pc = "clang" =>
    IF OutName # <<>> THEN words[2] = OutName[1]
    ELSE IF ~ Linking THEN words[2] = [kind |-> "short", name |-> "c"]
    ELSE words[2].kind = "bitcode" /\ words[2].name \in NativeFiles

(***************************************************************************)
(* The repository's own build.igc sets DEBUG_FLAG and a source directory,  *)
(* and buildtest.sh compiles it and runs the program: a project without    *)
(* emit options and with native files gets to clang once its script ran.   *)
(***************************************************************************)
NoHeadersAsked == {"emit-c", "emit-cpp"} \cap info.flags = {}
DebugBuildReachesClang ==
  pc = "refused" /\ info.native # {} /\ input.ret = 0 /\ NoHeadersAsked => words # <<>>
=============================================================================
