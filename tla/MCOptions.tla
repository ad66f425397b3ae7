----------------------------- MODULE MCOptions ------------------------------
EXTENDS OptionsRules

Paths == {"a", "b", "c", "d", "e", "l", "m"}
LiveOnes == {"l", "m"}
Dirs == {"src", "lib"}
\* The order of the letters is kept, the codes are small enough for short command lines.
Codes == [I |-> 2, L |-> 3, c |-> 4, e |-> 5, o |-> 6]

Word(name) == [kind |-> "word", name |-> name]
Short(name) == [kind |-> "short", name |-> name]
Long(name) == [kind |-> "long", name |-> name]
UpTo(S, n) == UNION {[1 .. k -> S] : k \in 0 .. n}

InputOf(line, head, script, build, ret, listed) ==
  [args |-> line, head |-> head, files |-> [d \in Dirs |-> IF d = "src" THEN listed ELSE {"c"}],
   script |-> script, build |-> build, ret |-> ret]
Heads == [p \in Paths |-> CASE p = "a" -> "plain" [] p = "b" -> "info" [] p = "c" -> "plain" [] OTHER -> "absent"]

\* Command lines of up to four arguments
Arguments ==
  {Short("o"), Short("L"), Short("I"), Short("e"), Short("c"), Short("x"), Long("out"), Long("emit"),
   Long("emit-cpp"), Long("x"), [kind |-> "joined", name |-> "I"], [kind |-> "dash", name |-> ""],
   Word("a"), Word("src"), Word("d")}
Lines ==
  { InputOf(line, Heads, <<>>, TRUE, 0, {"a"}) : line \in UpTo(Arguments, 3) }
LongerLines ==
  { InputOf(<<Word("a"), Short("c")>> \o line, Heads, <<>>, TRUE, 0, {"a"}) :
      line \in [1 .. 3 -> {Short("o"), Short("I"), Long("emit"), Word("a"), Word("src")}] }

\* Up to five files of every kind, some named twice
Sourced ==
  { InputOf([k \in DOMAIN line |-> Word(line[k])], heads, <<>>, TRUE, 0, {"a"}) :
      line \in {<<"a", "b">>, <<"a", "b", "c">>, <<"a", "b", "a", "c">>, <<"a", "b", "c", "d">>, <<"a", "b", "c", "d", "e">>},
      heads \in [Paths -> {"plain"}] \cup
                {[p \in Paths |-> IF p \in DOMAIN h THEN h[p] ELSE "plain"] :
                   h \in [{"a", "b", "c", "d", "e"} -> {"plain", "info", "named", "empty"}]} }
  \cup { InputOf(<<Word("a")>>, [p \in Paths |-> h], <<>>, TRUE, 0, {"a"}) : h \in HeadToken }

\* A build script alone, with options before it
Calls ==
  {[op |-> "addSourceDir", of |-> d] : d \in {"src", "lib", "no"}} \cup
  {[op |-> "setMainFile", of |-> p] : p \in {"a", "c", "l"}} \cup
  {[op |-> "setOutName", of |-> "out"], [op |-> "setFlag", of |-> "DEBUG_FLAG"],
   [op |-> "setFlag", of |-> "OPTIMIZE_FLAG"], [op |-> "addLinkerFlag", of |-> "-lm"],
   [op |-> "shouldLink", of |-> "false"], [op |-> "verify", of |-> ""]}
Scripts ==
  { InputOf(options \o <<Word("b")>>, Heads, script, build, ret, listed) :
      options \in {<<>>, <<Long("out"), Word("x")>>, <<Short("e"), Word("x")>>, <<Short("c")>>},
      script \in UpTo(Calls, 3), build \in {TRUE}, ret \in {0}, listed \in {{"a"}, {"a", "c"}, {"l"}, {"a", "l", "m"}} }
  \cup { InputOf(<<Word("b")>>, Heads, script, build, ret, {"a"}) :
           script \in UpTo(Calls, 2), build \in BOOLEAN, ret \in {0, 1} }

WellFormed(inputs) == {in \in inputs : in \in Input}
All == WellFormed(Lines) \cup (WellFormed(LongerLines) \cup (WellFormed(Sourced) \cup WellFormed(Scripts)))
=============================================================================
