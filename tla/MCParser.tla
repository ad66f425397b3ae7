------------------------------ MODULE MCParser ------------------------------
EXTENDS ParserRules

MCLongest == 5
MCLongestFile == 3
MCVocabularies == {{"plus", "mul", "not", "question"}, {"int_lit", "comma", "openBracket", "connector"}}

\* Texts over the characters that meet in comments, strings, numbers, operators and words
MCTexts ==
  (SeqOf({"/", "*", "\n", "a"}, 6) \cup SeqOf({"\"", "\\", "n", "a"}, 5))
  \cup (SeqOf({"-", "1", "a", "x", "L", "=", ".", " "}, 4) \cup SeqOf({"=", "+", "-", "*", "!", "|", "&", ">", "<", ":", "?", "1"}, 3))
  \cup (SeqOf({"#", "A", "_", "1", " ", "'", "$", "/"}, 4)
        \cup {<<"int", " ", "f", "(", ")", "{", "}">>, <<"boolean", " ", "f">>, <<"true", "\n", ";">>, <<"DEBUG_FLAG", ";">>, <<"NO_ARRAY_CHECK", "a">>, <<"int", "a">>, <<"[", "]", ",", "%", "^">>})

\* Every list of pieces that may stand behind `return`, and that may be a function's body
Opening == <<T("int"), Name(<<"f">>), T("openParenth"), T("closeParenth"), T("openCurl")>>
Common == {<<Name(<<"a">>)>>, <<T("openParenth")>>, <<T("closeParenth")>>}
Operations == Common \cup {<<T("plus")>>, <<T("mul")>>, <<T("not")>>, <<T("question"), Name(<<"a">>), T("next")>>}
Accessors == Common \cup {Literal.s, <<T("comma")>>, Enclosed("openBracket", Literal.s, "closeBracket"),
                           <<T("connector"), Name(<<"a">>)>>, <<T("connector"), Name(<<"length">>)>>}
Statements ==
  {Step.s, <<T("if")>> \o InParens(<<Name(Variable)>>), <<T("else")>>, <<T("while")>> \o InParens(<<Name(Variable)>>),
   <<T("try")>>, Catch, <<T("final")>>, <<T("openCurl")>>, <<T("closeCurl")>>}
StructArray == <<Name(<<"S">>)>> \o Empties   \* there are none
ManyStatements ==
  {x.s : x \in Simple} \cup {<<T("public")>>, StructArray} \cup ({<<T(k)>> \o InParens(c.s) : k \in {"if", "while"}, c \in Conditions} \cup {ForHead(c) : c \in Conditions})
Containers ==
  << <<>>, <<T("class"), Name(<<"N">>), T("openCurl")>>, <<T("namespace"), Name(<<"M">>), T("openCurl")>>,
     <<T("interface"), Name(<<"I">>), T("openCurl")>> >>
Declared ==
  {FunctionTokens(<<>>), SubSeq(FunctionTokens(<<>>), 1, 4) \o <<T("semi")>>, <<T("int"), Name(<<"a">>), T("semi")>>, ClassVar.s,
   <<T("public")>>, <<T("final")>>, <<T("static")>>, <<T("abstract")>>} \cup {NestedTokens(t) : t \in {n \in Nested : n[1] \in {"class", "enum"}}}
Rare == {<<Name(<<"N">>)>> \o SubSeq(FunctionTokens(<<>>), 3, 6), <<T("semi")>>, EnumVar.s, Tail(PublicEnumVar.s), ClassArray.s, StructArray}
        \cup {NestedTokens(t) : t \in Nested}
        \cup {HeadTokens(x.s) \o Enclosed("openCurl", <<>>, "closeCurl") : x \in Signatures}
Lists(before, runs, most, behind) == [before |-> before, runs |-> runs, most |-> most, behind |-> behind]
MCFiles ==
  << Lists(Opening \o <<T("return")>>, Operations, 5, <<T("semi"), T("closeCurl")>>),
     Lists(Opening \o <<T("return")>>, Accessors, 5, <<T("semi"), T("closeCurl")>>),
     Lists(Opening, Statements, 5, <<T("closeCurl")>>), Lists(Opening, ManyStatements, 2, <<T("closeCurl")>>) >>
  \o [k \in 1 .. 4 |-> Lists(Containers[k], Declared, MCLongestFile, IF k = 1 THEN <<>> ELSE <<T("closeCurl")>>)]
  \o [k \in 1 .. 4 |-> Lists(Containers[k], Declared \cup Rare, 2, IF k = 1 THEN <<>> ELSE <<T("closeCurl")>>)]
MCTypes == [n \in {<<"C">>, <<"N">>} |-> "class"] @@ (<<"M">> :> "namespace") @@ (<<"I">> :> "interface") @@ (<<"E">> :> "enum") @@ (<<"S">> :> "struct")
=============================================================================
