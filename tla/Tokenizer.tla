----------------------------- MODULE Tokenizer ------------------------------
(***************************************************************************)
(* Tokenizer::tokenize (tokenizer.cpp): the text of a file is read         *)
(* character by character into the tokens the parser gets.  One action is  *)
(* one turn of the loop.                                                   *)
(*                                                                         *)
(* `=`, `+`, `-` and `*` alone consume once too often and take the         *)
(* character behind them with them; a dash before a digit is always the    *)
(* sign of a literal.                                                      *)
(*                                                                         *)
(* An element of a text is a character, except that the letters of a       *)
(* keyword or of a flag are one.  Lines and columns are not modelled.      *)
(***************************************************************************)
EXTENDS Integers, Sequences, FiniteSets, SequencesExt, FiniteSetsExt

CONSTANT Texts   \* the texts of files explored

Lower == <<"a", "b", "c", "d", "e", "f", "g", "h", "i", "j", "k", "l", "m",
           "n", "o", "p", "q", "r", "s", "t", "u", "v", "w", "x", "y", "z">>
Upper == <<"A", "B", "C", "D", "E", "F", "G", "H", "I", "J", "K", "L", "M",
           "N", "O", "P", "Q", "R", "S", "T", "U", "V", "W", "X", "Y", "Z">>
Keyword ==
  {"byte", "short", "int", "long", "ubyte", "ushort", "uint", "ulong", "float", "double", "boolean", "bool",
   "else", "break", "continue", "default", "case", "void", "return", "use", "using", "include",
   "public", "private", "protected", "new", "null", "struct", "class", "namespace", "enum", "interface",
   "abstract", "extends", "implements", "override", "instanceOf", "static", "final",
   "try", "catch", "throw", "if", "for", "while", "switch"}
\* The flags of a build, by name, are words for their numbers.
FLAGS == [DEBUG_FLAG |-> <<"1">>, OPTIMIZE_FLAG |-> <<"2">>, NO_ARRAY_CHECK |-> <<"4">>, NO_POINTER_CHECK |-> <<"8">>]
REPLACE == [true |-> <<"1", "Z">>, false |-> <<"0", "Z">>] @@ FLAGS
IGEL_TOKENS == [k \in Keyword |-> CASE k = "boolean" -> "bool" [] k = "using" -> "use" [] OTHER -> k]

Digit == {"0", "1", "2", "3", "4", "5", "6", "7", "8", "9"}
Alpha == ToSet(Lower) \cup ToSet(Upper) \cup Keyword \cup DOMAIN REPLACE
InNumber == Digit \cup {".", "x", "a", "b", "c", "d", "e", "f", "A", "B", "C", "D", "E", "F"}
InWord == Alpha \cup Digit \cup {"_"}
Space == {" ", "\n", "\t"}
ESCAPES == [b |-> <<"BS">>, t |-> <<"\t">>, n |-> <<"\n">>, v |-> <<" ", "VT">>, f |-> <<"\f">>, r |-> <<"\r">>] @@
           ("\"" :> <<"\"">>)

\* The operators of two characters, and what each character means alone
Pair ==
  <<"!", "=">> :> "notequal" @@ <<"!", "|">> :> "xor" @@ <<">", "=">> :> "bigequal" @@
  <<"<", "=">> :> "smallequal" @@ <<"=", "=">> :> "equal" @@ <<"&", "&">> :> "and" @@ <<"|", "|">> :> "or" @@
  <<"+", "=">> :> "plus_eq" @@ <<"+", "+">> :> "inc" @@ <<"-", "=">> :> "sub_eq" @@ <<"-", "-">> :> "dec" @@
  <<"-", ">">> :> "connector" @@ <<"*", "=">> :> "mul_eq" @@ <<"/", "=">> :> "div_eq" @@ <<":", ":">> :> "dConnect"
Single ==
  "!" :> "not" @@ ">" :> "big" @@ "<" :> "small" @@ "=" :> "eq" @@ "&" :> "bitAnd" @@ "|" :> "bitOr" @@
  "+" :> "plus" @@ "-" :> "sub" @@ "*" :> "mul" @@ "/" :> "div" @@ "?" :> "question" @@ ":" :> "next" @@
  ";" :> "semi" @@ "," :> "comma" @@ "(" :> "openParenth" @@ ")" :> "closeParenth" @@ "{" :> "openCurl" @@
  "}" :> "closeCurl" @@ "[" :> "openBracket" @@ "]" :> "closeBracket" @@ "%" :> "mod" @@ "^" :> "pow" @@
  "." :> "connector"
Swallows == {"=", "+", "-", "*"}

\* Where a keyword is one element its letters are not taken one by one, nor is a flag's name up to
\* its underscore.
ASSUME TextAssumption ==
  \A t \in Texts : \A k \in 2 .. Len(t) :
    t[k] \in Keyword \cup DOMAIN REPLACE => t[k - 1] \notin InNumber \cup {"\\", "'"} \cup (IF t[k] \in DOMAIN FLAGS THEN {"#"} \cup InWord ELSE {})

VARIABLES
  text,
  m_I,        \* the next element of the text, from 1
  comment,    \* "no", "line" or "block"
  m_tokens,
  pc

tokVars == <<text, m_I, comment, m_tokens, pc>>

Tok(type, value) == [type |-> type, value |-> value]
peak(n) == IF m_I + n \in DOMAIN text THEN text[m_I + n] ELSE "end"
Reading(c) == pc = "read" /\ m_I <= Len(text) /\ comment = c
InText == Reading("no")

StopReading(how) == pc' = how /\ UNCHANGED <<text, m_I, comment, m_tokens>>

\* n characters are consumed; behind the end at() throws.
Take(n, tokens) ==
  IF m_I + n > Len(text) + 1 THEN StopReading("crashed")
  ELSE /\ m_I' = m_I + n
       /\ m_tokens' = m_tokens \o tokens
       /\ UNCHANGED <<text, comment, pc>>

\* err() tells the place of the last token, which there need not be.
Refuse == StopReading("refused") \/ (m_tokens = <<>> /\ StopReading("crashed"))

\* The end of the run of S that begins at k
EndOf(k, S) ==
  LET others == {j \in k .. Len(text) : text[j] \notin S} IN
  IF others = {} THEN Len(text) + 1 ELSE Min(others)
From(k, end) == SubSeq(text, k, end - 1)

-----------------------------------------------------------------------------
CommentBegins ==
  /\ InText /\ peak(0) = "/" /\ peak(1) \in {"/", "*"}
  /\ comment' = IF peak(1) = "/" THEN "line" ELSE "block"
  /\ m_I' = m_I + 1
  /\ UNCHANGED <<text, m_tokens, pc>>

CommentEndsAtStar ==   \* variant: the slash behind the star is not looked at
  \/ comment = "line" /\ peak(0) = "\n"
  \/ comment = "block" /\ peak(0) = "*"

CommentEnds ==
  \/ comment = "line" /\ peak(0) = "\n"
  \/ comment = "block" /\ peak(0) = "*" /\ peak(1) = "/"

SkipStuck ==   \* variant: the character is looked at and left
  /\ (Reading("line") \/ Reading("block"))
  /\ IF CommentEnds THEN comment' = "no" /\ m_I' = m_I + (IF comment = "block" THEN 2 ELSE 1)
     ELSE comment' = comment /\ m_I' = m_I
  /\ UNCHANGED <<text, m_tokens, pc>>

Skip ==
  /\ (Reading("line") \/ Reading("block"))
  /\ IF CommentEnds THEN comment' = "no" /\ m_I' = m_I + (IF comment = "block" THEN 2 ELSE 1)
     ELSE comment' = comment /\ m_I' = m_I + 1
  /\ UNCHANGED <<text, m_tokens, pc>>

Width(c) ==   \* what an operator of one character consumes
  IF c \in Swallows THEN 2 ELSE 1

Operator ==
  /\ InText /\ peak(0) \in DOMAIN Single
  /\ ~ (peak(0) = "/" /\ peak(1) \in {"/", "*"})
  /\ ~ (peak(0) = "-" /\ peak(1) \in Digit)
  /\ CASE <<peak(0), peak(1)>> \in DOMAIN Pair -> Take(2, <<Tok(Pair[<<peak(0), peak(1)>>], <<>>)>>)
       [] peak(0) = ":" /\ peak(1) = "end" -> StopReading("crashed")
       [] OTHER -> Take(Width(peak(0)), <<Tok(Single[peak(0)], <<>>)>>)

Number ==
  /\ InText
  /\ peak(0) \in Digit \/ (peak(0) = "-" /\ peak(1) \in Digit)
  /\ LET first == IF peak(0) = "-" THEN m_I + 1 ELSE m_I
         run == EndOf(first + 1, InNumber)
         end == IF run <= Len(text) /\ text[run] \in Alpha THEN run + 1 ELSE run
     IN Take(end - m_I, <<Tok("int_lit", From(m_I, end))>>)

\* What stands between quotes, up to the one that closes it
Quoted ==
  LET rest[k \in Nat] ==
        CASE k > Len(text) -> [end |-> Len(text) + 2, value |-> <<>>]
          [] k <= Len(text) /\ text[k] = "\"" -> [end |-> k + 1, value |-> <<>>]
          [] k < Len(text) /\ text[k] = "\\" ->
               [end |-> rest[k + 2].end,
                value |-> (IF text[k + 1] \in DOMAIN ESCAPES THEN ESCAPES[text[k + 1]] ELSE <<text[k + 1]>>)
                          \o rest[k + 2].value]
          [] OTHER -> [end |-> rest[k + 1].end, value |-> <<text[k]>> \o rest[k + 1].value]
  IN rest[m_I + 1]

Str ==
  /\ InText /\ peak(0) = "\""
  /\ Take(Quoted.end - m_I, <<Tok("str", Quoted.value)>>)

CharLit ==
  /\ InText /\ peak(0) = "'"
  /\ IF peak(1) \in {"'", "end"} THEN Take(2, <<>>) ELSE Take(3, <<Tok("char_lit", <<peak(1)>>)>>)

Lowered(c) == IF c \in ToSet(Upper) THEN Lower[CHOOSE k \in DOMAIN Upper : Upper[k] = c] ELSE c

\* Words take the blanks behind them with them.
Info ==
  /\ InText /\ peak(0) = "#"
  /\ LET end == EndOf(m_I + 1, InWord \ {"_"})
         word == From(m_I + 1, end)
     IN Take(EndOf(end, Space) - m_I, <<Tok("info", [k \in DOMAIN word |-> Lowered(word[k])])>>)

WordToken(word) ==
  CASE Len(word) = 1 /\ word[1] \in Keyword -> Tok(IGEL_TOKENS[word[1]], <<>>)
    [] Len(word) = 1 /\ word[1] \in DOMAIN REPLACE -> Tok("int_lit", REPLACE[word[1]])
    [] OTHER -> Tok("id", word)

Word ==
  /\ InText /\ peak(0) \in Alpha \cup {"_"}
  /\ LET end == EndOf(m_I, InWord)
     IN Take(EndOf(end, Space) - m_I, <<WordToken(From(m_I, end))>>)

Blank == InText /\ peak(0) \in Space /\ Take(1, <<>>)

Unknown ==
  /\ InText
  /\ peak(0) \notin DOMAIN Single \cup InWord \cup Space \cup {"\"", "'", "#"}
  /\ Refuse

EndOfText ==
  /\ pc = "read" /\ m_I > Len(text)
  /\ IF comment = "block" THEN Refuse ELSE StopReading("parse")

Tokenize ==
  \/ CommentBegins \/ Skip \/ Operator \/ Number \/ Str \/ CharLit \/ Info \/ Word \/ Blank
  \/ Unknown \/ EndOfText
=============================================================================
