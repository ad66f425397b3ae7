# CIgelCompiler, verified

CIgelCompiler translates the Igel language to LLVM. It is one sequential process: the command line
and, if there is one, a build script are turned into a list of source files, every file is tokenised,
indexed and parsed, and one code generator emits LLVM IR for all of them, writes bitcode for the
native ones and hands the live ones to a just-in-time compiler. There are no threads, no messages and
nothing is persisted that is read again. What is hard is the order of calls on shared mutable state:
one `Generator` with one "current" module, handles to IR objects cached across files, a builder whose
insertion point every statement moves, flags and stacks that a nested statement must leave as it found
them.

## 1. The parts of the system

| part | state | operations | works with | what makes it correct |
|---|---|---|---|---|
| `main.cpp` | - | runs the phases | OptionsParser, LangMain | |
| OptionsParser (`CompilerInfo/OptionsParser.*`) | `extFiles`, `cmp`, `params`, `m_opts` | option loop, compilation and call of the build script, `modify` | JITFileCompiler, Info | every file ends in exactly one of build script, native, live; options take their argument; one `SrcFile` object per file |
| build-script interface (`Info.h`) | `Info`, `InternalInfo` | `addSourceDir`, `addIncludeDir`, `setMainFile`, `setFlag`, `verify` | filled by the build script, read by `modify` | |
| file tables (`CompilerInfo/InfoParser.*`) | `SrcFile`, `Header`, `Directory`: types, functions, `_using`, includes | `findClass`, `findFunc`, ... : own table, includes, used files | every later phase | a lookup ends; the same file is one object |
| LangMain, FileCompiler, JITFileCompiler (`langMain/langMain.hpp`, `fileCompiler.hpp`) | the lists of files | phases over all files, linking | everything | the order of the phases; a module is shipped once, complete, for the right file |
| Tokenizer (`tokenizer.*`) | position, tokens | `tokenize` | Indexer, Parser | |
| Indexer, PreParser (`langMain/parsing`) | token index, `m_super` | register the types of a file, `using`, includes | file tables | a type is found under the name it is used by; native files do not use live ones |
| Parser (`langMain/parsing/Parser.*`) | token index, modifiers, `m_super` | recursive descent, precedence climbing | AST of types.h | operators nest by precedence; nothing is lost on a failed alternative |
| Generator (`langMain/codeGen/Generator.*`) | `modules`, `m_module`, `m_file`, `m_vars`, `staticInit`, the stacks `after`, `next`, `unreach`, ... | `create`, `setup`, `generateSigs`, `generate`, `write`, ... | AST | custody of modules; stacks balanced |
| AST and type code generation (`types.h`, `codeGen/types.cpp`) | IR handles and flags in every type; `lastUnreachable` | `generateSig`, `generatePart`, `generate` per type and statement | Generator, file tables | each class is emitted once, in one module, after its ancestor; every block ends in one terminator |
| Mangler (`util/Mangler.*`) | - | names of functions and types | Parser, AST | different signatures, different names |
| clang import (`cxx_extension`) | - | headers to types and functions | clang (external) | |
| run-time library (`srcLib`) | arrays, strings, exceptions | `newArray`, string operations | generated code | |

What is hard to test here is listed, line by line, under `hazards` in `PROJECT.json`.

## 2. The modules

Eight families, each with the state of one part of the compiler, an `MC` module with the instances TLC
explores, and, for six of them, modules of proofs. They follow a compilation from the command line to
the linked program: command line, reader, front end, driver, and the four parts of code generation.

| family | module | models |
|---|---|---|
| command line | `Options` | `OptionsParser`, `Info` as a build script fills it, `LangMain::compile` and `exec` around the code generation |
| | `OptionsRules` | which command lines and scripts get through, and what clang is told, said of the input |
| | `MCOptions` | instances |
| | `OptionsProofs` | proofs: the separation of build files, how the process ends, what clang is told |
| reader | `Tokenizer` | `Tokenizer::tokenize`, one action per turn of its loop |
| | `Parser` | the recursive descent from `parseProg` to `parseTerm`; EXTENDS `Tokenizer` |
| | `ParserRules` | which text is which tokens, and a grammar that lists the sentences of each length with their trees |
| | `MCParser` | instances |
| driver | `Generator` | the module store: `create`, `setup`, `generateSigs`, `generate`, `write`, the callers that take a module out of it |
| | `LangMain` | `LangMain::compile` and `JITFileCompiler` as a loop over jobs; EXTENDS `Generator` |
| | `CompileJob` | the abstract job: every file declared before any is defined, shipped once at most |
| | `MCLangMain` | instances |
| | `LangMainProofs` | proofs: the custody of modules and what ships; layers, initialisers, ends of jobs, the refinement |
| statements | `StmtGen` | `IgFunction::genFunc` and the `generate` of every statement with statements in it |
| | `StmtRules` | which bodies compile, said of the syntax tree |
| | `StmtExec` | the generated blocks and the source executed side by side |
| | `MCStmtGen`, `MCStmtExec` | instances |
| | `StmtGenProofs`, `StmtFlagProofs` | proofs: the stacks; the flag and the blocks |
| classes | `TypeEmission` | `Class::generateSig`, `generate`, `getClassInfos`, constructors, `throw`, `catch`, `new`, over several files |
| | `TypeRules` | which projects compile and link, said of the project |
| | `MCTypeEmission` | instances |
| | `TypeEmissionProofs`, `TypeOrderProofs` | proofs: references across modules; what is emitted when, and what links, in ordered projects |
| objects | `ObjectModel` | layout, overriding, tables, what constructors store and what a call finds |
| | `ObjectRules` | which programs get sound objects and calls, said of the program |
| | `MCObjectModel` | instances |
| | `ObjectProofs` | proofs: layout, the erasing loop, tables, constructors, calls |
| expressions | `ExprGen` | variables, literals, calls, `new`, casts, arithmetic and assignments in one function |
| | `ExprRules` | the types an expression has by its text, and where the generator keeps to them |
| | `MCExprGen` | instances |
| front end | `TypeIndex` | the tables of types: Indexer, PreParser and Parser, the names in `extends` and `implements` |
| | `TypeIndexRules` | which projects are accepted, what shares an object and what names mean, said of the text |
| | `MCTypeIndex` | instances |
| | `TypeIndexProofs` | proofs: names and containers of types; the tables |

Every definition of a module that stands for code is in `PROJECT.json` under `map`, with its lines. The
operators marked `variant:` stand beside a definition and differ from it as a plausible mistake would;
no model uses them, `PROJECT.json` (`mutants`) says which property each of them breaks.

### 2.1 Driver: `Generator`, `LangMain`

| model | code |
|---|---|
| `modules`, `m_module`, `m_file` | the members of that name; a module is a record of the file it was created for (`of`), whose declarations (`sigs`) and whose bodies (`bodies`) it has |
| `m_contxt`, `setupFlag`, `m_vars`, `staticInit`, `initBlock` | the shared LLVM context (owned or moved to the JIT), the flag of `setup`, the stack of variable layers, the function `_GLOBAL_` of static initialisers and the instructions in its block |
| `job` | the lists of files a call of `compile` is given: all, native, live, those linked to the JIT, the options `--emit` and live linking, the files with static variables |
| `pc`, `pos` | the loop the driver is in, and the file of the loop |
| `written`, `added` | bitcode handed to the callback and modules handed to the JIT, in order |

One action is one call of the driver on one file (`PreGenCreate`, `NativeSetup`, `NativeGenerate`,
`NativeWrite`, `LiveSetup`, `AddModule`, ...). The contents of a module are abstract: declarations and
bodies of files. `setup` puts the module still held under the *new* file before it takes the new file's
own; whether that ever files one under the wrong name depends on each caller, which is what `Custody` is
about.

### 2.2 Statements: `StmtGen`, `StmtExec`

A body is a tree of statements: `do` (anything that emits one instruction and changes nothing else),
`call`, `return`, `throw`, `break`, `continue`, labels, scope, if, while, for, switch, try. The
recursion of `generate` is an explicit stack, `frames`: every activation has its statement, its stage,
the blocks it made, and, for the properties, the stacks as it found them. One action is what a
`generate` does between two calls of other statements. `code` is the sequence of basic blocks, `ip` the
insertion point of the one builder, `lastUnreachable` the static flag, and `after`, `next`, `switch`,
`catches`, `m_vars`, `unreach` are the generator's stacks of the same names. genFunc's end (the appended
`ret void`, the message about a missing return, `verifyFunction`) decides `status`.

`StmtExec` lets an accepted function run: `at` is a place in the blocks, `todo` what the *source* has
still to do. They take a step together when they agree on the next visible event.

### 2.3 Classes: `TypeEmission`

A project has files in an order, `using` between them, classes with a superclass, a kind of constructor
(implicit, explicit, with parameters, one that calls `super(...)`), and bodies: one method per class and
one function per file, of `new`, `throw`, `catch`, `return`, without what would follow a jump (`StmtGen`
has that). Because generating one thing generates
others in its middle, what is left to do is a stack of tasks, `todo`. The state is what the code caches:
in which file's module a class's signature, infos, methods and constructors were made (`sigIn`, `infos`,
`methodIn`, `ctorIn`), what is defined (`globals`), what refers across modules (`refs`), and for the
properties the statements that were dropped and the objects nobody constructs.

Nothing in the compiler keeps a class from extending itself, directly or in a circle. `generateSig` and
`generatePart` mark a class before they go on to its superclass and come to an end; `getFuncsRec`, which
`generatePart` calls next, has no mark and does not: `SigsCrash`.

### 2.4 Objects: `ObjectModel`

A program has classes in a hierarchy with interfaces, fields (one or two units of four bytes, static or
not) and methods (name, arity, plain, override or abstract). The compile-time state is `elements`
(layout), `rec` (`getFuncsRec`), the list `full` that `Class::generate` erases overrides from *while it
walks it* - with `size`, the end of the vector, and `index`, the place of the range-for, whose end does
not move - `overides`, and `tables`. Then a constructor chain stores into `object`, memory unit by unit,
and a call reads it back. `CallOutcome` is what becomes of a call: it `runs` a method, is a `pure`
virtual call, runs whatever lies in the memory it reads (`junk`), is `unknown` or `refused` by the
compiler, or makes the compiler follow a null pointer (`crash`). A program's types are not below
themselves (`Founded`; the recursions over superclasses would not end), and the methods of one type with
one name differ in arity (`Told`; the mangler tells them apart by nothing else here).

### 2.5 Front end: `TypeIndex`

A project is a list of files; a file is the list of files it uses and a text of heads of types and
closing brackets, which is all that decides how types are registered. `pass`, `file` and `at` say which
of the three readers reads what: each file is indexed and then pre-parsed before the next, and all are
parsed after that. `object` is the heap of types in the order the Indexer allocates them (kind, name,
`cont` for `contType`, what it extends and implements, and `parsed`, the declarations read into it);
`nameTypeMap`, `unmangledTypeMap` and `types` are the tables of a file, `indexSuper`, `preSuper` and
`parserSuper` the three `m_super`. Types in the tables may be `Null`, as `operator[]` makes them. The
ends are `accepted`, `error` (a message), `crash` (a null pointer, or a search without end) and
`endless` (`mangleTypeName` of a type that contains itself). That can come about: an enum of the same
name hides a class from the PreParser, what is nested in the class then becomes part of a struct, and the
Parser ties a knot of the two. Where every name stands for one kind of type in its file (`OneKind`), it
cannot. `copies` says whether the file table holds
the compiled files (command line) or copies that nobody indexes (`modify`, for build scripts).

### 2.6 Command line: `Options`

An input is the arguments by kind (an option with its letter apart or joined to more, a long option, a
dash alone, a word), the first token of each file they name, and what the build script calls. `pc` and
`i` say which loop is at which element: the option loop, the separation of the files of the command line
into build files and others, the calls of the script, `modify`, the options one by one as they are
applied to what it left, the command for clang. `store` and
`size` are the memory and the length of `cmp.files`: `erase` moves elements down, the range-for goes on
to where the end was. `info` is the build script's `Info` and what `modify` makes of it; `words` the
command for clang. The code generation in between is taken to accept the files (the other families say
when it does); what the linking of live files does is the end of `LangMain`'s job for them.

### 2.7 Reader: `Tokenizer`, `Parser`

A text is a sequence of characters, except that a keyword is one element, since the loop takes words as
wholes; so are the names of the flags of a build (`FLAGS` of `Info.h`), which the constructor merges
into `REPLACE` as words for their numbers. `m_I` is the place of the reader, `comment` the state of a
comment, `m_tokens` what it has made; what stands in a literal or word is read in one turn. The parser
has no state between calls but the place in the tokens, so its methods are operators from a place to
what they return *and the place they leave*: a method that returns nothing may have moved on, and its
caller then tries something else from there. `file` is what `parseProg` made: functions, types with
their members and what they list as contained. A file ends `done`, `refused` by a message or an
exception, or `undefined`: `parseEnum` runs off its end behind an access modifier and two names of which
the second is no enum's, `parseType` behind `abstract` and a name, and neither returns even an empty
value; what the compiler does then is not said.

### 2.8 Expressions: `ExprGen`

A program is a function: parameters, a type of the result, and statements without branches. `todo` and
`vals` together are the stack of the activations of `generate`: what is still to do and what values they
hold. `typeNameRet` and `m_vars` are the generator's members of those names. A value has its LLVM type,
the sign its node has, what the parser may have read for it earlier (`seen`, both values where nothing
had set it), what `typeNameRet` said when it was made, and, since without branches generation and
execution have one order, what it is when the code runs. `status` is how `genFunc` ends: `accepted` or
`refused` by a message or the verifier, or `undefined` (a vector read behind its end, a null variable,
constants of two types, which only an assertion of LLVM stops).

## 3. What is checked

The compiler is one thread, and takes input only at its start, so the nondeterminism of every model is
in its initial states (all jobs, bodies, texts, projects or programs of a family) and in what undefined
reads may yield. Deadlock is checked in every run: a state in which the model can do nothing but is not
at one of the ends the code has (done, refused, crashed, undefined) is an error.

Liveness is checked where a loop could fail to end: `Terminates` of the reader, a loop whose every turn
has to take something from the text. The fairness it needs is that of one thread that runs: weak
fairness of a turn of the tokenizer's loop (`FairSpec` in `Parser`), nothing about what follows it. In
the other families every action takes something off a finite input or stack, so that their behaviours
are finite as TLC finds their graphs to be: deadlock freedom then says that each reaches an end.

Many properties have the form "the compiler accepts it *iff* the input obeys these rules", the rules
being said of the input alone. The code nowhere states them: they are the joint effect of flags, caches
and orders, and the model checker is what showed them to be complete. Where a rule is odder than the
language means it to be, that oddity is the code's.

### Runs

| run | properties | shows | bounds |
|---|---|---|---|
| `pipeline` | TypeOK, Custody, Shipped, NativeScopeClean, StaticsByRule, EndsByRule, ModulesLeaveOnlyToTheJit, ImplementsCompileJob | for every job: no module is lost or filed under another file; what ships is complete and in order; files are rejected for static variables exactly in the cases stated; linking destroys modules exactly if two files are linked | three files: two native ones in front of a live one, or the reverse, are the longest chain in which one file's leftovers reach the next but one; every order, split, option, and set of files with statics, and the build-script jobs |
| `gen` | TypeOK, StackDiscipline, FlagSound, AcceptedByRule, Agree | a statement leaves the stacks as it found them; nothing is put behind a jump while the flag is clear; exactly the bodies that satisfy `Compiles` are accepted; an accepted function does what its source does, wherever `Kept` does not say that meaning is lost | each construct inside each other to a depth of three, before and after a simple statement, void and not: the flag passes only between neighbours and from child to parent; executions of any length |
| `verifier_content` | VerifierContent (violated) | genFunc's verifier finds mistakes of the generator in ordinary programs | as `gen` |
| `no_return` | NoReturnReported (violated) | "No return statement" is said of functions that return on every path | as `gen` |
| `exprs` | TypedByRule, MeantByRule, HeldByRule | which functions of expressions compile; which overload a call reaches, with which sign a division is made, which casts look at the object; what variables hold | two classes, one below the other, an interface, nine overloads that differ in one parameter; every expression of one operation over fifteen leaves, those of two operations where the inner one is a call, an object or a sum, and up to three statements with a scope: what is stale comes from the operand, the call or the statement before |
| `emission` | TypeOK, AcceptedByRule, LinkedByRule, StaleIsSeen, CompleteIfOrdered, SilentByRule | which classes files can share; what a class generated inside another's body does to that body; which `new` constructs nothing; when the search for a name ends | a class and a subclass anywhere in three files, with every constructor; two classes in either order in one or two files, either extending the other or none, with methods of up to two statements; two classes that extend themselves or each other; every `using` of three files that the parser resolves |
| `manual_super` | ManualSuperNeeded (violated) | a superclass without default constructor can stay unconstructed | the first family of `emission` |
| `objects` | OverridesTaken, SlotsKept, CompiledByRule, WrittenByRule, Dispatched | which overrides are taken, which calls are compiled and what they run; when objects are whole, and what a call of an interface's method runs | three classes in a row, up to five methods, two of which can stand directly behind an override, with overloads, redeclarations and abstract ones; a class and a subclass, two interfaces of which one may extend the other, up to three fields of two widths, static or not |
| `type_index` | TypeOK, AcceptedByRule, SharedByName, ReferencesByRule, EveryTypeReset, NamesSettled | which projects the front end accepts; what its tables then hold; what names mean | one file with three declarations of any kind under two names, side by side or nested; two files with up to two each; the same with a third type that refers to them, before, behind, or in a file that uses theirs, through dotted names, copies, circles and live files; nested types of which an enum hides the outer one |
| `options` | SeparatedByRule, EndByRule, OutputByRule | which files of a command line are run in the compiler, which command lines and scripts get through, and what clang takes for its output | every line of up to three of fifteen arguments and longer ones behind a file; up to five source files, as what is passed over alternates; scripts of up to three calls. The codes of the options keep their order but are small, so that lines are both shorter and longer than they |
| `debug_build` | DebugBuildReachesClang (violated) | the repository's own build script stops before clang | the inputs of `options` |
| `reader` | TokensByRule, ParsedByRule, DeclaredByRule, Terminates | a text is read as its one division into longest pieces; a body as the grammar reads it, a file as what it declares; what has no reading is refused or, exactly in the two cases named in 2.7, undefined; reading ends | every text of up to six characters over those that meet in comments, five in strings, four in numbers and words; every list of up to five pieces of an expression or a body, so that three operators meet and an `else` has two `if`s to choose from; three pieces of a file or type, so that modifiers stand before what they do not fit: among them `abstract` before a constructor and a variable, and `public` before a variable of each kind of type |

Two classes are enough for emission because a cache holds one module per class and one superclass link;
a third is a second copy of the same relation. Three are used for overriding, because the effect of the
erasing loop on a middle class shows only in the class below it.

### The rules in words

* *`Compiles` (StmtRules).* A void body must not end in a jump, any other must; the body of a loop must
  not end in a jump; each branch of an if sets the flag exactly if it ends in a jump; a switch has one
  label, first, and its code ends in a jump; a try has one handler, for a body that ends in a jump.
* *`Kept` (StmtExec).* Lost without a message are: what follows a switch in its scope, and its cases
  from the second on; the outer handlers of a try in a try; the handlers of a try for exceptions of
  functions called in it. Everywhere else source and code agree event by event.
* *`Ordered`, `Acceptable` (TypeRules).* A project is ordered if every file is compiled once, every
  class declared once, and what a class extends, throws or catches is declared before it. Of those, the
  compiled ones are those in which no class extends itself, each class's infos are used by at most one
  foreign file, its implicit constructor called from at most one foreign file, explicit ones from none,
  constructors fit, and no file with a throw reaches a circle of `using`. Projects are restricted to
  those whose names the parser resolves.
* *`Taken`, `Regular` (ObjectRules).* The loop does not look at the method directly behind an override
  it took, unless that is the last of the list. If the overrides of a name are all looked at and agree in
  arity, and the name is declared once, a virtual call runs the most derived one.
* *`Sound` (ObjectRules).* An object is whole if in each of its classes every field is as wide as the
  one declared at its place (static fields shift places) and there are no more tables than pointers; a
  subclass of a class with an interface has more. A call that goes through an interface's table runs
  the method of the static class, never the override of a subclass.
* *`Accepts` (TypeIndexRules).* In a file, all declarations of one plain name are read into one object:
  that of the last one that no enum comes before, in any file. There has to be such a one, all have to
  be of its kind, none may enclose another, and if a class, namespace or interface of the name is nested,
  that must be the last. So a type behind an enum, two nested classes of one name, or a class in one of
  its own name do not compile, while two structs of one name are merged without a message. A nested
  class or interface goes by its full name, a nested struct or enum by its plain one; since interfaces
  can be implemented by plain names only, nested ones cannot be. With a build script, names of used
  files are never found.

* *`TypedByRule` (ExprRules).* Of functions in which every argument is what it is taken for (objects
  whose class is told, before numbers whose sign is known) exactly those compile that give every call an
  overload with the very types of its arguments, every constructor numbers only, every new object variable
  an object of its own class or null, and every operation operands of one width; floating numbers cannot
  be compared. Of the others those may compile in which the last object *named* in the initialiser,
  whatever it is there for, is of the variable's class: `C c = f(d)` if d is a C, never `C c = f()`.
* *`MeantByRule` (ExprRules).* A call reaches the overload for its types and a division has the sign of its
  operands if their signs are known in time: of literals, of variables, of results that are signed. A
  result counts as signed whatever it is, a field has whatever sign memory held, a division in an
  assignment is always signed. A cast to a class never looks at the object, and `instanceOf` a class is
  true: the variable that names the source is the one that was just set to the target.
* *`HeldByRule` (ExprRules).* A variable holds a value of its type as long as every statement stored one:
  nothing compares the two. `let` and assignments store any width.
* *`Acceptable` (OptionsRules).* An option that takes a value takes it only on a line longer than its
  character's code. All files of a command line are first compiled and run in the compiler; of plain files
  that follow one another every second is passed over and stays such a file, unless it is the last; since
  linking two ends the process, two plain files, or a build script alone, are all that gets through. A
  script's main file has to be in a source directory; with `DEBUG_FLAG` there has to be a directory for
  headers. Without a name for the output clang takes the word behind `-o` for it, which is `-c` or the
  bitcode of a source.
* *Texts (ParserRules).* Each text has one division into longest pieces, or none. `=`, `+`, `-` and `*`
  take the character behind them with them unless the two are an operator; a dash before a digit is a
  sign; a block comment may close with the star that opened it; the last character of a literal is its
  type, also of a hexadecimal one.
* *Bodies (ParserRules).* Operators bind by precedence and to the left, `?:` as well; `!` negates all
  that follows on its level; `(name)` is a cast; of a chain of accesses the first and the last link
  stay; a call as a statement needs its `;` in the step of a `for` too; `final` may stand before any
  statement, and an access modifier at the end of a block. A variable of an enum needs two names, one of
  a struct is never an array's element. With an access modifier a variable may be primitive or an array,
  or the name of its enum stands behind any other name; a `public` variable of a class, a struct or,
  written like others, an enum has no defined result.
* *Files (ParserRules).* A later function with the same parameters replaces an earlier one; modifiers
  before a type are lost, and where a function may stand, a nameless one is listed for it; an `abstract`
  class inside a class is refused, and so is a constructor with a modifier, except that `abstract` before
  it, or before a variable, has no defined result; nor has a field as a variable above.

### Findings

Four runs refute something the compiler says of itself; `findings` in `PROJECT.json` quotes the lines.
`verifier_content`: `return;` in a void function ends in the verifier's dump instead of a program.
`no_return`: an if whose branches both return is followed by the message that there is no return.
`manual_super`: the check for a superclass without default constructor is only in the branch where the
compiler writes the constructor itself. `debug_build`: `m_info->flags & EMIT_CPP != 0` is `flags & 1`, so
the debug flag of the repository's own `build.igc` asks for headers, which without `--emit` have no
directory, and the compiler stops before clang.

## 4. What is proved

All theorems are for every value of the constants: any set of files and jobs, any set of statement trees,
any project. They use the `ASSUME`s on constants in the component modules (types of the inputs, distinct
null values, finitely many files and classes, and in `StmtGen` that a statement's parts are statements),
which TLC evaluates in every run. No theorem has other hypotheses: where a property holds of some inputs
only, that condition is part of the property, and of the run that checks it.

**`LangMainProofs`.** `TypeCorrect`: `TypeOK` alone is not inductive, since modules are indexed by
`m_file`; `TypeInv` adds that `m_file` is a file wherever the loops need one and that a module is held
whenever `write` is next. `CustodyCorrect`: the invariant says for each place in the loops whether a
module is held and by whom; `setup` files a held module under the new file, so the heart of the proof is
that nothing is held when `setup` begins unless it is of that file. `ShippedCorrect`: for jobs of the
pipeline with at most one linked file, `ShipInv` follows each file through the loops - declared before
position, defined, written - and relates the sequences that left to the prefixes of the job's lists.

`DriverInv` says where each loop is (`Positions`), what was written and added by
then (`Counts`), what the block of static initialisers holds (`Stores`), and, for a job of the pipeline,
which files have a module (`Present`, `OneLinked`). Beside it, `Scopes` says which layers of variables
`create`, `setup` and `write` have left: the layer of every file that was declared, and the one of the
file that is open. From them, `NativeScopeCleanCorrect` (`write` pops exactly what `setup` pushed, however
many files came before), `StaticsByRuleCorrect` (which files with static variables the verifier takes),
`EndsByRuleCorrect` (how a job ends), and `ModulesLeaveCorrect`, an action property: a module leaves the
compiler only for the JIT. `CompileJobImplemented` is the refinement: the mapping reads off the store in
which stage a file is - not declared, declared, defined, shipped (`Copy` is the one place a file's module
can be, which Custody makes unique) - and each step of the driver is a step of `CompileJob` or a stutter.
`RetAssumption` (`Ret` stands for the return in the block of the static initialiser, and is no file) keeps
that return distinct from the files' stores in `initBlock`.

**`StmtGenProofs`.** `TypeCorrect` and `StackDisciplineCorrect` from `IInv == TypeOK /\ StackDiscipline`,
which is inductive. Each activation remembers the stacks it began with; `Inside(f)` is what they must be
while a part of `f` is generated. A call leaves them as `Inside` of the caller, a return as the frame
found them; one lemma per statement kind. So however deep a body is nested and however its parts end -
by jump, flag or at their end - `break`, `case` and `throw` meet the stack of their own statement.

**`StmtFlagProofs`.** `FlagSoundCorrect`: while `lastUnreachable` is clear, the block the builder inserts
into has no jump at its end. That is not inductive, because a statement that ends moves the builder to a
block it made long before. `SpareInv`: the blocks an activation still has in reserve are empty, are not the
current one, and belong to no other activation; `Opened`: a statement starts in an open block *whatever*
the flag is, since the branches of an if start with the flag of the branch before.

**`TypeEmissionProofs`.** `TypeCorrect` and `StaleSeen`, for any number of files and classes. The
inductive invariant adds to the types that `globals` is finite and `InTime`: a reference across modules
touches a module that is still to be written, because the class that caused it was not yet emitted when it
was signed in a file whose turn is not over. So the verifier of that file's `write` sees it.

**`TypeOrderProofs`.** `CompleteCorrect` and `SilentCorrect`: in an ordered project nothing nested ever
disturbs the body around it, and `new` calls the constructors of exactly the classes declared before. The
invariant `OInv` is about the stack of tasks. A task for a class that is emitted is idle; the others stand
in the order of the text (`Leads`: the parts of one class, the classes to come by their place in the file,
the function of the file last; each body from its begin to its end). Then what a body throws or catches
is emitted when it is asked for, so that the flag is never left set before a statement (`FlagOfEnded`); a
class is emitted exactly if it comes earlier in the text, and has its constructor unless it is the one in
progress (`EmittedInTurn`, `InOrder`, `Constructed`). The steps are of three kinds, one lemma each: the
head goes (`Advance`), a class is put in its place (`Expand`), a turn begins (`Opens`).

`LinkCorrect`, in the same module: what an ordered project links. A class may have many typeinfo globals:
its definition, a declaration in each file that asks for it, and the ones LLVM gives a number because the
module has one of that name. `LInv` says that the number stays 0 for every global but those of a class that
handles itself (`GlobalFits`). The reason is the cache: `init` is forgotten when the class's own file is
written, so in another file the first use declares, and every later one finds the infos (the last part of
`GlobalFits`, for the module that is open); in its own file others ask only when it is complete, which
`OInv` says of an ordered project. A method that handles its own class asks between definition and `init`:
`SelfSeen` says that as long as no second global has come of it, the statement that will make one is still
to do. The steps are `Quiet` (no global) or `Declares` (the typeinfo of a class, or the infos of a throw or
catch). The proof found the circle of superclasses: for a class that extends itself `LinkedByRule` was not
provable, since it is in progress when it is asked for as its own ancestor, and the model had passed over
the call that never gets that far.

**`TypeIndexProofs`.** `EveryTypeResetCorrect`, `TypeCorrect`, `SharedByNameCorrect` and, an action
property, `NamesSettledCorrect`, for projects of any files, names and nesting. `ResetInv` carries the
first: what the variables hold (`Shape`), that the stacks of the three readers are as deep as the text
(`Deep`), that every name read has an entry (`Known`), every file's types come from its table
(`Filled`), a file not yet pre-parsed has no plain names (`Fresh`), each entry is a type of that name
declared in this file (`Named`, `Usable`), and what was read was read into an object (`Taken`). Names
and types need the containers too: no object is in the tables of two files (`Apart`), types without
container have plain names (`Unqualified`), the stacks hold what the text around the place stands for
(`Stacked`), a type lies in the type its text is in (`InPlace`), where each name has one kind nothing
lies in a struct (`NoStructs`), and every type has an outermost container (`Rooted`): that is the end of
the loop in `mangleTypeName`. The readers overwrite `contType` again and again; `NamesSettled` holds
because what they write is what is there. `mangleTypeName` goes up by a recursive function. The
induction principles of the library take an operator and cannot be used; in their place, `NatMin` (a set
of numbers has a least element, from the well-foundedness of `<`) gives a smallest counterexample, so
these facts are proved for any depth. `SharedInv` ties the tables to the text. The number of an object
is the number of its declaration (`Counted`); the Indexer's stack is empty until the first enum
(`Popped`), so a plain name holds the last declaration read before one (`Based`); the PreParser takes
that entry out or leaves it, and never puts another in its place, so what the Parser finds under a name
is that object or a null, with which it crashes. Hence each declaration goes to the one object its name
stands for, and to no other (`Gathered`).

**`OptionsProofs`.** `SeparatedCorrect`, `EndCorrect` and `OutputCorrect`, for every command line, every
build script and any files; assumed are that the files are finitely many and that none has an empty name
(`PathAssumption`), and that characters have codes. `OptInv` has a part per phase. `ReadTo`: the loop is
at an argument that is no value (`Second`: not behind an odd run of options that want one), nothing in
front of it is at fault, and the lists are what is in front, in its order (`Mapped`, `InOrder`). From this
`AreSources`: the files are the sources of the command line. `Walks` and `Ends` are about the range-for:
before it has met the end of the shrunken list, what lies in front of it is what it kept, what lies behind
is the rest of the list, moved up by as many places as it took; afterwards only copies of the last file
follow, which is taken once if it is still there. The copy of the last file is what makes the last one of
a run an exception. `InfoAt` says what the calls of a script so far have made of `Info`, `RunsTo` that all
of them were legal, `AppliedAt` what the first options have made of it, `ToCompile` what
`LangMain::compile` gets: each field of `info` as a function of the input. In every step that ends the
process one of these shows that `Acceptable` fails, or that only clang was left. For the proof the
rules had to be said without recursion, and two of them were corrected: `setMainFile("")`, which `verify`
refuses and on which `modify` crashes, is a main file no directory lists; and the operand of `shouldLink`
counts as true only if it is `true`, where the rule had asked whether it is `false`.

**`ObjectProofs`.** All five properties of the run `objects`, for programs of any classes, interfaces,
methods and fields. Nearly every definition is recursive - `declared`, `superTypes`, `InterfaceTables`,
`InTurn`, the layout's `ends` - so `Recursion` first shows once that a definition whose step looks at
places of lower rank only has a value, and depth (`Founded`) or position is the rank. `PartInv`: what
`generatePart` has made of a class is what its text says, on top of its superclass's. `LoopInv` is about
the range-for with `erase` inside: there is a set `R` of places of the list it began with such that what is
left in front is the list without `R` (`Rank(R, k)` is where its k-th method has gone), what lies behind
the end are copies of the last method, the overrides taken are those at `R` in their order, and the loop
is at the method behind the last one it looked at, or behind the end with the last one looked at again. At
the end `R` is `Gone(D)`, which is decided by the list alone; this is `OverridesTakenAlways`. `TablesInv`
carries it to the tables: each is its list without `Gone`, every method replaced by the last override of
its name. A subclass's list begins with its superclass's, so `Gone` agrees on it except at its very last
method; a method's slot is counted by `Rank`, and `SlotsKeptAlways` follows. `ObjectInv`: the constructors
called stand in a chain of superclasses, and behind the first k of them the object is `Built`: the pointer
of the class, the pointers and fields of each class in it that has room for them, and how far memory is
written at all. From this `WrittenByRuleAlways`. A call (`UsedInv`) reads one word of the object and one
entry of a table: `CompiledByRuleAlways` and `DispatchedAlways` compare what it finds there with the text.

Only model-checked: the rules of acceptance (`AcceptedByRule`, `TypedByRule`, ...), whose
definitions are recursive over trees or relate whole runs to the text; `ReferencesByRule`, which looks no
further than the files a file uses itself; the agreement of code and source; and all of
`ExprGen`. `Terminates` is liveness, which the prover does not reach. RECURSIVE
operators appear in `StmtRules`, `StmtExec`, `Parser`, `ParserRules`, `ExprRules` and `MCExprGen`, which no
proof uses: what the parser's methods return is recursive in the tokens and stays with TLC.

## 5. What is not modelled

In expressions: arrays, structs, static variables, methods called through chains of accesses, calls of
`super(...)`, templates and library functions; and the blocks that the checks of pointers and indices add
to a function, so that expressions and branches are modelled apart. In the reader: lines and columns,
templates, qualified names inside bodies (`TypeIndex` has those of heads), the modifiers of variables. In
the command line: include directories, and what a build script may do beside calling `Info`. Not at all:
structs, enums and namespaces behind the front end, templates, the import of clang's syntax tree and the
headers of C++ (what they produce depends on clang, which is outside the repository), debug information,
the generated exceptions, the run-time library. The state of each part is under `components` in
`PROJECT.json`. LLVM itself is external: the verifier is modelled by the conditions on terminators, types
of operands, argument counts and modules that the generated code can violate, its folding of constants by
what it leaves the verifier to see.

Live files that are linked in numbers greater than one keep no order: `EndsByRule` says how such jobs end,
and `Custody`, `Shipped` and `ModulesLeaveOnlyToTheJit` speak of the others.

## 6. Plan

Done: the driver, statements, emission of classes, objects, the type index, the command line, the reader,
expressions without arrays.

1. *Proofs for the last family* whose machine has no RECURSIVE operator: of `ExprGen`, that layers and
   values are balanced (the stack of `todo` and `vals` as in `StmtGen`).
2. *Arrays and structs* in `ExprGen`: `newArray`, the stride of nested ones, lengths.
3. *Access and methods*: `canAccess` on hierarchies, chains of calls, `super(...)`.
4. *Mangler*: injectivity over small signatures of members and templates.
