------------------------------ MODULE LangMain ------------------------------
(***************************************************************************)
(* The order in which a compilation drives the Generator: LangMain::compile*)
(* (langMain/langMain.hpp) and the loops of JITFileCompiler it calls       *)
(* (langMain/fileCompiler.hpp), from preGen to link.  The build-script     *)
(* compilation of OptionsParser runs the same loops without the native     *)
(* ones, so it is a job whose `native` is empty.                           *)
(*                                                                         *)
(* `job` is the input.  files are declared, native ones are written as     *)
(* bitcode, jitted ones are generated in memory, linked ones are handed to *)
(* the JIT; all loops walk their sequence in order.                        *)
(***************************************************************************)
EXTENDS Generator, Functions

CONSTANT Jobs

Job == [files : Seq(SrcFile), native : Seq(SrcFile), jitted : Seq(SrcFile),
        linked : Seq(SrcFile), emit : BOOLEAN, link : BOOLEAN,
        statics : SUBSET SrcFile]

ASSUME JobsAssumption == Jobs \subseteq Job

VARIABLES
  job,
  pc,       \* the next call, or how the process ended
  pos,      \* index of the loop variable `file`
  written,  \* bitcode files produced: <<file, module>>
  added     \* modules added to the JIT: <<file, module>>

driverVars == <<job, pc, pos, written, added>>
vars == <<genVars, driverVars>>

(***************************************************************************)
(* The loops, named by the call that opens their body: the sequence each   *)
(* ranges over and what runs after it.                                     *)
(***************************************************************************)
Ended == {"done", "exit", "crashed"}
Loops == {"create", "setupNative", "setupEmit", "setupLive", "setupLink", "setupAdd"}
Calls == {"begin", "generateSigs", "generateNative", "write", "emit", "clang",
          "generateLive", "moveContext", "addIRModule"}

Over(loop) == CASE loop \in {"create", "setupEmit"} -> job.files
                [] loop = "setupNative" -> job.native
                [] loop = "setupLive" -> job.jitted
                [] loop \in {"setupLink", "setupAdd"} -> job.linked

After == [create |-> "setupNative",
          setupNative |-> IF job.emit THEN "setupEmit" ELSE "clang",
          setupEmit |-> "clang",
          setupLive |-> "setupLink",
          setupLink |-> "moveContext",
          setupAdd |-> "done"]

file == Over(pc)[pos]
InLoop(loop) == pc = loop /\ pos <= Len(Over(loop))

TypeOK ==
  /\ GenTypeOK
  /\ job \in Job
  /\ pc \in Ended \cup Loops \cup Calls
  /\ pos \in Nat \ {0}
  /\ written \in Seq(SrcFile \X Module)
  /\ added \in Seq(SrcFile \X Module)

Init ==
  /\ GenInit
  /\ job \in Jobs
  /\ pc = "begin"
  /\ pos = 1
  /\ written = <<>>
  /\ added = <<>>

Step(next) == pc' = next /\ UNCHANGED <<job, pos, written, added>>
NextFileBack(loop) == pc' = loop /\ pos' = pos - 1 /\ UNCHANGED job   \* variant
NextFile(loop) == pc' = loop /\ pos' = pos + 1 /\ UNCHANGED job

BeginWithoutFiles ==   \* variant: the early return does not ask whether to link
  /\ pc = "begin"
  /\ Step(IF job.native = <<>> THEN "done" ELSE "create")
  /\ UNCHANGED genVars

\* compile() returns at once when there is no native file and it is to link.
Begin ==
  /\ pc = "begin"
  /\ Step(IF job.native = <<>> /\ job.link THEN "done" ELSE "create")
  /\ UNCHANGED genVars

LeaveLoop ==
  /\ pc \in Loops
  /\ pos > Len(Over(pc))
  /\ pc' = After[pc]
  /\ pos' = 1
  /\ UNCHANGED <<genVars, job, written, added>>

\* preGen()
PreGenCreate == InLoop("create") /\ Create(file) /\ Step("generateSigs")
PreGenSigs ==
  /\ pc = "generateSigs"
  /\ GenerateSigs(m_file \in job.statics)
  /\ NextFile("create")
  /\ UNCHANGED <<written, added>>

\* genNonLive(), whose callback writes the file
NativeSetup == InLoop("setupNative") /\ Setup(file) /\ Step("generateNative")
NativeGenerate == pc = "generateNative" /\ Generate /\ Step("write")
NativeWrite ==
  /\ pc = "write"
  /\ Write
  /\ written' = Append(written, <<m_file, modules[m_file]>>)
  /\ NextFile("setupNative")
  /\ UNCHANGED added
NativeRejected ==
  /\ pc = "write"
  /\ WriteRejected
  /\ Step("exit")
  /\ UNCHANGED genVars

\* emitCPP() or emitC()
EmitSetup == InLoop("setupEmit") /\ Setup(file) /\ Step("emit")
Emit ==
  /\ pc = "emit"
  /\ EmitHeader
  /\ NextFile("setupEmit")
  /\ UNCHANGED <<written, added>>

\* clang++ links the bitcode when there is any; a failure ends the process.
RunClang ==
  /\ pc = "clang"
  /\ \/ Step("setupLive")
     \/ job.native # <<>> /\ Step("exit")
  /\ UNCHANGED genVars

\* genLive()
LiveSetup == InLoop("setupLive") /\ Setup(file) /\ Step("generateLive")
LiveGenerate ==
  /\ pc = "generateLive"
  /\ Generate
  /\ NextFile("setupLive")
  /\ UNCHANGED <<written, added>>

\* link(): one loop of setups, the context, then one setup and one addIRModule per file
LinkSetup ==
  /\ InLoop("setupLink")
  /\ Setup(file)
  /\ NextFile("setupLink")
  /\ UNCHANGED <<written, added>>
LinkContext == pc = "moveContext" /\ MoveContext /\ Step("setupAdd")
AddSetup == InLoop("setupAdd") /\ Setup(file) /\ Step("addIRModule")
AddModule ==
  /\ pc = "addIRModule"
  /\ ReleaseModule
  /\ added' = Append(added, <<m_file, m_module>>)
  /\ NextFile("setupAdd")
  /\ UNCHANGED written

\* setup() after the context was given away, with nothing left in the slot
AddCrashes ==
  /\ InLoop("setupAdd")
  /\ SetupCrashes(file)
  /\ Step("crashed")
  /\ UNCHANGED genVars

Terminating == pc \in Ended /\ UNCHANGED vars

Next ==
  \/ Begin \/ LeaveLoop
  \/ PreGenCreate \/ PreGenSigs
  \/ NativeSetup \/ NativeGenerate \/ NativeWrite \/ NativeRejected
  \/ EmitSetup \/ Emit \/ RunClang
  \/ LiveSetup \/ LiveGenerate
  \/ LinkSetup \/ LinkContext \/ AddSetup \/ AddModule \/ AddCrashes
  \/ Terminating

Spec == Init /\ [][Next]_vars
-----------------------------------------------------------------------------
(***************************************************************************)
(* Properties.  Most hold of a pipeline job that links at most one file:   *)
(* the jobs LangMain starts for a project with one live file or none, and  *)
(* the ones OptionsParser starts for a build script alone.                 *)
(***************************************************************************)
PipelineJob(j) ==
  /\ j.files = j.native \o j.jitted
  /\ j.linked = j.jitted
  /\ IsInjective(j.files)

\* The job OptionsParser starts: it declares the build files of a command line and links
\* every file of it.
BuildJob(j) ==
  /\ j.native = <<>>
  /\ j.jitted = j.files
  /\ IsInjective(j.linked)
  /\ Range(j.files) \subseteq Range(j.linked)

SingleLive == Len(job.linked) <= 1

Complete(f) == [of |-> f, sigs |-> {f}, bodies |-> {f}]

\* A module is filed under, and held for, the file it was created for, and
\* carries nothing of another file: setup() files a module it still holds
\* under the next file, so this rests on every caller putting its module back.
OwnModule(m, f) == m.of = f /\ m.sigs \subseteq {f} /\ m.bodies \subseteq {f}
Custody ==
  SingleLive =>
    /\ \A f \in SrcFile : modules[f] # NoModule => OwnModule(modules[f], f)
    /\ m_module # NoModule => OwnModule(m_module, m_file)

\* What leaves the compiler is the complete module of the right file, in the
\* order of the job: the bitcode callback and addIRModule use m_file and the
\* slot or m_module, which only the calls before them relate.
Shipped ==
  PipelineJob(job) /\ SingleLive =>
    /\ \A i \in DOMAIN written : written[i] = <<job.native[i], Complete(job.native[i])>>
    /\ \A i \in DOMAIN added : added[i] = <<job.linked[i], Complete(job.linked[i])>>

\* While a native file is generated the variable stack is the layers create()
\* pushed for every file and one layer of its own: no earlier file's layer is
\* left, whatever write() popped.
NativeScopeClean ==
  pc \in {"generateNative", "write"} => m_vars = Append(job.files, m_file)

\* The initialiser block is never reset, and every write() closes it again: the verifier
\* accepts a written file with static variables exactly when it is the only one that has
\* them and the first one written.  Nobody verifies a module for the JIT, but it is well formed
\* in the same sense exactly when, besides, one native file was written, because only write()
\* closes the block.
OnlyStatics(f) == job.statics \cap Range(job.files) = {f}
StaticsByRule ==
  /\ pc = "write" /\ m_file \in Range(job.files) =>
       (WriteRejected <=> m_file \in job.statics /\ ~ (OnlyStatics(m_file) /\ pos = 1))
  /\ pc = "addIRModule" /\ SingleLive /\ m_file \in job.statics \cap Range(job.files) =>
       (Verified(m_module, staticInit, initBlock) <=> OnlyStatics(m_file) /\ Len(job.native) = 1)

\* How a job ends.  A finished one shipped every file, unless it returned before
\* preGen; of the jobs the compiler starts, link() destroys modules exactly in those that
\* link two files of which one was generated: the second loop then finds an empty slot and
\* no context.
EndsByRule ==
  /\ pc = "done" =>
       \/ job.native = <<>> /\ job.link /\ m_file = NoFile
       \/ Len(written) = Len(job.native) /\ Len(added) = Len(job.linked)
  /\ PipelineJob(job) \/ BuildJob(job) =>
       /\ pc = "crashed" => Len(job.linked) > 1 /\ job.files # <<>>
       /\ pc = "done" /\ m_contxt = "moved" => Len(job.linked) <= 1 \/ job.files = <<>>

\* No step destroys a module except by handing it to the JIT.
Alive(f) == \/ \E g \in SrcFile : modules[g] # NoModule /\ modules[g].of = f
            \/ m_module # NoModule /\ m_module.of = f
ModulesLeaveOnlyToTheJit ==
  [][SingleLive => \A f \in SrcFile :
       Alive(f) /\ ~ Alive(f)' => added' = Append(added, <<f, m_module>>)]_vars

(***************************************************************************)
(* A job as the files see it.                                              *)
(***************************************************************************)
Modules == {modules[f] : f \in SrcFile} \cup {m_module}
Left(f) == \/ \E i \in DOMAIN written : written[i][1] = f
           \/ \E i \in DOMAIN added : added[i][1] = f
Stage(f) ==
  CASE Left(f) -> "shipped"
    [] ~ Left(f) /\ \E m \in Modules \ {NoModule} : f \in m.bodies -> "defined"
    [] ~ Left(f) /\ (\A m \in Modules \ {NoModule} : f \notin m.bodies)
                 /\ \E m \in Modules \ {NoModule} : f \in m.sigs -> "declared"
    [] OTHER -> "unseen"

\* Other jobs keep no order (EndsByRule) or ship what they were not to declare:
\* they map to a job without files.
Regular == PipelineJob(job) /\ SingleLive
Abstract ==
  INSTANCE CompileJob WITH todo <- IF Regular THEN Range(job.files) ELSE {},
                           stage <- [f \in SrcFile |-> IF Regular THEN Stage(f) ELSE "unseen"]

\* A pipeline job that links at most one file implements the abstract job: bodies refer
\* to what other files declare, so preGen() has to finish before genNonLive().
ImplementsCompileJob == Abstract!Spec
=============================================================================
