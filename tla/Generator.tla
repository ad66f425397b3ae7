----------------------------- MODULE Generator -----------------------------
(***************************************************************************)
(* The module store of the code generator (langMain/codeGen/Generator.cpp).*)
(*                                                                         *)
(* One Generator serves every file of a compilation.  It keeps one LLVM    *)
(* module per file in the map `modules`, and the module being worked on in *)
(* the owning pointer `m_module`: std::move takes a module out of its slot *)
(* and leaves the slot null, and every operation is responsible for        *)
(* putting the module back.  Nothing but the order of the calls says which *)
(* file the module in `m_module` belongs to.                               *)
(*                                                                         *)
(* Each operator below is one member function; the driver (LangMain) says  *)
(* in which order they are called.  A module is reduced to what custody    *)
(* and the LLVM verifier tell apart: the file it was created for and the   *)
(* files whose signatures and bodies were emitted into it.                 *)
(***************************************************************************)
EXTENDS Naturals, Sequences

CONSTANTS
  SrcFile,   \* the source files of the compilation
  NoFile,    \* the null SrcFile pointer
  NoModule   \* the null std::unique_ptr<Module>

Module == [of : SrcFile, sigs : SUBSET SrcFile, bodies : SUBSET SrcFile]

ASSUME NoFileAssumption == NoFile \notin SrcFile
ASSUME NoModuleAssumption == NoModule \notin Module

Ret == "ret"   \* a return in the block of the static initialiser, beside the files that store
ASSUME RetAssumption == Ret \notin SrcFile

VARIABLES
  modules,     \* slot of each file
  m_module,    \* the module taken out of its slot
  m_file,      \* the file the generator believes it works on
  m_contxt,    \* "owned", or "moved" once handed to the JIT
  setupFlag,
  m_vars,      \* stack of variable layers, each named by the file that pushed it
  staticInit,  \* file whose module holds __cxx_global_var_init, or NoFile
  initBlock    \* what was appended to its block: stores to a file's globals, returns

genVars == <<modules, m_module, m_file, m_contxt, setupFlag, m_vars,
             staticInit, initBlock>>

Emitted(f) == [of |-> f, sigs |-> {}, bodies |-> {}]

GenTypeOK ==
  /\ modules \in [SrcFile -> Module \cup {NoModule}]
  /\ m_module \in Module \cup {NoModule}
  /\ m_file \in SrcFile \cup {NoFile}
  /\ m_contxt \in {"owned", "moved"}
  /\ setupFlag \in BOOLEAN
  /\ m_vars \in Seq(SrcFile)
  /\ staticInit \in SrcFile \cup {NoFile}
  /\ initBlock \in Seq(SrcFile \cup {Ret})

GenInit ==
  /\ modules = [f \in SrcFile |-> NoModule]
  /\ m_module = NoModule
  /\ m_file = NoFile
  /\ m_contxt = "owned"
  /\ setupFlag = FALSE
  /\ m_vars = <<>>
  /\ staticInit = NoFile
  /\ initBlock = <<>>

(***************************************************************************)
(* create(file): a fresh module replaces whatever m_module held and goes   *)
(* straight into the slot of the file; m_module is null afterwards.        *)
(***************************************************************************)
CreateIn(slots, f) ==
  /\ m_contxt = "owned"
  /\ modules' = [slots EXCEPT ![f] = Emitted(f)]
  /\ m_module' = NoModule
  /\ m_file' = f
  /\ setupFlag' = TRUE
  /\ m_vars' = Append(m_vars, f)
  /\ UNCHANGED <<m_contxt, staticInit, initBlock>>

Create(f) == CreateIn(modules, f)

(***************************************************************************)
(* generateSigs(): emits the types of m_file, and with them the stores     *)
(* that initialise its static struct variables.  The initialiser function  *)
(* is created once, in the module current at the time, and kept for the    *)
(* life of the generator.                                                  *)
(***************************************************************************)
GenerateSigsHeld(hasStatics) ==   \* variant: the module is not put back
  /\ setupFlag
  /\ modules[m_file] # NoModule
  /\ m_module' = [modules[m_file] EXCEPT !.sigs = @ \cup {m_file}]
  /\ modules' = [modules EXCEPT ![m_file] = NoModule]
  /\ UNCHANGED <<m_file, m_contxt, setupFlag, m_vars, staticInit, initBlock>>

GenerateSigs(hasStatics) ==
  /\ setupFlag
  /\ modules[m_file] # NoModule
  /\ modules' = [modules EXCEPT ![m_file].sigs = @ \cup {m_file}]
  /\ m_module' = NoModule
  /\ staticInit' = IF hasStatics /\ staticInit = NoFile THEN m_file ELSE staticInit
  /\ initBlock' = IF hasStatics THEN Append(initBlock, m_file) ELSE initBlock
  /\ UNCHANGED <<m_file, m_contxt, setupFlag, m_vars>>

(***************************************************************************)
(* setup(file): a module still held is put into the slot of the NEW file,  *)
(* whatever file it was taken for, then the slot is taken.                 *)
(***************************************************************************)
RefiledToOwner(f) ==   \* variant: the held module goes back to its own file
  IF m_module # NoModule THEN [modules EXCEPT ![m_file] = m_module] ELSE modules

Refiled(f) == IF m_module # NoModule THEN [modules EXCEPT ![f] = m_module] ELSE modules

SetupTake(f) ==
  /\ Refiled(f)[f] # NoModule
  /\ m_module' = Refiled(f)[f]
  /\ modules' = [Refiled(f) EXCEPT ![f] = NoModule]
  /\ m_file' = f
  /\ setupFlag' = TRUE
  /\ m_vars' = Append(m_vars, f)
  /\ UNCHANGED <<m_contxt, staticInit, initBlock>>

SetupCreate(f) == Refiled(f)[f] = NoModule /\ CreateIn(Refiled(f), f)

Setup(f) == SetupTake(f) \/ SetupCreate(f)

\* create() dereferences the context it no longer owns.
SetupCrashes(f) == Refiled(f)[f] = NoModule /\ m_contxt = "moved"

(***************************************************************************)
(* generate(): emits every body of m_file into m_module and files it.      *)
(***************************************************************************)
GenerateTypesOnly ==   \* variant: the functions of the file are not generated
  /\ setupFlag
  /\ m_module # NoModule
  /\ modules' = [modules EXCEPT ![m_file] = m_module]
  /\ m_module' = NoModule
  /\ UNCHANGED <<m_file, m_contxt, setupFlag, m_vars, staticInit, initBlock>>

Generate ==
  /\ setupFlag
  /\ m_module # NoModule
  /\ modules' = [modules EXCEPT ![m_file] =
                   [m_module EXCEPT !.bodies = @ \cup {m_file}]]
  /\ m_module' = NoModule
  /\ UNCHANGED <<m_file, m_contxt, setupFlag, m_vars, staticInit, initBlock>>

EmitHeaderHeld ==   \* variant: the module is not put back
  setupFlag /\ UNCHANGED genVars

EmitHeaderDropped ==   \* variant: the module is put back nowhere
  /\ setupFlag
  /\ m_module' = NoModule
  /\ UNCHANGED <<modules, m_file, m_contxt, setupFlag, m_vars, staticInit, initBlock>>

\* emitCpp() and emitC(): read the types of m_file and file the module unchanged.
EmitHeader ==
  /\ setupFlag
  /\ modules' = [modules EXCEPT ![m_file] = m_module]
  /\ m_module' = NoModule
  /\ UNCHANGED <<m_file, m_contxt, setupFlag, m_vars, staticInit, initBlock>>

(***************************************************************************)
(* What makes a module well formed with respect to the static initialiser, *)
(* as llvm::verifyModule tells in write(): its block ends in its only      *)
(* return and stores to globals of its own module, and no global is stored *)
(* to from another module.                                                 *)
(***************************************************************************)
Verified(m, holder, block) ==
  IF holder = m.of
    THEN /\ block # <<>>
         /\ \A i \in 1 .. Len(block) :
              block[i] = IF i = Len(block) THEN Ret ELSE m.of
    ELSE \A i \in 1 .. Len(block) : block[i] # m.of

(***************************************************************************)
(* write(): pops the layer setup pushed, closes the static initialiser     *)
(* once more, verifies, and files the module again; a module the verifier  *)
(* rejects ends the process.                                               *)
(***************************************************************************)
ClosedByHolder ==   \* variant: only the file that holds the initialiser closes it
  IF staticInit = m_file THEN Append(initBlock, Ret) ELSE initBlock

Closed == IF staticInit # NoFile THEN Append(initBlock, Ret) ELSE initBlock

WriteKeepsLayer ==   \* variant: the variable layer is not popped
  /\ Verified(modules[m_file], staticInit, Closed)
  /\ initBlock' = Closed
  /\ m_module' = NoModule
  /\ setupFlag' = FALSE
  /\ UNCHANGED <<modules, m_file, m_contxt, m_vars, staticInit>>

Write ==
  /\ Verified(modules[m_file], staticInit, Closed)
  /\ m_vars # <<>>
  /\ m_vars' = SubSeq(m_vars, 1, Len(m_vars) - 1)
  /\ initBlock' = Closed
  /\ m_module' = NoModule
  /\ setupFlag' = FALSE
  /\ UNCHANGED <<modules, m_file, m_contxt, staticInit>>

WriteRejected == ~ Verified(modules[m_file], staticInit, Closed)

\* JITFileCompiler::link moves the context out of the generator ...
MoveContext ==
  /\ m_contxt' = "moved"
  /\ UNCHANGED <<modules, m_module, m_file, setupFlag, m_vars, staticInit, initBlock>>

\* ... and then every module it adds to the JIT.
ReleaseModule ==
  /\ m_module # NoModule
  /\ m_module' = NoModule
  /\ UNCHANGED <<modules, m_file, m_contxt, setupFlag, m_vars, staticInit, initBlock>>
=============================================================================
