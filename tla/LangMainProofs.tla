--------------------------- MODULE LangMainProofs ---------------------------
(***************************************************************************)
(* Proofs about the compilation driver, for every set of files and jobs.   *)
(***************************************************************************)
EXTENDS LangMain, SequenceTheorems, TLAPS

(***************************************************************************)
(* Type correctness.  TypeOK is not inductive by itself: the operations    *)
(* index `modules` with m_file, which is a file once setupFlag is set or a *)
(* module is held, and write() reads a slot that generate() has filled.    *)
(***************************************************************************)
FileSet == setupFlag \/ m_module # NoModule => m_file \in SrcFile
WriteHasModule == pc = "write" => m_file \in SrcFile /\ modules[m_file] \in Module
TypeInv == TypeOK /\ FileSet /\ WriteHasModule

LEMMA SlotsOfSetup ==
  ASSUME TypeOK, NEW f \in SrcFile
  PROVE  Refiled(f) \in [SrcFile -> Module \cup {NoModule}]
BY DEF TypeOK, GenTypeOK, Refiled

LEMMA EmittedType == ASSUME NEW f \in SrcFile PROVE Emitted(f) \in Module
BY DEF Emitted, Module

LEMMA FileType ==
  ASSUME TypeOK, NEW loop \in Loops, InLoop(loop)
  PROVE  file \in SrcFile
<1>1. Over(pc) \in Seq(SrcFile) /\ pos \in 1 .. Len(Over(pc))
  BY DEF TypeOK, InLoop, Loops, Over, Job
<1>2. QED BY <1>1 DEF file

LEMMA SetupTypes ==
  ASSUME TypeOK, NEW f \in SrcFile, Setup(f)
  PROVE  GenTypeOK' /\ m_file' = f
<1>1. CASE SetupTake(f)
  BY <1>1, SlotsOfSetup DEF SetupTake, TypeOK, GenTypeOK
<1>2. CASE SetupCreate(f)
  BY <1>2, SlotsOfSetup, EmittedType DEF SetupCreate, CreateIn, TypeOK, GenTypeOK
<1>3. QED BY <1>1, <1>2 DEF Setup

LEMMA GenerateTypes ==
  ASSUME TypeOK, FileSet, Generate
  PROVE  GenTypeOK' /\ m_file' = m_file /\ m_file \in SrcFile /\ modules'[m_file] \in Module
<1>1. m_file \in SrcFile /\ m_module \in Module
  BY DEF Generate, FileSet, TypeOK, GenTypeOK
<1>2. [m_module EXCEPT !.bodies = @ \cup {m_file}] \in Module
  BY <1>1 DEF Module
<1>3. QED BY <1>1, <1>2 DEF Generate, TypeOK, GenTypeOK

LEMMA TypeInvariant == Spec => []TypeInv
<1>1. Init => TypeInv
  <2> SUFFICES ASSUME Init PROVE TypeInv
    OBVIOUS
  <2>1. GenTypeOK
    <3>1. <<>> \in Seq(SrcFile) /\ <<>> \in Seq(SrcFile \cup {Ret})
      OBVIOUS
    <3>2. QED BY <3>1 DEF Init, GenInit, GenTypeOK
  <2>2. job \in Job
    BY JobsAssumption DEF Init
  <2>3. TypeOK
    BY <2>1, <2>2 DEF Init, TypeOK, Calls
  <2>4. QED BY <2>3 DEF Init, GenInit, TypeInv, FileSet, WriteHasModule
<1>2. TypeInv /\ [Next]_vars => TypeInv'
  <2> SUFFICES ASSUME TypeInv, [Next]_vars PROVE TypeInv'
    OBVIOUS
  <2> USE DEF TypeInv
  <2>1. CASE Begin
    BY <2>1 DEF Begin, Step, genVars, TypeOK, GenTypeOK, FileSet, WriteHasModule, Ended, Loops
  <2>2. CASE LeaveLoop
    BY <2>2 DEF LeaveLoop, After, genVars, TypeOK, GenTypeOK, FileSet, WriteHasModule,
                Ended, Loops, Calls
  <2>3. CASE PreGenCreate
    <3>1. file \in SrcFile BY <2>3, FileType DEF PreGenCreate, Loops
    <3>2. QED BY <2>3, <3>1, EmittedType
            DEF PreGenCreate, Create, CreateIn, Step, TypeOK, GenTypeOK, FileSet,
                WriteHasModule, Calls
  <2>4. CASE PreGenSigs
    <3>1. m_file \in SrcFile /\ modules[m_file] \in Module
      BY <2>4 DEF PreGenSigs, GenerateSigs, FileSet, TypeOK, GenTypeOK
    <3>2. [modules EXCEPT ![m_file].sigs = @ \cup {m_file}] \in [SrcFile -> Module \cup {NoModule}]
      BY <3>1 DEF TypeOK, GenTypeOK, Module
    <3>3. QED BY <2>4, <3>1, <3>2
            DEF PreGenSigs, GenerateSigs, NextFile, TypeOK, GenTypeOK, FileSet,
                WriteHasModule, Loops
  <2>5. CASE NativeSetup
    BY <2>5, FileType, SetupTypes DEF NativeSetup, Step, TypeOK, FileSet, WriteHasModule, Loops, Calls
  <2>6. CASE NativeGenerate
    BY <2>6, GenerateTypes DEF NativeGenerate, Step, TypeOK, FileSet, WriteHasModule, Calls
  <2>7. CASE NativeWrite
    <3>1. SubSeq(m_vars, 1, Len(m_vars) - 1) \in Seq(SrcFile)
      <4>1. Len(m_vars) - 1 \in Int /\ \A i \in 1 .. Len(m_vars) - 1 : m_vars[i] \in SrcFile
        BY DEF TypeOK, GenTypeOK
      <4>2. QED BY <4>1, SubSeqProperties
    <3>2. Closed \in Seq(SrcFile \cup {Ret})
      BY DEF Closed, TypeOK, GenTypeOK
    <3>3. GenTypeOK'
      BY <2>7, <3>1, <3>2 DEF NativeWrite, Write, TypeOK, GenTypeOK
    <3>4. QED BY <2>7, <3>3
            DEF NativeWrite, Write, NextFile, TypeOK, FileSet, WriteHasModule, Loops
  <2>8. CASE NativeRejected
    BY <2>8 DEF NativeRejected, Step, genVars, TypeOK, GenTypeOK, FileSet, WriteHasModule, Ended
  <2>9. CASE EmitSetup
    BY <2>9, FileType, SetupTypes DEF EmitSetup, Step, TypeOK, FileSet, WriteHasModule, Loops, Calls
  <2>10. CASE Emit
    BY <2>10 DEF Emit, EmitHeader, NextFile, TypeOK, GenTypeOK, FileSet, WriteHasModule, Loops
  <2>11. CASE RunClang
    BY <2>11 DEF RunClang, Step, genVars, TypeOK, GenTypeOK, FileSet, WriteHasModule, Loops, Ended
  <2>12. CASE LiveSetup
    BY <2>12, FileType, SetupTypes DEF LiveSetup, Step, TypeOK, FileSet, WriteHasModule, Loops, Calls
  <2>13. CASE LiveGenerate
    BY <2>13, GenerateTypes DEF LiveGenerate, NextFile, TypeOK, FileSet, WriteHasModule, Loops
  <2>14. CASE LinkSetup
    BY <2>14, FileType, SetupTypes DEF LinkSetup, NextFile, TypeOK, FileSet, WriteHasModule, Loops
  <2>15. CASE LinkContext
    BY <2>15 DEF LinkContext, MoveContext, Step, TypeOK, GenTypeOK, FileSet, WriteHasModule, Loops
  <2>16. CASE AddSetup
    BY <2>16, FileType, SetupTypes DEF AddSetup, Step, TypeOK, FileSet, WriteHasModule, Loops, Calls
  <2>17. CASE AddModule
    <3>1. m_module \in Module /\ m_file \in SrcFile
      BY <2>17 DEF AddModule, ReleaseModule, TypeOK, GenTypeOK, FileSet
    <3>2. QED BY <2>17, <3>1 DEF AddModule, ReleaseModule, NextFile, TypeOK, GenTypeOK, FileSet,
                WriteHasModule, Loops
  <2>18. CASE AddCrashes
    BY <2>18 DEF AddCrashes, Step, genVars, TypeOK, GenTypeOK, FileSet, WriteHasModule, Ended
  <2>19. CASE Terminating
    BY <2>19 DEF Terminating, vars, genVars, driverVars, TypeOK, GenTypeOK, FileSet, WriteHasModule
  <2>20. CASE UNCHANGED vars
    BY <2>20 DEF vars, genVars, driverVars, TypeOK, GenTypeOK, FileSet, WriteHasModule
  <2>21. QED
    BY <2>1, <2>2, <2>3, <2>4, <2>5, <2>6, <2>7, <2>8, <2>9, <2>10, <2>11, <2>12, <2>13,
       <2>14, <2>15, <2>16, <2>17, <2>18, <2>19, <2>20 DEF Next
<1>3. QED BY <1>1, <1>2, PTL DEF Spec

\* Every reachable state is of its type: no call indexes the module store with a null file.
THEOREM TypeCorrect == Spec => []TypeOK
<1>1. TypeInv => TypeOK
  BY DEF TypeInv
<1>2. QED BY <1>1, TypeInvariant, PTL
-----------------------------------------------------------------------------
(***************************************************************************)
(* Custody.  What makes it inductive is where a module can be held: not    *)
(* when a loop is about to set up its next file, except in link(), whose   *)
(* first loop keeps the module it took and whose second loop sets up the   *)
(* same file again when there is only one.  It is lost when link() starts  *)
(* on more than one file, and not before.                                  *)
(***************************************************************************)
Linking == {"setupLink", "moveContext", "setupAdd", "addIRModule"}
Orderly == SingleLive \/ pc \notin Linking \cup {"done", "crashed"}

Empty == {"begin", "create", "generateSigs", "setupNative", "write", "setupEmit",
          "clang", "setupLive"}

HeldWhere ==
  /\ pc \in Empty => m_module = NoModule
  /\ pc \in {"setupLink", "moveContext", "setupAdd"} /\ m_module # NoModule =>
       /\ job.linked # <<>>
       /\ m_file = job.linked[1]
       /\ pc = "setupLink" => pos = 2
       /\ pc \in {"moveContext", "setupAdd"} => pos = 1

Kept ==
  /\ \A f \in SrcFile : modules[f] # NoModule => OwnModule(modules[f], f)
  /\ m_module # NoModule => OwnModule(m_module, m_file)

CustodyInv == Orderly => Kept /\ HeldWhere

LEMMA SetupKeeps ==
  ASSUME TypeOK, Kept, NEW f \in SrcFile, m_module # NoModule => m_file = f, Setup(f)
  PROVE  Kept'
<1>1. \A g \in SrcFile : Refiled(f)[g] # NoModule => OwnModule(Refiled(f)[g], g)
  BY DEF Refiled, Kept, TypeOK, GenTypeOK
<1>2. CASE SetupTake(f)
  <2>1. m_module' # NoModule => OwnModule(m_module', m_file')
    BY <1>1, <1>2 DEF SetupTake
  <2>2. \A g \in SrcFile : modules'[g] # NoModule => g # f /\ modules'[g] = Refiled(f)[g]
    BY <1>2, SlotsOfSetup DEF SetupTake
  <2>3. QED BY <1>1, <2>1, <2>2 DEF Kept
<1>3. CASE SetupCreate(f)
  <2>1. OwnModule(Emitted(f), f)
    BY DEF OwnModule, Emitted
  <2>2. \A g \in SrcFile : modules'[g] = IF g = f THEN Emitted(f) ELSE Refiled(f)[g]
    BY <1>3, SlotsOfSetup DEF SetupCreate, CreateIn
  <2>3. QED BY <1>1, <1>3, <2>1, <2>2 DEF Kept, SetupCreate, CreateIn
<1>4. QED BY <1>2, <1>3 DEF Setup

LEMMA GenerateKeeps ==
  ASSUME TypeInv, Kept, Generate
  PROVE  Kept' /\ m_module' = NoModule
<1>1. m_file \in SrcFile /\ m_module \in Module /\ OwnModule(m_module, m_file)
  BY DEF Generate, FileSet, TypeInv, TypeOK, GenTypeOK, Kept
<1>2. OwnModule([m_module EXCEPT !.bodies = @ \cup {m_file}], m_file)
  BY <1>1 DEF OwnModule, Module
<1>3. QED BY <1>1, <1>2 DEF Generate, Kept, TypeInv, TypeOK, GenTypeOK

\* With one linked file, its setup is for the file link() already holds.
LEMMA LinkedFile ==
  ASSUME TypeOK, SingleLive, HeldWhere, pc \in {"setupLink", "setupAdd"}, pos <= Len(Over(pc))
  PROVE  /\ pos = 1
         /\ file = job.linked[1]
         /\ job.linked # <<>>
         /\ pc = "setupLink" => m_module = NoModule
<1>1. Over(pc) = job.linked /\ job.linked \in Seq(SrcFile)
  BY DEF Over, TypeOK, Job
<1>2. Len(job.linked) = 1 /\ pos = 1
  <2>1. Len(job.linked) \in Nat /\ pos \in Nat /\ pos >= 1
    BY <1>1 DEF TypeOK
  <2>2. pos <= Len(job.linked) /\ Len(job.linked) <= 1
    BY <1>1 DEF SingleLive
  <2>3. \A n \in Nat, p \in Nat : p >= 1 /\ p <= n /\ n <= 1 => n = 1 /\ p = 1
    OBVIOUS
  <2>4. QED BY <2>1, <2>2, <2>3
<1>3. QED BY <1>1, <1>2 DEF file, HeldWhere

LEMMA JobFixed == [Next]_vars => job' = job
BY DEF Next, vars, driverVars, Begin, LeaveLoop, PreGenCreate, PreGenSigs, NativeSetup,
   NativeGenerate, NativeWrite, NativeRejected, EmitSetup, Emit, RunClang, LiveSetup,
   LiveGenerate, LinkSetup, LinkContext, AddSetup, AddModule, AddCrashes, Terminating,
   Step, NextFile

LEMMA StaysLinking ==
  ASSUME [Next]_vars, pc \in Linking \cup {"done", "crashed"}
  PROVE  pc' \in Linking \cup {"done", "crashed"}
<1>1. CASE LeaveLoop
  BY <1>1 DEF LeaveLoop, After, Linking, Loops
<1>2. CASE LinkSetup \/ LinkContext \/ AddSetup \/ AddModule \/ AddCrashes
  BY <1>2 DEF LinkSetup, LinkContext, AddSetup, AddModule, AddCrashes, Step, NextFile, Linking
<1>3. CASE Terminating \/ UNCHANGED vars
  BY <1>3 DEF Terminating, vars, driverVars
<1>4. QED
  BY <1>1, <1>2, <1>3 DEF Next, Begin, PreGenCreate, PreGenSigs, NativeSetup, NativeGenerate,
     NativeWrite, NativeRejected, EmitSetup, Emit, RunClang, LiveSetup, LiveGenerate,
     InLoop, Linking

LEMMA CustodyStep == TypeInv /\ CustodyInv /\ [Next]_vars => CustodyInv'
<1> SUFFICES ASSUME TypeInv, CustodyInv, [Next]_vars, Orderly'
             PROVE  (Kept /\ HeldWhere)'
  BY DEF CustodyInv
<1> USE DEF TypeInv
<1>0. /\ job' = job /\ Kept /\ HeldWhere
      /\ pc \in {"setupLink", "setupAdd"} => SingleLive
  <2>1. Orderly
    BY JobFixed, StaysLinking DEF Orderly, SingleLive
  <2>2. QED BY <2>1, JobFixed DEF CustodyInv, Orderly, Linking
<1>1. CASE Begin
  BY <1>0, <1>1 DEF Begin, Step, genVars, Kept, HeldWhere, Empty
<1>2. CASE LeaveLoop
  <2>1. Kept' /\ m_module' = m_module /\ m_file' = m_file
    BY <1>0, <1>2 DEF LeaveLoop, genVars, Kept
  <2>2. pc \in {"create", "setupNative", "setupEmit", "setupLive"} => m_module' = NoModule
    BY <1>0, <2>1 DEF HeldWhere, Empty
  <2>3. QED BY <1>0, <1>2, <2>1, <2>2 DEF LeaveLoop, After, HeldWhere, Empty, Loops
<1>3. CASE PreGenCreate
  <2>1. file \in SrcFile
    BY <1>3, FileType DEF PreGenCreate, Loops
  <2>2. OwnModule(Emitted(file), file)
    BY DEF OwnModule, Emitted
  <2>3. Kept'
    BY <1>0, <1>3, <2>1, <2>2 DEF PreGenCreate, Create, CreateIn, Kept, TypeOK, GenTypeOK
  <2>4. QED BY <1>0, <1>3, <2>3 DEF PreGenCreate, Create, CreateIn, Step, HeldWhere, Empty
<1>4. CASE PreGenSigs
  <2>1. m_file \in SrcFile /\ modules[m_file] \in Module
    BY <1>4 DEF PreGenSigs, GenerateSigs, FileSet, TypeOK, GenTypeOK
  <2>2. OwnModule([modules[m_file] EXCEPT !.sigs = @ \cup {m_file}], m_file)
    BY <1>0, <2>1, NoModuleAssumption DEF Kept, OwnModule, Module
  <2>3. \A g \in SrcFile : modules'[g] =
          IF g = m_file THEN [modules[m_file] EXCEPT !.sigs = @ \cup {m_file}] ELSE modules[g]
    BY <1>4, <2>1 DEF PreGenSigs, GenerateSigs, TypeOK, GenTypeOK
  <2>4. m_module' = NoModule /\ pc' = "create"
    BY <1>4 DEF PreGenSigs, GenerateSigs, NextFile
  <2>5. QED BY <1>0, <2>2, <2>3, <2>4 DEF Kept, HeldWhere, Empty
<1>5. CASE NativeSetup
  <2>1. m_module = NoModule
    BY <1>0, <1>5 DEF NativeSetup, InLoop, HeldWhere, Empty
  <2>2. QED BY <1>0, <1>5, <2>1, FileType, SetupKeeps
          DEF NativeSetup, Step, HeldWhere, Empty, Loops
<1>6. CASE NativeGenerate
  BY <1>0, <1>6, GenerateKeeps DEF NativeGenerate, Step, HeldWhere, Empty
<1>7. CASE NativeWrite
  BY <1>0, <1>7 DEF NativeWrite, Write, NextFile, Kept, HeldWhere, Empty
<1>8. CASE NativeRejected
  BY <1>0, <1>8 DEF NativeRejected, Step, genVars, Kept, HeldWhere, Empty
<1>9. CASE EmitSetup
  <2>1. m_module = NoModule
    BY <1>0, <1>9 DEF EmitSetup, InLoop, HeldWhere, Empty
  <2>2. QED BY <1>0, <1>9, <2>1, FileType, SetupKeeps
          DEF EmitSetup, Step, HeldWhere, Empty, Loops
<1>10. CASE Emit
  <2>1. m_file \in SrcFile
    BY <1>10 DEF Emit, EmitHeader, FileSet
  <2>2. QED BY <1>0, <1>10, <2>1
          DEF Emit, EmitHeader, NextFile, Kept, HeldWhere, Empty, TypeOK, GenTypeOK
<1>11. CASE RunClang
  BY <1>0, <1>11 DEF RunClang, Step, genVars, Kept, HeldWhere, Empty
<1>12. CASE LiveSetup
  <2>1. m_module = NoModule
    BY <1>0, <1>12 DEF LiveSetup, InLoop, HeldWhere, Empty
  <2>2. QED BY <1>0, <1>12, <2>1, FileType, SetupKeeps
          DEF LiveSetup, Step, HeldWhere, Empty, Loops
<1>13. CASE LiveGenerate
  BY <1>0, <1>13, GenerateKeeps DEF LiveGenerate, NextFile, HeldWhere, Empty
<1>14. CASE LinkSetup
  <2>1. pos = 1 /\ file = job.linked[1] /\ job.linked # <<>> /\ m_module = NoModule
    BY <1>0, <1>14, LinkedFile DEF LinkSetup, InLoop
  <2>2. file \in SrcFile
    BY <1>14, FileType DEF LinkSetup, Loops
  <2>3. Kept' /\ m_file' = file
    BY <1>0, <1>14, <2>1, <2>2, SetupKeeps, SetupTypes DEF LinkSetup
  <2>4. QED BY <1>0, <1>14, <2>1, <2>3 DEF LinkSetup, NextFile, HeldWhere, Empty
<1>15. CASE LinkContext
  BY <1>0, <1>15 DEF LinkContext, MoveContext, Step, Kept, HeldWhere, Empty
<1>16. CASE AddSetup
  <2>1. file = job.linked[1]
    BY <1>0, <1>16, LinkedFile DEF AddSetup, InLoop
  <2>2. file \in SrcFile /\ (m_module # NoModule => m_file = file)
    BY <1>0, <1>16, <2>1, FileType DEF AddSetup, InLoop, Loops, HeldWhere
  <2>3. QED BY <1>0, <1>16, <2>2, SetupKeeps DEF AddSetup, Step, HeldWhere, Empty
<1>17. CASE AddModule
  BY <1>0, <1>17 DEF AddModule, ReleaseModule, NextFile, Kept, HeldWhere, Empty
<1>18. CASE AddCrashes
  BY <1>0, <1>18 DEF AddCrashes, Step, genVars, Kept, HeldWhere, Empty
<1>19. CASE Terminating
  BY <1>0, <1>19 DEF Terminating, vars, genVars, driverVars, Kept, HeldWhere, Empty
<1>20. CASE UNCHANGED vars
  BY <1>0, <1>20 DEF vars, genVars, driverVars, Kept, HeldWhere, Empty
<1>21. QED
  BY <1>1, <1>2, <1>3, <1>4, <1>5, <1>6, <1>7, <1>8, <1>9, <1>10, <1>11, <1>12, <1>13,
     <1>14, <1>15, <1>16, <1>17, <1>18, <1>19, <1>20 DEF Next

\* Custody holds of every job, of any number of files.
THEOREM CustodyCorrect == Spec => []Custody
<1>1. Init => CustodyInv
  BY DEF Init, GenInit, CustodyInv, Kept, HeldWhere, Empty
<1>2. CustodyInv => Custody
  BY DEF CustodyInv, Orderly, Kept, Custody
<1>3. QED BY <1>1, <1>2, TypeInvariant, CustodyStep, PTL DEF Spec
-----------------------------------------------------------------------------
(***************************************************************************)
(* What is shipped.  Stated of a pipeline job that links at most one file. *)
(* The invariant follows each file: its slot or, while it is held,         *)
(* m_module has its signatures once preGen is past it, and its bodies once *)
(* the loop that generates it is; write() and addIRModule then take it at  *)
(* the index of the loop, which is the number of modules shipped so far.   *)
(***************************************************************************)
Copy(f) == IF m_module # NoModule /\ m_file = f THEN m_module ELSE modules[f]
Declared(f) == Copy(f) # NoModule /\ Copy(f).sigs = {f}

Declaring == {"begin", "create", "generateSigs"}
Native == {"setupNative", "generateNative", "write"}

DeclaredInv ==
  /\ pc \in {"create", "generateSigs"} =>
       \A i \in DOMAIN job.files : i < pos => Declared(job.files[i])
  /\ pc = "generateSigs" =>
       pos \in DOMAIN job.files /\ m_file = job.files[pos]
  /\ pc \in (Loops \cup Calls) \ Declaring /\ added = <<>> =>
       \A i \in DOMAIN job.files : Declared(job.files[i])
  /\ pc = "emit" => m_module # NoModule
  /\ pc = "begin" => pos = 1

NativeInv ==
  /\ pc \in Declaring => written = <<>>
  /\ pc \in Native => Len(written) = pos - 1
  /\ pc = "generateNative" => pos \in DOMAIN job.native /\ m_file = job.native[pos]
                              /\ m_module # NoModule
  /\ pc = "write" => pos \in DOMAIN job.native /\ m_file = job.native[pos]
                     /\ modules[m_file] = Complete(m_file)

LinkInv ==
  /\ pc \notin Linking \cup Ended => added = <<>>
  /\ pc \in {"setupLink", "moveContext"} => added = <<>>
  /\ pc \in {"setupAdd", "addIRModule"} => Len(added) = pos - 1
  /\ pc = "generateLive" => pos \in DOMAIN job.jitted /\ m_file = job.jitted[pos]
                            /\ m_module # NoModule
  /\ pc = "setupLive" /\ job.jitted # <<>> /\ pos > 1 =>
       Copy(job.jitted[1]) = Complete(job.jitted[1])
  /\ pc \in Linking /\ added = <<>> /\ job.jitted # <<>> =>
       Copy(job.jitted[1]) = Complete(job.jitted[1])
  /\ pc \in {"clang", "moveContext"} => pos = 1
  /\ pc = "addIRModule" => pos = 1 /\ job.jitted # <<>> /\ m_file = job.jitted[1]
                           /\ m_module # NoModule

ShippedAll ==
  /\ \A i \in DOMAIN written : written[i] = <<job.native[i], Complete(job.native[i])>>
  /\ \A i \in DOMAIN added : added[i] = <<job.linked[i], Complete(job.linked[i])>>

Ships == DeclaredInv /\ NativeInv /\ LinkInv /\ ShippedAll
ShipInv == SingleLive /\ PipelineJob(job) => Ships

Single == TypeInv /\ SingleLive /\ PipelineJob(job) /\ Kept /\ HeldWhere

LEMMA ConcatElements ==
  ASSUME NEW S, NEW s \in Seq(S), NEW t \in Seq(S)
  PROVE  /\ \A i \in DOMAIN s : \E k \in DOMAIN (s \o t) : s[i] = (s \o t)[k]
         /\ \A i \in DOMAIN t : \E k \in DOMAIN (s \o t) : t[i] = (s \o t)[k]
<1>1. /\ s \o t \in Seq(S)
      /\ Len(s \o t) = Len(s) + Len(t)
      /\ \A i \in 1 .. Len(s) + Len(t) :
           (s \o t)[i] = IF i <= Len(s) THEN s[i] ELSE t[i - Len(s)]
  BY ConcatProperties
<1>2. ASSUME NEW i \in DOMAIN s PROVE i \in DOMAIN (s \o t) /\ (s \o t)[i] = s[i]
  BY <1>1
<1>3. ASSUME NEW i \in DOMAIN t
      PROVE  Len(s) + i \in DOMAIN (s \o t) /\ (s \o t)[Len(s) + i] = t[i]
  BY <1>1
<1>4. QED BY <1>2, <1>3

LEMMA AtMostOne ==
  ASSUME NEW S, NEW s \in Seq(S), Len(s) <= 1
  PROVE  \A i \in DOMAIN s : i = 1
OBVIOUS

LEMMA JobShape ==
  ASSUME Single
  PROVE  /\ job.linked = job.jitted
         /\ \A i \in DOMAIN job.jitted : i = 1
         /\ \A i \in DOMAIN job.native : \E k \in DOMAIN job.files : job.native[i] = job.files[k]
         /\ \A i \in DOMAIN job.jitted : \E k \in DOMAIN job.files : job.jitted[i] = job.files[k]
         /\ \A i \in DOMAIN job.files : job.files[i] \in SrcFile
         /\ \A i \in DOMAIN job.jitted : job.jitted[i] \in SrcFile
         /\ \A i, k \in DOMAIN job.files : job.files[i] = job.files[k] => i = k
<1> USE DEF Single
<1>1. job.files \in Seq(SrcFile) /\ job.native \in Seq(SrcFile) /\ job.jitted \in Seq(SrcFile)
  BY DEF TypeInv, TypeOK, Job
<1>2. job.files = job.native \o job.jitted /\ job.linked = job.jitted
  BY DEF PipelineJob
<1>4. /\ \A i \in DOMAIN job.native : \E k \in DOMAIN job.files : job.native[i] = job.files[k]
      /\ \A i \in DOMAIN job.jitted : \E k \in DOMAIN job.files : job.jitted[i] = job.files[k]
  <2>1. /\ \A i \in DOMAIN job.native : \E k \in DOMAIN (job.native \o job.jitted) :
             job.native[i] = (job.native \o job.jitted)[k]
        /\ \A i \in DOMAIN job.jitted : \E k \in DOMAIN (job.native \o job.jitted) :
             job.jitted[i] = (job.native \o job.jitted)[k]
    <3> HIDE DEF Single
    <3>1. \A u, v \in Seq(SrcFile) :
            /\ \A i \in DOMAIN u : \E k \in DOMAIN (u \o v) : u[i] = (u \o v)[k]
            /\ \A i \in DOMAIN v : \E k \in DOMAIN (u \o v) : v[i] = (u \o v)[k]
      BY ConcatElements
    <3>2. QED BY <1>1, <3>1, Zenon
  <2>2. QED BY <1>2, <2>1, Zenon
<1>5. /\ \A i \in DOMAIN job.files : job.files[i] \in SrcFile
      /\ \A i \in DOMAIN job.jitted : job.jitted[i] \in SrcFile
  BY <1>1
<1>6. \A i \in DOMAIN job.jitted : i = 1
  BY <1>1, <1>2, AtMostOne DEF SingleLive
<1>7. \A i, k \in DOMAIN job.files : job.files[i] = job.files[k] => i = k
  BY DEF PipelineJob, IsInjective
<1>8. QED BY <1>1, <1>2, <1>4, <1>5, <1>6, <1>7

\* Setting up a file whose module exists moves it from its slot to m_module.
LEMMA SetupCopies ==
  ASSUME TypeOK, NEW f \in SrcFile, m_module # NoModule => m_file = f,
         Copy(f) # NoModule, Setup(f)
  PROVE  /\ m_module' # NoModule
         /\ m_file' = f
         /\ \A g \in SrcFile : Copy(g)' = Copy(g)
<1>1. Refiled(f)[f] = Copy(f) /\ \A g \in SrcFile \ {f} : Refiled(f)[g] = modules[g]
  BY DEF Refiled, Copy, TypeOK, GenTypeOK
<1>2. SetupTake(f)
  BY <1>1 DEF Setup, SetupCreate
<1>3. m_module' = Copy(f) /\ m_file' = f
  BY <1>1, <1>2 DEF SetupTake
<1>4. \A g \in SrcFile \ {f} : modules'[g] = modules[g]
  BY <1>1, <1>2, SlotsOfSetup DEF SetupTake
<1>5. QED BY <1>3, <1>4 DEF Copy

\* Generating a declared file completes it, and leaves the other files alone.
LEMMA GenerateCopies ==
  ASSUME TypeInv, Kept, Generate, Declared(m_file)
  PROVE  /\ m_file \in SrcFile /\ m_file' = m_file
         /\ modules'[m_file] = Complete(m_file)
         /\ Copy(m_file)' = Complete(m_file)
         /\ \A g \in SrcFile \ {m_file} : Copy(g)' = Copy(g)
<1>1. m_file \in SrcFile /\ m_module \in Module /\ m_module # NoModule
  BY DEF Generate, FileSet, TypeInv, TypeOK, GenTypeOK
<1>2. m_module.of = m_file /\ m_module.sigs = {m_file} /\ m_module.bodies \subseteq {m_file}
  BY <1>1 DEF Declared, Copy, Kept, OwnModule
<1>3. [m_module EXCEPT !.bodies = @ \cup {m_file}] = Complete(m_file)
  BY <1>1, <1>2 DEF Module, Complete
<1>4. /\ m_file' = m_file /\ m_module' = NoModule
      /\ modules'[m_file] = Complete(m_file)
      /\ \A g \in SrcFile \ {m_file} : modules'[g] = modules[g]
  BY <1>1, <1>3 DEF Generate, TypeInv, TypeOK, GenTypeOK
<1>5. QED BY <1>1, <1>4 DEF Copy

\* The file of a loop after preGen is one that preGen declared.
LEMMA LoopFile ==
  ASSUME Single, Ships, NEW loop \in Loops \ {"create"}, InLoop(loop), added = <<>>
  PROVE  pos \in DOMAIN Over(pc) /\ file = Over(pc)[pos] /\ file \in SrcFile /\ Declared(file)
<1>1. pos \in DOMAIN Over(pc)
  BY DEF Single, TypeInv, TypeOK, Job, InLoop, Over, Loops
<1>2. \E k \in DOMAIN job.files : file = job.files[k]
  BY <1>1, JobShape DEF InLoop, Loops, Over, file
<1>3. QED BY <1>1, <1>2, JobShape DEF Ships, DeclaredInv, InLoop, Loops, Calls, Declaring, file

LEMMA SetupShips ==
  ASSUME Single, Ships, NEW loop \in Loops \ {"create"}, InLoop(loop), added = <<>>,
         m_module # NoModule => m_file = file,
         Setup(file), job' = job
  PROVE  /\ m_module' # NoModule /\ m_file' = file
         /\ \A g \in SrcFile : Copy(g)' = Copy(g)
         /\ \A g \in SrcFile : Declared(g)' <=> Declared(g)
         /\ \A i \in DOMAIN job.files : Declared(job.files[i])'
<1>1. file \in SrcFile /\ Declared(file) /\ \A i \in DOMAIN job.files : Declared(job.files[i])
  BY LoopFile DEF Ships, DeclaredInv, InLoop, Loops, Calls, Declaring
<1>2. /\ m_module' # NoModule /\ m_file' = file
      /\ \A g \in SrcFile : Copy(g)' = Copy(g)
  BY <1>1, SetupCopies DEF Declared, Single, TypeInv
<1>3. \A g \in SrcFile : Declared(g)' <=> Declared(g)
  BY <1>2 DEF Declared
<1>4. QED BY <1>1, <1>2, <1>3, JobShape

LEMMA GenerateShips ==
  ASSUME Single, Ships, Generate, pc \in {"generateNative", "generateLive"}, job' = job
  PROVE  /\ m_file \in SrcFile /\ m_file' = m_file /\ modules'[m_file] = Complete(m_file)
         /\ Copy(m_file)' = Complete(m_file)
         /\ \A i \in DOMAIN job.files : Declared(job.files[i])'
<1>1. added = <<>> /\ \A i \in DOMAIN job.files : Declared(job.files[i])
  BY DEF Ships, LinkInv, DeclaredInv, Linking, Ended, Calls, Declaring
<1>2. \E k \in DOMAIN job.files : m_file = job.files[k]
  BY JobShape DEF Ships, NativeInv, LinkInv
<1>3. Declared(m_file)
  BY <1>1, <1>2
<1>4. /\ m_file \in SrcFile /\ m_file' = m_file /\ modules'[m_file] = Complete(m_file)
      /\ Copy(m_file)' = Complete(m_file)
      /\ \A g \in SrcFile \ {m_file} : Copy(g)' = Copy(g)
  BY <1>3, GenerateCopies DEF Single
<1>5. Declared(m_file)'
  <2>1. Complete(m_file) # NoModule
    BY <1>4, NoModuleAssumption DEF Complete, Module
  <2>2. QED BY <1>4, <2>1 DEF Declared, Complete
<1>6. \A g \in SrcFile \ {m_file} : Declared(g) => Declared(g)'
  BY <1>4 DEF Declared
<1>7. QED BY <1>1, <1>4, <1>5, <1>6, JobShape

\* Steps that leave every module, and what was shipped, where it is.
LEMMA SameModules ==
  ASSUME UNCHANGED <<modules, m_module, m_file, job, written, added>>
  PROVE  /\ \A g : Copy(g)' = Copy(g)
         /\ \A g : Declared(g)' <=> Declared(g)
         /\ ShippedAll' <=> ShippedAll
BY DEF Copy, Declared, ShippedAll

LEMMA ShipStep == TypeInv /\ CustodyInv /\ ShipInv /\ [Next]_vars => ShipInv'
<1> SUFFICES ASSUME TypeInv, CustodyInv, ShipInv, [Next]_vars, (SingleLive /\ PipelineJob(job))'
             PROVE  Ships'
  BY DEF ShipInv, Ships
<1>0. job' = job /\ Single /\ Ships
  BY JobFixed DEF Single, Ships, ShipInv, CustodyInv, Orderly, SingleLive, PipelineJob
<1> HIDE DEF Single, Ships
<1>1. CASE Begin
  <2>1. ShippedAll' /\ added' = added /\ pos' = pos /\ pc' \in {"done", "create"}
    BY <1>0, <1>1, SameModules DEF Begin, Step, genVars, Ships
  <2>2. pos = 1
    BY <1>0, <1>1 DEF Begin, Ships, DeclaredInv
  <2>3. \A i \in DOMAIN job.files : ~ (i < 1)
    BY <1>0 DEF Single, TypeInv, TypeOK, Job
  <2>4. pc = "begin" /\ written' = written /\ written = <<>> /\ added = <<>>
    BY <1>0, <1>1 DEF Begin, Step, Ships, NativeInv, LinkInv, Declaring, Linking, Ended
  <2>5. DeclaredInv' /\ NativeInv'
    BY <1>0, <2>1, <2>2, <2>3, <2>4 DEF DeclaredInv, NativeInv, Declaring, Native, Loops, Calls
  <2>6. LinkInv'
    BY <2>1, <2>4 DEF LinkInv, Linking, Ended
  <2>7. QED BY <2>1, <2>5, <2>6 DEF Ships
<1>2. CASE LeaveLoop
  <2>1. /\ UNCHANGED <<modules, m_module, m_file, job, written, added>>
        /\ pc \in Loops /\ pos > Len(Over(pc)) /\ pos' = 1 /\ pc' = After[pc]
    BY <1>0, <1>2 DEF LeaveLoop, genVars
  <2>2. ShippedAll' /\ (\A g : Copy(g)' = Copy(g)) /\ (\A g : Declared(g)' <=> Declared(g))
    BY <1>0, <2>1, SameModules DEF Ships
  <2>3. /\ \A i \in DOMAIN job.files : pos > Len(job.files) => i < pos
        /\ job.jitted # <<>> => Len(job.jitted) >= 1
        /\ pos \in Nat /\ pos >= 1
        /\ Len(job.linked) = Len(job.jitted)
    BY <1>0 DEF Single, TypeInv, TypeOK, Job, PipelineJob
  <2>4. CASE pc = "create"
    <3>1. \A i \in DOMAIN job.files : Declared(job.files[i])
      BY <1>0, <2>1, <2>3, <2>4 DEF Ships, DeclaredInv, Over
    <3>2. pc' = "setupNative" /\ added = <<>> /\ Len(written) = 0
      BY <1>0, <2>1, <2>4 DEF After, Ships, LinkInv, NativeInv, Declaring, Linking, Ended
    <3>3. QED BY <1>0, <2>1, <2>2, <3>1, <3>2
            DEF Ships, DeclaredInv, NativeInv, LinkInv, Declaring, Native, Linking, Ended
  <2>5. CASE pc \in {"setupNative", "setupEmit"}
    <3>1. /\ pc' \in {"setupEmit", "clang"} /\ added = <<>>
          /\ \A i \in DOMAIN job.files : Declared(job.files[i])
      BY <1>0, <2>1, <2>5 DEF After, Ships, DeclaredInv, LinkInv, Declaring, Linking, Ended, Loops
    <3>2. QED BY <1>0, <2>1, <2>2, <3>1
            DEF Ships, DeclaredInv, NativeInv, LinkInv, Declaring, Native, Linking, Ended
  <2>6. CASE pc = "setupLive"
    <3>1. /\ pc' = "setupLink" /\ added = <<>>
          /\ \A i \in DOMAIN job.files : Declared(job.files[i])
      BY <1>0, <2>1, <2>6 DEF After, Ships, DeclaredInv, LinkInv, Declaring, Linking, Ended, Loops
    <3>2. job.jitted # <<>> => pos > 1
      BY <2>1, <2>3, <2>6 DEF Over
    <3>3. job.jitted # <<>> => Copy(job.jitted[1])' = Complete(job.jitted[1])
      BY <1>0, <2>2, <2>1, <2>6, <3>2 DEF Ships, LinkInv
    <3>4. QED BY <1>0, <2>1, <2>2, <3>1, <3>3
            DEF Ships, DeclaredInv, NativeInv, LinkInv, Declaring, Native, Linking, Ended
  <2>7. CASE pc = "setupLink"
    <3>1. /\ pc' = "moveContext" /\ added = <<>>
          /\ \A i \in DOMAIN job.files : Declared(job.files[i])
      BY <1>0, <2>1, <2>7 DEF After, Ships, DeclaredInv, LinkInv, Declaring, Linking, Ended, Loops
    <3>2. job.jitted # <<>> => Copy(job.jitted[1])' = Complete(job.jitted[1])
      BY <1>0, <2>2, <2>1, <2>7, <3>1 DEF Ships, LinkInv, Linking
    <3>3. QED BY <1>0, <2>1, <2>2, <3>1, <3>2
            DEF Ships, DeclaredInv, NativeInv, LinkInv, Declaring, Native, Linking, Ended
  <2>8. CASE pc = "setupAdd"
    <3>1. pc' = "done"
      BY <2>1, <2>8 DEF After
    <3>2. QED BY <2>2, <3>1
            DEF Ships, DeclaredInv, NativeInv, LinkInv, Declaring, Native, Linking, Ended, Loops, Calls
  <2>9. QED BY <2>1, <2>4, <2>5, <2>6, <2>7, <2>8 DEF Loops
<1>3. CASE PreGenCreate
  <2>1. /\ pc = "create" /\ pos \in DOMAIN job.files /\ file = job.files[pos] /\ file \in SrcFile
    BY <1>0, <1>3, FileType DEF PreGenCreate, InLoop, file, Over, Loops, Single, TypeInv, TypeOK, Job
  <2>2. /\ modules' = [modules EXCEPT ![file] = Emitted(file)]
        /\ m_module = NoModule /\ m_module' = NoModule /\ m_file' = file
        /\ pc' = "generateSigs" /\ UNCHANGED <<pos, written, added>>
    BY <1>0, <1>3, <2>1 DEF PreGenCreate, Create, CreateIn, Step, Single, HeldWhere, Empty
  <2>3. \A g \in SrcFile \ {file} : Declared(g) => Declared(g)'
    BY <1>0, <2>1, <2>2 DEF Declared, Copy, Single, TypeInv, TypeOK, GenTypeOK
  <2>4. ASSUME NEW i \in DOMAIN job.files, i < pos PROVE Declared(job.files[i])'
    <3>1. Declared(job.files[i])
      BY <1>0, <2>1, <2>4 DEF Ships, DeclaredInv
    <3>2. job.files[i] # file /\ job.files[i] \in SrcFile
      BY <1>0, <2>1, <2>4, JobShape DEF Single, TypeInv, TypeOK
    <3>3. QED BY <1>0, <2>3, <3>1, <3>2
  <2>5. DeclaredInv'
    BY <1>0, <2>1, <2>2, <2>4 DEF DeclaredInv, Declaring
  <2>6. NativeInv' /\ LinkInv' /\ ShippedAll'
    BY <1>0, <2>1, <2>2 DEF NativeInv, LinkInv, ShippedAll, Ships, Native, Linking, Ended, Declaring
  <2>7. QED BY <2>5, <2>6 DEF Ships
<1>4. CASE PreGenSigs
  <2>1. /\ pc = "generateSigs" /\ pos \in DOMAIN job.files /\ m_file = job.files[pos]
        /\ m_file \in SrcFile /\ modules[m_file] # NoModule
        /\ modules' = [modules EXCEPT ![m_file].sigs = @ \cup {m_file}]
        /\ m_module = NoModule /\ m_module' = NoModule /\ m_file' = m_file
        /\ pc' = "create" /\ pos' = pos + 1 /\ UNCHANGED <<written, added>>
    BY <1>0, <1>4, JobShape DEF PreGenSigs, GenerateSigs, NextFile, Ships, DeclaredInv, Single,
       HeldWhere, Empty
  <2>2. modules[m_file] \in Module /\ modules[m_file].sigs \subseteq {m_file}
    BY <1>0, <2>1 DEF Single, Kept, OwnModule, TypeInv, TypeOK, GenTypeOK
  <2>3. /\ modules'[m_file] = [modules[m_file] EXCEPT !.sigs = @ \cup {m_file}]
        /\ \A g \in SrcFile \ {m_file} : modules'[g] = modules[g]
    BY <1>0, <2>1 DEF Single, TypeInv, TypeOK, GenTypeOK
  <2>4. modules'[m_file] \in Module /\ modules'[m_file].sigs = {m_file}
    BY <2>1, <2>2, <2>3 DEF Module
  <2>5. Declared(m_file)'
    BY <2>1, <2>4, NoModuleAssumption DEF Declared, Copy
  <2>6. \A g \in SrcFile \ {m_file} : Declared(g) => Declared(g)'
    BY <2>1, <2>3 DEF Declared, Copy
  <2>7. ASSUME NEW i \in DOMAIN job.files, i < pos + 1 PROVE Declared(job.files[i])'
    <3>1. i < pos => Declared(job.files[i])
      BY <1>0, <2>1, <2>7 DEF Ships, DeclaredInv
    <3>2. i = pos \/ i < pos
      BY <1>0, <2>7 DEF Single, TypeInv, TypeOK, Job
    <3>3. job.files[i] \in SrcFile
      BY <1>0, JobShape
    <3>4. QED BY <1>0, <2>1, <2>5, <2>6, <3>1, <3>2, <3>3
  <2>8. DeclaredInv'
    BY <1>0, <2>1, <2>7 DEF DeclaredInv, Declaring
  <2>9. NativeInv' /\ LinkInv' /\ ShippedAll'
    BY <1>0, <2>1 DEF NativeInv, LinkInv, ShippedAll, Ships, Native, Linking, Ended, Declaring
  <2>10. QED BY <2>8, <2>9 DEF Ships
<1>5. CASE NativeSetup
  <2>1. added = <<>> /\ m_module = NoModule
    BY <1>0, <1>5 DEF NativeSetup, InLoop, Ships, LinkInv, Linking, Ended, Single, HeldWhere, Empty
  <2>2. m_module' # NoModule /\ m_file' = file /\ \A i \in DOMAIN job.files : Declared(job.files[i])'
    BY <1>0, <1>5, <2>1, SetupShips DEF NativeSetup, Loops
  <2>3. pos \in DOMAIN job.native /\ file = job.native[pos]
    BY <1>0, <1>5, <2>1, LoopFile DEF NativeSetup, InLoop, Loops, Over
  <2>4. pc' = "generateNative" /\ pos' = pos /\ written' = written /\ added' = added
    BY <1>5 DEF NativeSetup, Step
  <2>5. DeclaredInv'
    BY <1>0, <2>2, <2>4 DEF DeclaredInv
  <2>6. NativeInv'
    BY <1>0, <1>5, <2>2, <2>3, <2>4 DEF NativeInv, Ships, NativeSetup, InLoop, Native, Declaring
  <2>7. LinkInv' /\ ShippedAll'
    BY <1>0, <2>1, <2>4 DEF LinkInv, ShippedAll, Ships, Linking, Ended
  <2>8. QED BY <2>5, <2>6, <2>7 DEF Ships
<1>6. CASE NativeGenerate
  <2>1. /\ m_file' = m_file /\ modules'[m_file] = Complete(m_file)
        /\ \A i \in DOMAIN job.files : Declared(job.files[i])'
    BY <1>0, <1>6, GenerateShips DEF NativeGenerate
  <2>2. pc' = "write" /\ pos' = pos /\ written' = written /\ added' = added
    BY <1>6 DEF NativeGenerate, Step
  <2>3. DeclaredInv'
    BY <1>0, <2>1, <2>2 DEF DeclaredInv
  <2>4. NativeInv'
    BY <1>0, <1>6, <2>1, <2>2 DEF NativeInv, Ships, NativeGenerate, Native, Declaring, Complete
  <2>5. LinkInv' /\ ShippedAll'
    BY <1>0, <1>6, <2>2 DEF LinkInv, ShippedAll, Ships, NativeGenerate, Linking, Ended
  <2>6. QED BY <2>3, <2>4, <2>5 DEF Ships
<1>7. CASE NativeWrite
  <2>1. /\ UNCHANGED <<modules, m_file, added, job>> /\ m_module' = m_module
        /\ written' = Append(written, <<m_file, modules[m_file]>>)
        /\ pc = "write" /\ pc' = "setupNative" /\ pos' = pos + 1
    BY <1>0, <1>7 DEF NativeWrite, Write, NextFile, Single, HeldWhere, Empty
  <2>2. /\ Len(written) = pos - 1 /\ added = <<>> /\ m_file = job.native[pos]
        /\ modules[m_file] = Complete(m_file)
        /\ \A i \in DOMAIN job.files : Declared(job.files[i])
    BY <1>0, <2>1 DEF Ships, NativeInv, LinkInv, DeclaredInv, Native, Linking, Ended, Calls, Declaring
  <2>3. \A i \in DOMAIN job.files : Declared(job.files[i])'
    BY <1>0, <2>1, <2>2 DEF Declared, Copy
  <2>4. DeclaredInv'
    BY <2>1, <2>3 DEF DeclaredInv
  <2>5. Len(written') = Len(written) + 1 /\ \A i \in DOMAIN written' :
          written'[i] = IF i <= Len(written) THEN written[i] ELSE <<m_file, modules[m_file]>>
    BY <1>0, <2>1 DEF Single, TypeInv, TypeOK
  <2>6. NativeInv'
    BY <1>0, <2>1, <2>2, <2>5 DEF NativeInv, Native, Declaring, Single, TypeInv, TypeOK
  <2>7. ShippedAll'
    <3>1. ASSUME NEW i \in DOMAIN written'
          PROVE  written'[i] = <<job.native[i], Complete(job.native[i])>>
      <4>1. CASE i \in DOMAIN written
        BY <1>0, <2>5, <4>1 DEF Ships, ShippedAll, Single, TypeInv, TypeOK
      <4>2. CASE i \notin DOMAIN written
        <5>1. i = pos
          BY <1>0, <2>1, <2>2, <2>5, <4>2 DEF Single, TypeInv, TypeOK
        <5>2. QED BY <1>0, <2>2, <2>5, <4>2, <5>1 DEF Single, TypeInv, TypeOK
      <4>3. QED BY <4>1, <4>2
    <3>2. QED BY <1>0, <2>1, <3>1 DEF Ships, ShippedAll
  <2>8. LinkInv'
    BY <1>0, <2>1, <2>2 DEF LinkInv, Linking, Ended
  <2>9. QED BY <2>4, <2>6, <2>7, <2>8 DEF Ships
<1>8. CASE NativeRejected
  BY <1>0, <1>8, SameModules DEF NativeRejected, Step, genVars, Ships, DeclaredInv, NativeInv,
     LinkInv, Declaring, Native, Linking, Ended, Loops, Calls
<1>9. CASE EmitSetup
  <2>1. added = <<>> /\ m_module = NoModule
    BY <1>0, <1>9 DEF EmitSetup, InLoop, Ships, LinkInv, Linking, Ended, Single, HeldWhere, Empty
  <2>2. m_module' # NoModule /\ m_file' = file /\ \A i \in DOMAIN job.files : Declared(job.files[i])'
    BY <1>0, <1>9, <2>1, SetupShips DEF EmitSetup, Loops
  <2>3. pc' = "emit" /\ pos' = pos /\ written' = written /\ added' = added
    BY <1>9 DEF EmitSetup, Step
  <2>4. DeclaredInv'
    BY <1>0, <2>2, <2>3 DEF DeclaredInv
  <2>5. NativeInv' /\ LinkInv' /\ ShippedAll'
    BY <1>0, <2>1, <2>3 DEF NativeInv, LinkInv, ShippedAll, Ships, Native, Declaring, Linking, Ended
  <2>6. QED BY <2>4, <2>5 DEF Ships
<1>10. CASE Emit
  <2>1. /\ pc = "emit" /\ pc' = "setupEmit" /\ UNCHANGED <<m_file, written, added>>
        /\ setupFlag /\ m_module # NoModule
        /\ modules' = [modules EXCEPT ![m_file] = m_module] /\ m_module' = NoModule
    BY <1>0, <1>10 DEF Emit, EmitHeader, NextFile, Ships, DeclaredInv
  <2>2. added = <<>> /\ \A i \in DOMAIN job.files : Declared(job.files[i])
    BY <1>0, <2>1 DEF Ships, LinkInv, DeclaredInv, Linking, Ended, Calls, Declaring
  <2>3. \A g \in SrcFile : Copy(g)' = Copy(g)
    BY <1>0, <2>1 DEF Copy, Single, TypeInv, TypeOK, GenTypeOK, FileSet
  <2>4. \A i \in DOMAIN job.files : Declared(job.files[i])'
    BY <1>0, <2>2, <2>3, JobShape DEF Declared
  <2>5. DeclaredInv'
    BY <1>0, <2>1, <2>4 DEF DeclaredInv
  <2>6. NativeInv' /\ LinkInv' /\ ShippedAll'
    BY <1>0, <2>1, <2>2 DEF NativeInv, LinkInv, ShippedAll, Ships, Native, Declaring, Linking, Ended
  <2>7. QED BY <2>5, <2>6 DEF Ships
<1>11. CASE RunClang
  <2>1. /\ pc = "clang" /\ UNCHANGED <<modules, m_module, m_file, job, written, added, pos>>
        /\ pc' \in {"setupLive", "exit"}
    BY <1>0, <1>11 DEF RunClang, Step, genVars
  <2>2. pos = 1
    BY <1>0, <2>1 DEF Ships, LinkInv
  <2>3. QED BY <1>0, <2>1, <2>2, SameModules DEF Ships, DeclaredInv, NativeInv, LinkInv,
          Declaring, Native, Linking, Ended, Loops, Calls
<1>12. CASE LiveSetup
  <2>1. added = <<>> /\ m_module = NoModule
    BY <1>0, <1>12 DEF LiveSetup, InLoop, Ships, LinkInv, Linking, Ended, Single, HeldWhere, Empty
  <2>2. m_module' # NoModule /\ m_file' = file /\ \A i \in DOMAIN job.files : Declared(job.files[i])'
    BY <1>0, <1>12, <2>1, SetupShips DEF LiveSetup, Loops
  <2>3. pos \in DOMAIN job.jitted /\ file = job.jitted[pos]
    BY <1>0, <1>12, <2>1, LoopFile DEF LiveSetup, InLoop, Loops, Over
  <2>4. pc' = "generateLive" /\ UNCHANGED <<pos, written, added>>
    BY <1>12 DEF LiveSetup, Step
  <2>5. DeclaredInv'
    BY <1>0, <2>2, <2>4 DEF DeclaredInv
  <2>6. NativeInv' /\ ShippedAll'
    BY <1>0, <2>1, <2>4 DEF NativeInv, ShippedAll, Ships, Native, Declaring
  <2>7. LinkInv'
    BY <1>0, <2>1, <2>2, <2>3, <2>4 DEF LinkInv, Linking, Ended
  <2>8. QED BY <2>5, <2>6, <2>7 DEF Ships
<1>13. CASE LiveGenerate
  <2>1. pc = "generateLive" /\ Generate /\ pc' = "setupLive" /\ UNCHANGED <<written, added>>
    BY <1>13 DEF LiveGenerate, NextFile
  <2>2. /\ Copy(m_file)' = Complete(m_file)
        /\ \A i \in DOMAIN job.files : Declared(job.files[i])'
    BY <1>0, <2>1, GenerateShips
  <2>3. added = <<>> /\ pos \in DOMAIN job.jitted /\ m_file = job.jitted[pos]
    BY <1>0, <2>1 DEF Ships, LinkInv, Linking, Ended
  <2>4. m_file = job.jitted[1]
    BY <1>0, <2>3, JobShape
  <2>5. DeclaredInv'
    BY <1>0, <2>1, <2>2 DEF DeclaredInv
  <2>6. NativeInv' /\ ShippedAll'
    BY <1>0, <2>1, <2>3 DEF NativeInv, ShippedAll, Ships, Native, Declaring
  <2>7. (Copy(job.jitted[1]) = Complete(job.jitted[1]))'
    BY <1>0, <2>1, <2>2, <2>4 DEF Copy, Generate
  <2>8. LinkInv'
    BY <1>0, <2>1, <2>3, <2>7 DEF LinkInv, Linking, Ended
  <2>9. QED BY <2>5, <2>6, <2>8 DEF Ships
<1>14. CASE LinkSetup
  <2>1. /\ pc = "setupLink" /\ InLoop("setupLink") /\ Setup(file) /\ pc' = "setupLink"
        /\ added = <<>> /\ UNCHANGED <<written, added>>
    BY <1>0, <1>14 DEF LinkSetup, NextFile, InLoop, Ships, LinkInv
  <2>2. m_module = NoModule
    BY <1>0, <2>1, LinkedFile DEF Single, TypeInv, InLoop
  <2>3. (\A g \in SrcFile : Copy(g)' = Copy(g)) /\ \A i \in DOMAIN job.files : Declared(job.files[i])'
    BY <1>0, <2>1, <2>2, SetupShips DEF Loops
  <2>4. job.jitted # <<>> => job.jitted[1] \in SrcFile /\ Copy(job.jitted[1]) = Complete(job.jitted[1])
    <3>1. job.jitted # <<>> => 1 \in DOMAIN job.jitted
      BY <1>0 DEF Single, TypeInv, TypeOK, Job
    <3>2. QED BY <1>0, <2>1, <3>1, JobShape DEF Ships, LinkInv, Linking
  <2>5. DeclaredInv'
    BY <1>0, <2>1, <2>3 DEF DeclaredInv
  <2>6. NativeInv' /\ ShippedAll'
    BY <1>0, <2>1 DEF NativeInv, ShippedAll, Ships, Native, Declaring
  <2>7. (job.jitted # <<>> => Copy(job.jitted[1]) = Complete(job.jitted[1]))'
    BY <1>0, <2>3, <2>4
  <2>8. LinkInv'
    BY <1>0, <2>1, <2>7 DEF LinkInv, Linking, Ended
  <2>9. QED BY <2>5, <2>6, <2>8 DEF Ships
<1>15. CASE LinkContext
  <2>1. /\ UNCHANGED <<modules, m_module, m_file, job, written, added, pos>>
        /\ pc = "moveContext" /\ pc' = "setupAdd" /\ added = <<>> /\ pos = 1
    BY <1>0, <1>15 DEF LinkContext, MoveContext, Step, Ships, LinkInv
  <2>2. QED BY <1>0, <2>1, SameModules
          DEF Ships, DeclaredInv, NativeInv, LinkInv, Native, Declaring, Linking, Ended, Loops, Calls
<1>16. CASE AddSetup
  <2>1. /\ pc = "setupAdd" /\ InLoop("setupAdd") /\ Setup(file) /\ pc' = "addIRModule"
        /\ UNCHANGED <<pos, written, added>>
    BY <1>16 DEF AddSetup, Step, InLoop
  <2>2. pos = 1 /\ file = job.linked[1] /\ job.linked # <<>> /\ (m_module # NoModule => m_file = file)
    <3>1. pos = 1 /\ file = job.linked[1] /\ job.linked # <<>>
      BY <1>0, <2>1, LinkedFile DEF Single, TypeInv, InLoop
    <3>2. QED BY <1>0, <2>1, <3>1 DEF Single, HeldWhere
  <2>3. added = <<>>
    <3>1. Len(added) = pos - 1 /\ added \in Seq(SrcFile \X Module)
      BY <1>0, <2>1 DEF Ships, LinkInv, Single, TypeInv, TypeOK
    <3>2. Len(added) = 0
      BY <2>2, <3>1
    <3>3. QED BY <3>1, <3>2
  <2>4. /\ m_module' # NoModule /\ m_file' = file
        /\ \A g \in SrcFile : Copy(g)' = Copy(g)
        /\ \A i \in DOMAIN job.files : Declared(job.files[i])'
    BY <1>0, <2>1, <2>2, <2>3, SetupShips DEF Loops
  <2>5. job.jitted = job.linked /\ job.jitted[1] \in SrcFile
    <3>1. job.linked # <<>> => 1 \in DOMAIN job.linked
      BY <1>0 DEF Single, TypeInv, TypeOK, Job
    <3>2. QED BY <1>0, <2>2, <3>1, JobShape
  <2>6. Copy(job.jitted[1]) = Complete(job.jitted[1])
    BY <1>0, <2>1, <2>2, <2>3, <2>5 DEF Ships, LinkInv, Linking
  <2>7. DeclaredInv'
    BY <1>0, <2>1, <2>4 DEF DeclaredInv
  <2>8. NativeInv' /\ ShippedAll'
    BY <1>0, <2>1 DEF NativeInv, ShippedAll, Ships, Native, Declaring
  <2>9. (Copy(job.jitted[1]) = Complete(job.jitted[1]))'
    BY <1>0, <2>4, <2>5, <2>6
  <2>10. Len(added) = pos - 1
    BY <1>0, <2>1 DEF Ships, LinkInv
  <2>11. LinkInv'
    BY <1>0, <2>1, <2>2, <2>4, <2>5, <2>9, <2>10 DEF LinkInv, Linking, Ended
  <2>12. QED BY <2>7, <2>8, <2>11 DEF Ships
<1>17. CASE AddModule
  <2>1. /\ pc = "addIRModule" /\ pc' = "setupAdd" /\ pos' = pos + 1
        /\ added' = Append(added, <<m_file, m_module>>) /\ UNCHANGED written
        /\ pos = 1 /\ m_file = job.jitted[1] /\ m_module # NoModule /\ Len(added) = pos - 1
    BY <1>0, <1>17 DEF AddModule, ReleaseModule, NextFile, Ships, LinkInv
  <2>2. added = <<>> /\ job.linked = job.jitted /\ job.jitted # <<>>
    <3>1. Len(added) = 0 /\ added \in Seq(SrcFile \X Module)
      BY <1>0, <2>1 DEF Single, TypeInv, TypeOK
    <3>2. QED BY <1>0, <2>1, <3>1, JobShape DEF Ships, LinkInv
  <2>3. m_module = Complete(m_file)
    BY <1>0, <2>1, <2>2 DEF Ships, LinkInv, Linking, Copy
  <2>4. added' = <<<<job.linked[1], Complete(job.linked[1])>>>>
    BY <2>1, <2>2, <2>3
  <2>5. Len(added') = 1 /\ DOMAIN added' = {1} /\ added'[1] = <<job.linked[1], Complete(job.linked[1])>>
    BY <2>4
  <2>6. ShippedAll'
    BY <1>0, <2>1, <2>5 DEF Ships, ShippedAll
  <2>7. DeclaredInv' /\ NativeInv'
    BY <2>1, <2>5 DEF DeclaredInv, NativeInv, Declaring, Native
  <2>8. LinkInv'
    BY <2>1, <2>5 DEF LinkInv, Linking, Ended
  <2>9. QED BY <2>6, <2>7, <2>8 DEF Ships
<1>18. CASE AddCrashes
  BY <1>0, <1>18, SameModules DEF AddCrashes, Step, genVars, Ships, DeclaredInv, NativeInv,
     LinkInv, Declaring, Native, Linking, Ended, Loops, Calls
<1>19. CASE Terminating
  BY <1>0, <1>19, SameModules DEF Terminating, vars, genVars, driverVars, Ships, DeclaredInv,
     NativeInv, LinkInv, Declaring
<1>20. CASE UNCHANGED vars
  BY <1>0, <1>20, SameModules DEF vars, genVars, driverVars, Ships, DeclaredInv, NativeInv, LinkInv, Declaring
<1>21. QED
  BY <1>1, <1>2, <1>3, <1>4, <1>5, <1>6, <1>7, <1>8, <1>9, <1>10, <1>11, <1>12, <1>13,
     <1>14, <1>15, <1>16, <1>17, <1>18, <1>19, <1>20 DEF Next

(***************************************************************************)
(* Every pipeline job over any set of files that links at most one of them *)
(* ships the complete module of the right file, in order.                  *)
(***************************************************************************)
THEOREM ShippedCorrect == Spec => []Shipped
<1>1. Init => ShipInv
  <2>1. Init => \A i \in DOMAIN job.files : ~ (i < 1)
    BY JobsAssumption DEF Init, Job
  <2>2. QED BY <2>1 DEF Init, GenInit, ShipInv, Ships, DeclaredInv, NativeInv, LinkInv, ShippedAll,
               Declaring, Native, Linking, Ended, Loops, Calls
<1>2. ShipInv => Shipped
  BY DEF ShipInv, Ships, ShippedAll, Shipped
<1>3. Init => CustodyInv
  BY DEF Init, GenInit, CustodyInv, Kept, HeldWhere, Empty
<1>4. QED BY <1>1, <1>2, <1>3, TypeInvariant, CustodyStep, ShipStep, PTL DEF Spec

-----------------------------------------------------------------------------
(***************************************************************************)
(* Where its loops are, which layers of variables and which initialisers   *)
(* they leave, what link() destroys, and that a job implements the         *)
(* abstract one of CompileJob.                                             *)
(***************************************************************************)

(***************************************************************************)
(* Where the loops are.  A call inside a loop works on the file the loop   *)
(* is at, and what was written and added counts the turns that are over.   *)
(***************************************************************************)
Body == [generateSigs |-> "create", generateNative |-> "setupNative", write |-> "setupNative",
         emit |-> "setupEmit", generateLive |-> "setupLive", addIRModule |-> "setupAdd"]

AfterNative == {"setupEmit", "emit", "clang", "setupLive", "generateLive"} \cup Linking

Positions ==
  /\ pc \in Loops => pos <= Len(Over(pc)) + 1
  /\ pc \in DOMAIN Body => pos <= Len(Over(Body[pc])) /\ m_file = Over(Body[pc])[pos]
  /\ pc \in {"begin", "clang", "moveContext"} => pos = 1

Counts ==
  /\ pc \in Declaring => written = <<>>
  /\ pc \in Native => Len(written) = pos - 1
  /\ pc \in AfterNative => Len(written) = Len(job.native)
  /\ pc \in {"setupAdd", "addIRModule"} => Len(added) = pos - 1
  /\ pc \notin {"setupAdd", "addIRModule"} \cup Ended => added = <<>>
  /\ pc = "begin" => m_file = NoFile
  /\ pc = "done" => \/ job.native = <<>> /\ job.link /\ m_file = NoFile
                    \/ Len(written) = Len(job.native) /\ Len(added) = Len(job.linked)

LEMMA OverType ==
  ASSUME TypeOK, NEW loop \in Loops
  PROVE  Over(loop) \in Seq(SrcFile) /\ Len(Over(loop)) \in Nat /\ (job' = job => Over(loop)' = Over(loop))
<1>1. Over(loop) \in Seq(SrcFile)
  BY DEF TypeOK, Job, Over, Loops
<1>2. job' = job => Over(loop)' = Over(loop)
  BY DEF Over, Loops
<1>3. QED BY <1>1, <1>2

LEMMA PositionsStep == TypeInv /\ Positions /\ [Next]_vars => Positions'
<1> SUFFICES ASSUME TypeInv, Positions, [Next]_vars PROVE Positions'
  OBVIOUS
<1>0. /\ job' = job /\ TypeOK /\ pos \in Nat \ {0}
      /\ \A loop \in Loops : Len(Over(loop)) \in Nat /\ Over(loop)' = Over(loop)
  BY JobFixed, OverType DEF TypeInv, TypeOK
<1>1. CASE Begin \/ NativeRejected \/ RunClang \/ LinkContext \/ AddCrashes
  BY <1>0, <1>1 DEF Begin, NativeRejected, RunClang, LinkContext, MoveContext, AddCrashes, Step, genVars,
     Positions, Body, Loops
<1>2. CASE LeaveLoop
  BY <1>0, <1>2 DEF LeaveLoop, After, Positions, Body, Loops
<1>3. CASE PreGenCreate
  BY <1>0, <1>3 DEF PreGenCreate, InLoop, file, Create, CreateIn, Step, Positions, Body, Loops
<1>4. CASE NativeSetup \/ EmitSetup \/ LiveSetup \/ AddSetup
  <2>1. m_file' = file
    BY <1>0, <1>4, FileType, SetupTypes DEF NativeSetup, EmitSetup, LiveSetup, AddSetup, Loops
  <2>2. QED BY <1>0, <1>4, <2>1 DEF NativeSetup, EmitSetup, LiveSetup, AddSetup, InLoop, file,
               Step, Positions, Body, Loops
<1>5. CASE PreGenSigs \/ NativeWrite \/ Emit \/ LiveGenerate \/ AddModule
  BY <1>0, <1>5, SMTT(30) DEF PreGenSigs, NativeWrite, Emit, LiveGenerate, AddModule, NextFile, Positions, Body, Loops
<1>6. CASE NativeGenerate
  BY <1>0, <1>6 DEF NativeGenerate, Generate, Step, Positions, Body, Loops
<1>7. CASE LinkSetup
  BY <1>0, <1>7 DEF LinkSetup, InLoop, NextFile, Positions, Body, Loops
<1>8. CASE Terminating \/ UNCHANGED vars
  BY <1>0, <1>8 DEF Terminating, vars, genVars, driverVars, Positions, Body, Loops
<1>9. QED BY <1>1, <1>2, <1>3, <1>4, <1>5, <1>6, <1>7, <1>8 DEF Next

LEMMA CountsStep == TypeInv /\ Positions /\ Counts /\ [Next]_vars => Counts'
<1> SUFFICES ASSUME TypeInv, Positions, Counts, [Next]_vars PROVE Counts'
  OBVIOUS
<1> USE DEF Declaring, Native, AfterNative, Linking, Ended, Loops
<1>0. /\ job' = job /\ TypeOK /\ pos \in Nat \ {0}
      /\ \A loop \in Loops : Len(Over(loop)) \in Nat /\ Over(loop)' = Over(loop)
      /\ Len(written) \in Nat /\ Len(added) \in Nat
      /\ (written = <<>> <=> Len(written) = 0) /\ (added = <<>> <=> Len(added) = 0)
  BY JobFixed, OverType DEF TypeInv, TypeOK
<1>1. CASE Begin
  BY <1>0, <1>1 DEF Begin, Step, genVars, Counts, Positions
<1>2. CASE LeaveLoop
  <2>1. pc = "create" => Len(written) = 0
    BY <1>0 DEF Counts
  <2>2. pc = "setupNative" => Len(written) = Len(job.native)
    BY <1>0, <1>2 DEF LeaveLoop, Counts, Positions, Over
  <2>3. pc = "setupAdd" => Len(added) = Len(job.linked) /\ Len(written) = Len(job.native)
    BY <1>0, <1>2 DEF LeaveLoop, Counts, Positions, Over
  <2>4. QED BY <1>0, <1>2, <2>1, <2>2, <2>3 DEF LeaveLoop, After, genVars, Counts
<1>3. CASE PreGenCreate \/ EmitSetup \/ LiveSetup \/ AddSetup \/ NativeSetup \/ LinkSetup
  BY <1>0, <1>3 DEF PreGenCreate, NativeSetup, EmitSetup, LiveSetup, AddSetup, LinkSetup, InLoop, Step,
     NextFile, Counts
<1>4. CASE PreGenSigs \/ Emit \/ LiveGenerate \/ NativeGenerate
  BY <1>0, <1>4 DEF PreGenSigs, Emit, LiveGenerate, NativeGenerate, Step, NextFile, Counts
<1>5. CASE NativeWrite
  <2>1. Len(written') = Len(written) + 1 /\ added' = added
    BY <1>0, <1>5 DEF NativeWrite, TypeOK
  <2>2. QED BY <1>0, <1>5, <2>1 DEF NativeWrite, NextFile, Counts
<1>6. CASE AddModule
  <2>1. Len(added') = Len(added) + 1 /\ written' = written
    BY <1>0, <1>6 DEF AddModule, TypeOK
  <2>2. QED BY <1>0, <1>6, <2>1 DEF AddModule, NextFile, Counts
<1>7. CASE NativeRejected \/ RunClang \/ LinkContext \/ AddCrashes
  <2>1. pc = "moveContext" => pos = 1
    BY DEF Positions
  <2>2. QED BY <1>0, <1>7, <2>1 DEF NativeRejected, RunClang, LinkContext, AddCrashes, Step, InLoop, Counts
<1>8. CASE Terminating \/ UNCHANGED vars
  BY <1>0, <1>8 DEF Terminating, vars, genVars, driverVars, Counts
<1>9. QED BY <1>1, <1>2, <1>3, <1>4, <1>5, <1>6, <1>7, <1>8 DEF Next

\* the number of files whose layer create() has pushed
Pushed == IF pc \in {"begin", "create"} THEN pos - 1
          ELSE IF pc = "generateSigs" THEN pos ELSE Len(job.files)
Scopes ==
  pc \in Declaring \cup Native =>
    /\ Len(m_vars) = IF pc \in {"generateNative", "write"} THEN Pushed + 1 ELSE Pushed
    /\ \A i \in 1 .. Pushed : m_vars[i] = job.files[i]
    /\ pc \in {"generateNative", "write"} => m_vars[Pushed + 1] = m_file

LEMMA AppendElements ==
  ASSUME NEW S, NEW s \in Seq(S), NEW e \in S
  PROVE  /\ Len(Append(s, e)) = Len(s) + 1
         /\ \A i \in 1 .. Len(s) : Append(s, e)[i] = s[i]
         /\ Append(s, e)[Len(s) + 1] = e
OBVIOUS

LEMMA SetupPushes ==
  ASSUME Setup(file)
  PROVE  m_vars' = Append(m_vars, file) /\ m_file' = file /\ UNCHANGED <<m_contxt, staticInit, initBlock>>
BY DEF Setup, SetupTake, SetupCreate, CreateIn

LEMMA ScopesStep == TypeInv /\ Positions /\ Scopes /\ [Next]_vars => Scopes'
<1> SUFFICES ASSUME TypeInv, Positions, Scopes, [Next]_vars PROVE Scopes'
  OBVIOUS
<1> USE DEF Declaring, Native, Ended, Loops
<1>0. /\ job' = job /\ TypeOK /\ pos \in Nat \ {0} /\ m_vars \in Seq(SrcFile)
      /\ \A loop \in Loops : Len(Over(loop)) \in Nat
      /\ Over("create") = job.files
  BY JobFixed, OverType DEF TypeInv, TypeOK, GenTypeOK, Over
<1>1. CASE Begin
  BY <1>0, <1>1 DEF Begin, Step, genVars, Scopes, Pushed
<1>2. CASE LeaveLoop
  <2>1. pc = "create" => pos - 1 = Len(job.files)
    BY <1>0, <1>2 DEF LeaveLoop, Positions
  <2>2. QED BY <1>0, <1>2, <2>1 DEF LeaveLoop, After, genVars, Scopes, Pushed
<1>3. CASE PreGenCreate
  <2>1. pc = "create" /\ pc' = "generateSigs" /\ pos' = pos /\ m_vars' = Append(m_vars, file)
    BY <1>3 DEF PreGenCreate, Create, CreateIn, InLoop, Step
  <2>2. file \in SrcFile /\ file = job.files[pos]
    BY <1>0, <1>3, <2>1, FileType DEF PreGenCreate, file
  <2>3. Len(m_vars) = pos - 1 /\ \A i \in 1 .. pos - 1 : m_vars[i] = job.files[i]
    BY <2>1 DEF Scopes, Pushed
  <2>4. Len(m_vars') = pos /\ \A i \in 1 .. pos : m_vars'[i] = job.files[i]
    BY <1>0, <2>1, <2>2, <2>3, AppendElements
  <2>5. QED BY <1>0, <2>1, <2>4 DEF Scopes, Pushed
<1>4. CASE PreGenSigs
  BY <1>0, <1>4 DEF PreGenSigs, GenerateSigs, NextFile, Scopes, Pushed
<1>5. CASE NativeSetup
  <2>1. /\ pc = "setupNative" /\ pc' = "generateNative" /\ pos' = pos
        /\ m_vars' = Append(m_vars, file) /\ m_file' = file /\ file \in SrcFile
    BY <1>0, <1>5, SetupPushes, FileType DEF NativeSetup, InLoop, Step
  <2>2. /\ Len(m_vars) = Len(job.files)
        /\ \A i \in 1 .. Len(job.files) : m_vars[i] = job.files[i]
    BY <2>1 DEF Scopes, Pushed
  <2>3. /\ Len(m_vars') = Len(job.files) + 1
        /\ \A i \in 1 .. Len(job.files) : m_vars'[i] = job.files[i]
        /\ m_vars'[Len(job.files) + 1] = m_file'
    BY <1>0, <2>1, <2>2, AppendElements
  <2>4. QED BY <1>0, <2>1, <2>3 DEF Scopes, Pushed
<1>6. CASE NativeGenerate
  BY <1>0, <1>6 DEF NativeGenerate, Generate, Step, Scopes, Pushed
<1>7. CASE NativeWrite
  <2>1. /\ pc = "write" /\ pc' = "setupNative" /\ pos' = pos + 1
        /\ m_vars' = SubSeq(m_vars, 1, Len(m_vars) - 1)
    BY <1>7 DEF NativeWrite, Write, NextFile
  <2>2. /\ Len(m_vars) = Len(job.files) + 1
        /\ \A i \in 1 .. Len(job.files) : m_vars[i] = job.files[i]
    BY <2>1 DEF Scopes, Pushed
  <2>3. Len(job.files) \in Nat
    BY <1>0
  <2>4. /\ Len(m_vars') = Len(job.files)
        /\ \A i \in 1 .. Len(job.files) : m_vars'[i] = m_vars[i]
    <3>1. \A i \in 1 .. Len(job.files) : m_vars[i] \in SrcFile
      BY <1>0, <2>2, <2>3
    <3>2. QED BY <2>1, <2>2, <2>3, <3>1, SubSeqProperties
  <2>5. QED BY <1>0, <2>1, <2>2, <2>4 DEF Scopes, Pushed
<1>8. CASE \/ NativeRejected \/ EmitSetup \/ Emit \/ RunClang \/ LiveSetup \/ LiveGenerate
           \/ LinkSetup \/ LinkContext \/ AddSetup \/ AddModule \/ AddCrashes
  BY <1>8 DEF NativeRejected, EmitSetup, Emit, RunClang, LiveSetup, LiveGenerate, LinkSetup,
     LinkContext, AddSetup, AddModule, AddCrashes, Step, NextFile, Scopes
<1>9. CASE Terminating \/ UNCHANGED vars
  BY <1>0, <1>9 DEF Terminating, vars, genVars, driverVars, Scopes, Pushed
<1>10. QED BY <1>1, <1>2, <1>3, <1>4, <1>5, <1>6, <1>7, <1>8, <1>9 DEF Next

(***************************************************************************)
(* Whatever files a job has, and in whatever order, write() pops what      *)
(* setup() pushed: a native file is generated in the layers of preGen()    *)
(* and its own.                                                            *)
(***************************************************************************)
THEOREM NativeScopeCleanCorrect == Spec => []NativeScopeClean
<1>1. Init => Positions /\ Scopes
  <2> SUFFICES ASSUME Init PROVE Positions /\ Scopes
    OBVIOUS
  <2>1. pc = "begin" /\ pos = 1 /\ m_vars = <<>>
    BY DEF Init, GenInit
  <2>2. QED BY <2>1 DEF Positions, Scopes, Pushed, Body, Loops, Native, Declaring
<1>2. TypeInv /\ Scopes => NativeScopeClean
  <2> SUFFICES ASSUME TypeInv, Scopes, pc \in {"generateNative", "write"}
               PROVE  m_vars = Append(job.files, m_file)
    BY DEF NativeScopeClean
  <2>1. m_vars \in Seq(SrcFile) /\ job.files \in Seq(SrcFile)
    BY DEF TypeInv, TypeOK, GenTypeOK, Job
  <2>2. /\ Len(m_vars) = Len(job.files) + 1
        /\ \A i \in 1 .. Len(job.files) : m_vars[i] = job.files[i]
        /\ m_vars[Len(job.files) + 1] = m_file
    BY DEF Scopes, Pushed, Native
  <2>3. Len(job.files) \in Nat
    BY <2>1
  <2>4. m_file \in SrcFile
    BY <2>1, <2>2, <2>3
  <2>5. Append(job.files, m_file) \in Seq(SrcFile)
    BY <2>1, <2>4
  <2>6. /\ Len(m_vars) = Len(Append(job.files, m_file))
        /\ \A i \in 1 .. Len(m_vars) : m_vars[i] = Append(job.files, m_file)[i]
    BY <2>1, <2>2, <2>3, <2>4, AppendElements
  <2>7. QED BY <2>1, <2>5, <2>6, SeqEqual
<1>3. QED BY <1>1, <1>2, TypeInvariant, PositionsStep, ScopesStep, PTL DEF Spec

(***************************************************************************)
(* The static initialiser: its block is stores to the globals of the files *)
(* declared so far that have static variables, and then a return for every *)
(* write().                                                                *)
(***************************************************************************)
Seen(f) == \E i \in DOMAIN job.files :
             job.files[i] = f /\ (pc \in Declaring => i < pos)
Initialised(f) == f \in job.statics /\ Seen(f)

\* b is the stores to every initialised file and then r returns, if anything was stored
Block(b, r) ==
  /\ \A f \in SrcFile : Initialised(f) => \E k \in DOMAIN b : b[k] = f
  /\ \E n \in Nat :
       /\ Len(b) = n + IF staticInit = NoFile THEN 0 ELSE r
       /\ staticInit = NoFile <=> n = 0
       /\ \A k \in DOMAIN b : IF k <= n THEN Initialised(b[k]) ELSE b[k] = Ret

Stores ==
  pc \notin Ended =>
    /\ staticInit # NoFile => Initialised(staticInit)
    /\ Block(initBlock, Len(written))

LEMMA ClosedBlock ==
  ASSUME TypeOK, NEW r \in Nat, Block(initBlock, r)
  PROVE  Block(Closed, r + 1)
<1>1. CASE staticInit = NoFile
  BY <1>1 DEF Closed, Block
<1>2. CASE staticInit # NoFile
  <2>1. PICK n \in Nat :
          /\ Len(initBlock) = n + r /\ n # 0
          /\ \A k \in DOMAIN initBlock : IF k <= n THEN Initialised(initBlock[k]) ELSE initBlock[k] = Ret
    BY <1>2 DEF Block
  <2>2. initBlock \in Seq(SrcFile \cup {Ret}) /\ Closed = Append(initBlock, Ret)
    BY <1>2 DEF Closed, TypeOK, GenTypeOK
  <2>3. /\ Closed \in Seq(SrcFile \cup {Ret}) /\ Len(Closed) = n + (r + 1)
        /\ \A k \in 1 .. n + r : Closed[k] = initBlock[k]
        /\ Closed[n + (r + 1)] = Ret
    BY <2>1, <2>2
  <2>4. ASSUME NEW k \in DOMAIN Closed
        PROVE  IF k <= n THEN Initialised(Closed[k]) ELSE Closed[k] = Ret
    <3>1. k \in 1 .. n + (r + 1)
      BY <2>3
    <3>2. CASE k = n + (r + 1)
      BY <2>3, <3>2
    <3>3. CASE k \in 1 .. n + r
      BY <2>1, <2>2, <2>3, <3>3
    <3>4. QED BY <3>1, <3>2, <3>3
  <2>5. ASSUME NEW f \in SrcFile, Initialised(f) PROVE \E k \in DOMAIN Closed : Closed[k] = f
    <3>1. PICK k \in DOMAIN initBlock : initBlock[k] = f
      BY <2>5 DEF Block
    <3>2. k \in 1 .. n + r /\ k \in DOMAIN Closed
      BY <2>1, <2>2, <2>3, <3>1
    <3>3. QED BY <2>3, <3>1, <3>2
  <2>6. QED BY <1>2, <2>1, <2>3, <2>4, <2>5 DEF Block
<1>3. QED BY <1>1, <1>2

\* The verifier accepts the module of a file that stores nothing, and one that holds the
\* initialiser when the block has the stores of its file alone and was closed once.
LEMMA VerifiedRule ==
  ASSUME TypeOK, NEW b, NEW r \in Nat, Block(b, r), b \in Seq(SrcFile \cup {Ret}),
         staticInit # NoFile => Initialised(staticInit),
         NEW f \in SrcFile, Seen(f), NEW m, m.of = f
  PROVE  Verified(m, staticInit, b) <=>
           f \notin job.statics \/ (r = 1 /\ \A g \in SrcFile : Initialised(g) => g = f)
<1>1. PICK n \in Nat :
        /\ Len(b) = n + IF staticInit = NoFile THEN 0 ELSE r
        /\ staticInit = NoFile <=> n = 0
        /\ \A k \in DOMAIN b : IF k <= n THEN Initialised(b[k]) ELSE b[k] = Ret
  BY DEF Block
<1>2. /\ Len(b) \in Nat /\ DOMAIN b = 1 .. Len(b)
      /\ \A g \in SrcFile : g # Ret
      /\ \A g : Initialised(g) => g \in SrcFile
      /\ Initialised(f) <=> f \in job.statics
  BY RetAssumption DEF Initialised, TypeOK, Job
<1>3. CASE staticInit = NoFile
  <2>1. Len(b) = 0 /\ staticInit # f
    BY <1>1, <1>3, NoFileAssumption
  <2>2. Verified(m, staticInit, b)
    BY <2>1 DEF Verified
  <2>3. f \notin job.statics
    BY <1>2, <2>1 DEF Block
  <2>4. QED BY <2>2, <2>3
<1>4. CASE staticInit = f
  <2>1. Len(b) = n + r /\ n > 0 /\ f \in job.statics
    BY <1>1, <1>4, NoFileAssumption DEF Initialised
  <2>2. (\A g \in SrcFile : Initialised(g) => g = f) <=> \A k \in 1 .. n : b[k] = f
    <3>1. \A k \in 1 .. n : Initialised(b[k])
      BY <1>1, <1>2, <2>1
    <3>2. ASSUME \A k \in 1 .. n : b[k] = f, NEW g \in SrcFile, Initialised(g) PROVE g = f
      <4>1. PICK k \in DOMAIN b : b[k] = g
        BY <3>2 DEF Block
      <4>2. k \in 1 .. n
        BY <1>1, <1>2, <4>1
      <4>3. QED BY <3>2, <4>1, <4>2
    <3>3. QED BY <1>2, <3>1, <3>2
  <2>3. Verified(m, staticInit, b) <=>
          b # <<>> /\ \A i \in 1 .. Len(b) : b[i] = IF i = Len(b) THEN Ret ELSE f
    BY <1>4 DEF Verified
  <2>4. ASSUME r = 1, \A k \in 1 .. n : b[k] = f
        PROVE  b # <<>> /\ \A i \in 1 .. Len(b) : b[i] = IF i = Len(b) THEN Ret ELSE f
    BY <1>1, <1>2, <2>1, <2>4
  <2>5. ASSUME \A i \in 1 .. Len(b) : b[i] = IF i = Len(b) THEN Ret ELSE f
        PROVE  r = 1 /\ \A k \in 1 .. n : b[k] = f
    <3>1. r # 0
      <4>1. SUFFICES ASSUME r = 0 PROVE FALSE
        OBVIOUS
      <4>2. n \in DOMAIN b /\ Len(b) = n
        BY <1>2, <2>1, <4>1
      <4>3. Initialised(b[n]) /\ b[n] = Ret
        BY <1>1, <2>5, <4>2
      <4>4. QED BY <1>2, <4>3
    <3>2. ~ (r >= 2)
      <4>1. SUFFICES ASSUME r >= 2 PROVE FALSE
        OBVIOUS
      <4>2. n + 1 \in DOMAIN b /\ ~ (n + 1 <= n) /\ n + 1 # Len(b)
        BY <1>2, <2>1, <4>1
      <4>3. b[n + 1] = Ret /\ b[n + 1] = f
        BY <1>1, <2>5, <4>2, <1>2
      <4>4. QED BY <1>2, <4>3
    <3>3. r = 1
      BY <3>1, <3>2
    <3>4. QED BY <2>1, <2>5, <3>3
  <2>6. QED BY <2>1, <2>2, <2>3, <2>4, <2>5
<1>5. CASE staticInit # NoFile /\ staticInit # f
  <2>1. Verified(m, staticInit, b) <=> \A i \in 1 .. Len(b) : b[i] # f
    BY <1>5 DEF Verified
  <2>2. (\A i \in 1 .. Len(b) : b[i] # f) <=> f \notin job.statics
    <3>1. ASSUME NEW i \in 1 .. Len(b), b[i] = f PROVE f \in job.statics
      BY <1>1, <1>2, <3>1
    <3>2. QED BY <1>2, <3>1 DEF Block
  <2>3. ~ \A g \in SrcFile : Initialised(g) => g = f
    BY <1>2, <1>5
  <2>4. QED BY <2>1, <2>2, <2>3
<1>6. QED BY <1>3, <1>4, <1>5

LEMMA StoresStep ==
  ASSUME TypeInv, Positions, Counts, Stores, [Next]_vars
  PROVE  Stores'
<1> USE DEF Declaring, Ended
<1>0. /\ job' = job /\ TypeOK /\ pos \in Nat \ {0}
      /\ job.files \in Seq(SrcFile) /\ Len(job.files) \in Nat
      /\ initBlock \in Seq(SrcFile \cup {Ret}) /\ Len(written) \in Nat
  BY JobFixed DEF TypeInv, TypeOK, GenTypeOK, Job
<1>1. ASSUME UNCHANGED <<staticInit, initBlock, written>>, pc \notin Ended,
             pc' \notin Ended => \A f \in SrcFile : Seen(f)' <=> Seen(f)
      PROVE  Stores'
  <2> SUFFICES ASSUME pc' \notin Ended PROVE Stores'
    BY DEF Stores
  <2>1. \A f : Initialised(f)' <=> Initialised(f)
    BY <1>0, <1>1 DEF Initialised, TypeOK, Job
  <2>2. Block(initBlock, Len(written))' <=> Block(initBlock, Len(written))
    BY <1>1, <2>1 DEF Block
  <2>3. QED BY <1>0, <1>1, <2>1, <2>2 DEF Stores
<1>2. ASSUME pc \notin Declaring, pc' \notin Declaring \cup Ended PROVE \A f : Seen(f)' <=> Seen(f)
  BY <1>0, <1>2 DEF Seen
<1>3. CASE Begin
  <2>1. \A f : pc' # "done" => (Seen(f)' <=> Seen(f))
    BY <1>0, <1>3 DEF Begin, Step, Seen
  <2>2. QED BY <1>0, <1>1, <1>3, <2>1 DEF Begin, Step, genVars
<1>4. CASE LeaveLoop
  <2>1. pc = "create" => \A f : Seen(f)' <=> Seen(f)
    <3>1. SUFFICES ASSUME pc = "create" PROVE \A f : Seen(f)' <=> Seen(f)
      OBVIOUS
    <3>2. pc' = "setupNative" /\ \A i \in DOMAIN job.files : i < pos
      BY <1>0, <1>4, <3>1 DEF LeaveLoop, After, Over
    <3>3. QED BY <1>0, <3>1, <3>2 DEF Seen
  <2>2. QED BY <1>0, <1>1, <1>2, <1>4, <2>1 DEF LeaveLoop, After, Loops, genVars
<1>5. CASE PreGenCreate
  <2>1. \A f : Seen(f)' <=> Seen(f)
    BY <1>0, <1>5 DEF PreGenCreate, InLoop, Step, Seen
  <2>2. QED BY <1>0, <1>1, <1>5, <2>1 DEF PreGenCreate, InLoop, Step, Create, CreateIn
<1>6. CASE PreGenSigs
  <2>1. /\ pc = "generateSigs" /\ pc' = "create" /\ pos' = pos + 1 /\ written' = written
        /\ pos \in DOMAIN job.files /\ m_file = job.files[pos] /\ written = <<>> /\ Len(written) = 0
    BY <1>0, <1>6 DEF PreGenSigs, NextFile, Positions, Body, Over, Counts
  <2>2. m_file \in SrcFile /\ \A f : Seen(f)' <=> Seen(f) \/ f = m_file
    BY <1>0, <2>1 DEF Seen
  <2>3. CASE m_file \notin job.statics
    <3>1. staticInit' = staticInit /\ initBlock' = initBlock
      BY <1>6, <2>3 DEF PreGenSigs, GenerateSigs
    <3>2. \A f : Initialised(f)' <=> Initialised(f)
      BY <1>0, <2>2, <2>3 DEF Initialised
    <3>3. QED BY <2>1, <3>1, <3>2 DEF Stores, Block
  <2>4. CASE m_file \in job.statics
    <3>1. /\ staticInit' = IF staticInit = NoFile THEN m_file ELSE staticInit
          /\ initBlock' = Append(initBlock, m_file)
      BY <1>6, <2>4 DEF PreGenSigs, GenerateSigs
    <3>2. \A f : Initialised(f)' <=> Initialised(f) \/ f = m_file
      BY <1>0, <2>2, <2>4 DEF Initialised
    <3>3. (staticInit # NoFile /\ Initialised(staticInit))'
      BY <2>1, <2>2, <3>1, <3>2, NoFileAssumption DEF Stores
    <3>4. PICK n \in Nat :
            /\ Len(initBlock) = n
            /\ \A k \in DOMAIN initBlock : Initialised(initBlock[k])
      BY <1>0, <2>1 DEF Stores, Block
    <3>5. /\ Len(initBlock') = n + 1
          /\ \A k \in 1 .. n : initBlock'[k] = initBlock[k]
          /\ initBlock'[n + 1] = m_file
          /\ DOMAIN initBlock = 1 .. n /\ DOMAIN initBlock' = 1 .. (n + 1)
      BY <1>0, <2>2, <3>1, <3>4
    <3>6. (\A k \in 1 .. (n + 1) : Initialised(initBlock[k]))'
      <4>1. ASSUME NEW k \in 1 .. n PROVE Initialised(initBlock[k])'
        <5>1. Initialised(initBlock[k]) /\ initBlock'[k] = initBlock[k]
          BY <3>4, <3>5
        <5>2. QED BY <3>2, <5>1
      <4>2. Initialised(initBlock[n + 1])'
        BY <3>2, <3>5
      <4>3. QED BY <4>1, <4>2
    <3>7. ASSUME NEW f \in SrcFile, Initialised(f)' PROVE \E k \in DOMAIN initBlock' : initBlock'[k] = f
      <4>1. CASE f = m_file
        BY <3>5, <4>1
      <4>2. CASE Initialised(f)
        <5>1. PICK k \in DOMAIN initBlock : initBlock[k] = f
          BY <2>1, <4>2 DEF Stores, Block
        <5>2. k \in DOMAIN initBlock'
          BY <3>5
        <5>3. QED BY <3>5, <5>1, <5>2
      <4>3. QED BY <3>2, <3>7, <4>1, <4>2
    <3>8. Block(initBlock, Len(written))'
      <4>1. (\A f \in SrcFile : Initialised(f) => \E k \in DOMAIN initBlock : initBlock[k] = f)'
        BY <3>7
      <4>2. Len(initBlock') = (n + 1) + 0 /\ n + 1 \in Nat /\ n + 1 # 0 /\ Len(written') = 0
        BY <2>1, <3>5
      <4>3. (\A k \in DOMAIN initBlock : IF k <= n + 1 THEN Initialised(initBlock[k]) ELSE initBlock[k] = Ret)'
        BY <3>5, <3>6
      <4>4. QED BY <3>3, <4>1, <4>2, <4>3 DEF Block
    <3>9. QED BY <3>3, <3>8 DEF Stores
  <2>5. QED BY <2>3, <2>4
<1>7. CASE NativeWrite
  <2>1. /\ pc = "write" /\ pc' = "setupNative" /\ staticInit' = staticInit /\ initBlock' = Closed
        /\ Len(written') = Len(written) + 1
    BY <1>0, <1>7 DEF NativeWrite, Write, NextFile, TypeOK
  <2>2. Block(Closed, Len(written) + 1) /\ (staticInit # NoFile => Initialised(staticInit))
    BY <1>0, <2>1, ClosedBlock DEF Stores
  <2>3. \A f : Initialised(f)' <=> Initialised(f)
    BY <1>0, <1>2, <2>1 DEF Initialised
  <2>4. QED BY <2>1, <2>2, <2>3 DEF Stores, Block
<1>8. CASE \/ NativeRejected \/ RunClang \/ LinkContext \/ AddCrashes \/ NativeGenerate
           \/ LiveGenerate \/ Emit \/ AddModule
  <2>1. /\ pc \notin Declaring \cup Ended /\ pc' \notin Declaring
        /\ UNCHANGED <<staticInit, initBlock, written>>
    BY <1>8 DEF NativeRejected, RunClang, LinkContext, AddCrashes, NativeGenerate, LiveGenerate, Emit,
       AddModule, Step, NextFile, genVars, MoveContext, Generate, EmitHeader, ReleaseModule, InLoop
  <2>2. QED BY <1>1, <1>2, <2>1
<1>9. CASE NativeSetup \/ EmitSetup \/ LiveSetup \/ LinkSetup \/ AddSetup
  <2>1. /\ pc \notin Declaring \cup Ended /\ pc' \notin Declaring /\ written' = written /\ Setup(file)
    BY <1>9 DEF NativeSetup, EmitSetup, LiveSetup, LinkSetup, AddSetup, InLoop, Step, NextFile
  <2>2. UNCHANGED <<staticInit, initBlock>>
    BY <2>1, SetupPushes
  <2>3. QED BY <1>1, <1>2, <2>1, <2>2
<1>10. CASE Terminating \/ UNCHANGED vars
  <2>1. UNCHANGED vars
    BY <1>10 DEF Terminating
  <2>2. CASE pc \in Ended
    BY <2>1, <2>2 DEF vars, driverVars, Stores
  <2>3. CASE pc \notin Ended
    BY <1>1, <2>1, <2>3 DEF vars, driverVars, genVars, Seen
  <2>4. QED BY <2>2, <2>3
<1>11. QED BY <1>3, <1>4, <1>5, <1>6, <1>7, <1>8, <1>9, <1>10 DEF Next

(***************************************************************************)
(* Which files have a module, and what link() leaves of it.                *)
(***************************************************************************)
BeforeLinking == Native \cup {"setupEmit", "emit", "clang", "setupLive", "generateLive"}

Present ==
  /\ pc \in {"create", "generateSigs"} =>
       \A i \in DOMAIN job.files : i < pos \/ (pc = "generateSigs" /\ i = pos) => Copy(job.files[i]) # NoModule
  /\ pc \in BeforeLinking \/ (pc = "setupLink" /\ pos = 1) =>
       \A i \in DOMAIN job.files : Copy(job.files[i]) # NoModule
  /\ pc = "emit" => m_module # NoModule

OneLinked ==
  SingleLive =>
    /\ /\ job.linked # <<>>
       /\ \/ pc = "setupLink" /\ pos = 2
          \/ pc \in {"moveContext", "setupAdd"} /\ pos = 1
       => Copy(job.linked[1]) # NoModule
    /\ pc = "addIRModule" => m_module # NoModule

\* What a step does to the module of a file: only these calls change it.
Changes(g) ==
  \/ Copy(g)' = Copy(g)
  \/ PreGenCreate /\ g = file /\ Copy(g)' = Emitted(g)
  \/ /\ PreGenSigs /\ g = m_file
     /\ Copy(g) \in Module /\ Copy(g)' = [Copy(g) EXCEPT !.sigs = {g}]
  \/ /\ NativeGenerate \/ LiveGenerate
     /\ g = m_file
     /\ Copy(g) \in Module /\ Copy(g)' = [Copy(g) EXCEPT !.bodies = {g}]
  \/ Copy(g) = NoModule /\ Copy(g)' = Emitted(g)
  \/ AddModule /\ g = m_file

InCustody ==
  /\ TypeInv /\ Kept /\ HeldWhere /\ Present
  /\ pc \in {"setupLink", "setupAdd"} => SingleLive

LEMMA SetupChanges ==
  ASSUME TypeOK, NEW f \in SrcFile, m_module # NoModule => m_file = f, Setup(f), NEW g \in SrcFile
  PROVE  /\ Copy(g)' = Copy(g) \/ (Copy(g) = NoModule /\ Copy(g)' = Emitted(g))
         /\ g = f => Copy(g)' # NoModule
<1>1. CASE Copy(f) # NoModule
  <2>1. m_module' # NoModule /\ m_file' = f /\ \A h \in SrcFile : Copy(h)' = Copy(h)
    BY <1>1, SetupCopies
  <2>2. QED BY <1>1, <2>1
<1>2. CASE Copy(f) = NoModule
  <2>1. m_module = NoModule
    BY <1>2 DEF Copy
  <2>2. Refiled(f) = modules /\ modules[f] = NoModule
    BY <1>2, <2>1 DEF Refiled, Copy
  <2>3. m_module' = NoModule /\ modules' = [modules EXCEPT ![f] = Emitted(f)]
    BY <2>2 DEF Setup, SetupTake, SetupCreate, CreateIn
  <2>4. Emitted(f) # NoModule
    BY EmittedType, NoModuleAssumption
  <2>5. QED BY <1>2, <2>1, <2>2, <2>3, <2>4 DEF Copy, TypeOK, GenTypeOK
<1>3. QED BY <1>1, <1>2

LEMMA GenerateChanges ==
  ASSUME TypeInv, Kept, Generate
  PROVE  \A g \in SrcFile :
           IF g = m_file THEN Copy(g) \in Module /\ Copy(g)' = [Copy(g) EXCEPT !.bodies = {g}]
                         ELSE Copy(g)' = Copy(g)
<1>1. m_file \in SrcFile /\ m_module \in Module /\ Copy(m_file) = m_module
  BY DEF Generate, FileSet, TypeInv, TypeOK, GenTypeOK, Copy
<1>2. m_module.bodies \cup {m_file} = {m_file}
  BY <1>1, NoModuleAssumption DEF Kept, OwnModule
<1>3. /\ m_file' = m_file /\ m_module' = NoModule
      /\ modules'[m_file] = [m_module EXCEPT !.bodies = {m_file}]
      /\ \A g \in SrcFile \ {m_file} : modules'[g] = modules[g]
  BY <1>1, <1>2 DEF Generate, TypeInv, TypeOK, GenTypeOK
<1>4. QED BY <1>1, <1>3 DEF Copy

LEMMA CopyStep ==
  ASSUME InCustody, [Next]_vars, NEW g \in SrcFile
  PROVE  Changes(g)
<1> USE DEF InCustody, TypeInv
<1>1. CASE Begin \/ LeaveLoop \/ NativeRejected \/ RunClang \/ AddCrashes \/ Terminating \/ UNCHANGED vars
  BY <1>1 DEF Begin, LeaveLoop, NativeRejected, RunClang, AddCrashes, Terminating, vars, genVars, Step,
     Copy, Changes
<1>2. CASE PreGenCreate
  <2>1. file \in SrcFile /\ m_module = NoModule
    BY <1>2, FileType DEF PreGenCreate, Loops, InLoop, HeldWhere, Empty
  <2>2. Copy(g)' = IF g = file THEN Emitted(file) ELSE Copy(g)
    BY <1>2, <2>1 DEF PreGenCreate, Create, CreateIn, Copy, TypeOK, GenTypeOK
  <2>3. QED BY <1>2, <2>2 DEF Changes
<1>3. CASE PreGenSigs
  <2>1. m_file \in SrcFile /\ m_module = NoModule /\ modules[m_file] \in Module
    BY <1>3 DEF PreGenSigs, GenerateSigs, FileSet, HeldWhere, Empty, TypeOK, GenTypeOK
  <2>2. modules[m_file].sigs \cup {m_file} = {m_file}
    BY <2>1, NoModuleAssumption DEF Kept, OwnModule
  <2>3. modules' = [modules EXCEPT ![m_file].sigs = @ \cup {m_file}] /\ m_module' = NoModule
    BY <1>3 DEF PreGenSigs, GenerateSigs
  <2>4. modules'[g] = IF g = m_file THEN [modules[m_file] EXCEPT !.sigs = {m_file}] ELSE modules[g]
    BY <2>1, <2>2, <2>3 DEF TypeOK, GenTypeOK
  <2>5. QED BY <1>3, <2>1, <2>3, <2>4 DEF Copy, Changes
<1>4. CASE NativeGenerate \/ LiveGenerate
  <2>1. Generate
    BY <1>4 DEF NativeGenerate, LiveGenerate
  <2>2. QED BY <1>4, <2>1, GenerateChanges DEF Changes
<1>5. CASE NativeSetup \/ EmitSetup \/ LiveSetup \/ LinkSetup \/ AddSetup
  <2>1. file \in SrcFile /\ Setup(file)
    BY <1>5, FileType DEF NativeSetup, EmitSetup, LiveSetup, LinkSetup, AddSetup, Loops
  <2>2. m_module # NoModule => m_file = file
    <3>1. CASE NativeSetup \/ EmitSetup \/ LiveSetup
      BY <3>1 DEF NativeSetup, EmitSetup, LiveSetup, InLoop, HeldWhere, Empty
    <3>2. CASE LinkSetup \/ AddSetup
      <4>1. pc \in {"setupLink", "setupAdd"} /\ pos <= Len(Over(pc)) /\ SingleLive
        BY <3>2 DEF LinkSetup, AddSetup, InLoop
      <4>2. QED BY <4>1, LinkedFile DEF HeldWhere
    <3>3. QED BY <1>5, <3>1, <3>2
  <2>3. QED BY <2>1, <2>2, SetupChanges DEF Changes
<1>6. CASE NativeWrite
  BY <1>6 DEF NativeWrite, Write, HeldWhere, Empty, Copy, Changes
<1>7. CASE Emit
  <2>1. m_module # NoModule /\ m_file \in SrcFile
    BY <1>7 DEF Emit, EmitHeader, Present, FileSet
  <2>2. QED BY <1>7, <2>1 DEF Emit, EmitHeader, Copy, Changes, TypeOK, GenTypeOK
<1>8. CASE LinkContext
  BY <1>8 DEF LinkContext, MoveContext, Copy, Changes
<1>9. CASE AddModule
  BY <1>9 DEF AddModule, ReleaseModule, Copy, Changes
<1>10. QED BY <1>1, <1>2, <1>3, <1>4, <1>5, <1>6, <1>7, <1>8, <1>9 DEF Next

\* A module once made stays, in its slot or held, until it is handed to the JIT.
LEMMA CopiesStay ==
  ASSUME InCustody, [Next]_vars, NEW g \in SrcFile, Copy(g) # NoModule, ~ (AddModule /\ g = m_file)
  PROVE  Copy(g)' # NoModule
<1>1. Emitted(g) # NoModule
  BY EmittedType, NoModuleAssumption
<1>2. \A m \in Module : [m EXCEPT !.sigs = {g}] \in Module /\ [m EXCEPT !.bodies = {g}] \in Module
  BY DEF Module
<1>3. CASE Copy(g) \in Module /\ (Copy(g)' = [Copy(g) EXCEPT !.sigs = {g}] \/ Copy(g)' = [Copy(g) EXCEPT !.bodies = {g}])
  <2>1. Copy(g)' \in Module
    BY <1>2, <1>3
  <2>2. QED BY <2>1, NoModuleAssumption
<1>4. CASE Copy(g)' = Copy(g) \/ Copy(g)' = Emitted(g)
  BY <1>1, <1>4
<1>5. Changes(g)
  BY CopyStep
<1>6. QED BY <1>3, <1>4, <1>5 DEF Changes

LEMMA PresentStep ==
  ASSUME InCustody, Positions, [Next]_vars
  PROVE  Present'
<1> USE DEF InCustody, TypeInv
<1>0. /\ job' = job /\ pos \in Nat \ {0}
      /\ job.files \in Seq(SrcFile) /\ Len(job.files) \in Nat
      /\ \A i \in DOMAIN job.files : job.files[i] \in SrcFile
      /\ \A i \in DOMAIN job.files : i \in 1 .. Len(job.files)
  BY JobFixed DEF TypeOK, Job
<1>1. ASSUME ~ AddModule, NEW i \in DOMAIN job.files, Copy(job.files[i]) # NoModule
      PROVE  (Copy(job.files[i]) # NoModule)'
  <2>1. \A g \in SrcFile : Copy(g) # NoModule => Copy(g)' # NoModule
    BY <1>1, CopiesStay
  <2>2. QED BY <1>0, <1>1, <2>1
<1>2. CASE Begin
  <2>1. pos' = 1 /\ pc' \in {"create", "done"}
    BY <1>2 DEF Begin, Step, Positions
  <2>2. QED BY <1>0, <2>1 DEF Present, BeforeLinking, Native
<1>3. CASE LeaveLoop
  <2>1. ~ AddModule
    BY <1>3 DEF LeaveLoop, AddModule, Loops
  <2>2. pc = "create" => \A i \in DOMAIN job.files : Copy(job.files[i]) # NoModule
    BY <1>0, <1>3 DEF LeaveLoop, Present, Over
  <2>3. pc \in {"setupNative", "setupEmit", "setupLive"} =>
          \A i \in DOMAIN job.files : Copy(job.files[i]) # NoModule
    BY DEF Present, BeforeLinking, Native
  <2>4. pc' \notin {"create", "generateSigs", "emit"}
    BY <1>3 DEF LeaveLoop, After, Loops
  <2>5. pc \in {"setupLink", "setupAdd"} => pc' \in {"moveContext", "done"}
    BY <1>3 DEF LeaveLoop, After, Loops
  <2>6. pc' \in BeforeLinking \cup {"setupLink"} =>
          \A i \in DOMAIN job.files : Copy(job.files[i]) # NoModule
    BY <1>3, <2>2, <2>3, <2>5 DEF LeaveLoop, Loops, BeforeLinking, Native
  <2>7. pc' \in BeforeLinking \cup {"setupLink"} =>
          (\A i \in DOMAIN job.files : Copy(job.files[i]) # NoModule)'
    BY <1>0, <1>1, <2>1, <2>6
  <2>8. QED BY <2>4, <2>7 DEF Present, BeforeLinking, Native
<1>4. CASE PreGenCreate
  <2>1. pc = "create" /\ pc' = "generateSigs" /\ pos' = pos /\ file = job.files[pos] /\ file \in SrcFile
    BY <1>0, <1>4, FileType DEF PreGenCreate, InLoop, Step, file, Over, Loops
  <2>2. m_module' = NoModule /\ modules' = [modules EXCEPT ![file] = Emitted(file)]
    BY <1>4 DEF PreGenCreate, Create, CreateIn
  <2>3. modules'[file] # NoModule
    BY <2>1, <2>2, EmittedType, NoModuleAssumption DEF TypeOK, GenTypeOK
  <2>4. (Copy(job.files[pos]) # NoModule)'
    BY <1>0, <2>1, <2>2, <2>3 DEF Copy
  <2>5. \A i \in DOMAIN job.files : i < pos => (Copy(job.files[i]) # NoModule)'
    BY <1>1, <2>1 DEF Present, AddModule
  <2>6. QED BY <1>0, <2>1, <2>4, <2>5 DEF Present, BeforeLinking, Native
<1>5. CASE PreGenSigs
  <2>1. pc = "generateSigs" /\ pc' = "create" /\ pos' = pos + 1
    BY <1>5 DEF PreGenSigs, NextFile
  <2>2. \A i \in DOMAIN job.files : i < pos + 1 => Copy(job.files[i]) # NoModule
    BY <1>0, <2>1 DEF Present
  <2>3. \A i \in DOMAIN job.files : i < pos + 1 => (Copy(job.files[i]) # NoModule)'
    BY <1>1, <2>1, <2>2 DEF AddModule
  <2>4. QED BY <1>0, <2>1, <2>3 DEF Present, BeforeLinking, Native
<1>6. CASE NativeSetup \/ NativeGenerate \/ NativeWrite \/ Emit \/ LiveSetup \/ LiveGenerate \/ RunClang
  <2>1. pc \in BeforeLinking /\ pc' \in (BeforeLinking \ {"emit"}) \cup {"exit"} /\ ~ AddModule
    BY <1>6 DEF NativeSetup, NativeGenerate, NativeWrite, Emit, LiveSetup, LiveGenerate, RunClang, InLoop,
       Step, NextFile, BeforeLinking, Native, AddModule
  <2>2. QED BY <1>0, <1>1, <2>1 DEF Present, BeforeLinking, Native
<1>7. CASE EmitSetup
  <2>1. pc = "setupEmit" /\ pc' = "emit" /\ Setup(file) /\ m_module = NoModule
    BY <1>7 DEF EmitSetup, InLoop, Step, HeldWhere, Empty
  <2>2. file \in SrcFile /\ pos \in DOMAIN job.files /\ file = job.files[pos]
    BY <1>0, <1>7, FileType DEF EmitSetup, InLoop, Loops, file, Over
  <2>3. Copy(file) # NoModule
    BY <2>1, <2>2 DEF Present, BeforeLinking
  <2>4. m_module' # NoModule
    BY <2>1, <2>2, <2>3, SetupCopies
  <2>5. QED BY <1>0, <1>1, <2>1, <2>4 DEF Present, BeforeLinking, Native, AddModule
<1>8. CASE NativeRejected \/ LinkSetup \/ LinkContext \/ AddSetup \/ AddModule \/ AddCrashes
  <2>1. pc' \in {"exit", "moveContext", "setupAdd", "addIRModule", "crashed"} \/ (pc' = "setupLink" /\ pos' # 1)
    BY <1>0, <1>8 DEF NativeRejected, LinkSetup, LinkContext, AddSetup, AddModule, AddCrashes, Step, NextFile
  <2>2. QED BY <2>1 DEF Present, BeforeLinking, Native
<1>9. CASE Terminating \/ UNCHANGED vars
  BY <1>0, <1>9 DEF Terminating, vars, genVars, driverVars, Present, Copy
<1>10. QED BY <1>2, <1>3, <1>4, <1>5, <1>6, <1>7, <1>8, <1>9 DEF Next

LEMMA OneLinkedStep ==
  ASSUME InCustody, Positions, OneLinked, [Next]_vars
  PROVE  OneLinked'
<1> SUFFICES ASSUME SingleLive' PROVE OneLinked'
  BY DEF OneLinked
<1> USE DEF InCustody, TypeInv
<1>0. /\ job' = job /\ pos \in Nat \ {0} /\ SingleLive
      /\ job.linked \in Seq(SrcFile) /\ Len(job.linked) \in Nat /\ Len(job.linked) <= 1
      /\ job.linked # <<>> => job.linked[1] \in SrcFile
  BY JobFixed DEF TypeOK, Job, SingleLive
<1>1. CASE LeaveLoop
  <2>1. pc' \notin {"addIRModule", "setupAdd"} /\ (pc' = "moveContext" => pc = "setupLink") /\ (pc' = "setupLink" => pos' = 1)
    BY <1>1 DEF LeaveLoop, After, Loops
  <2>2. ASSUME pc = "setupLink", job.linked # <<>> PROVE (Copy(job.linked[1]) # NoModule)'
    <3>1. pos > Len(job.linked) /\ pos <= Len(job.linked) + 1
      BY <1>1, <2>2 DEF LeaveLoop, Over, Positions
    <3>2. pos = 2
      BY <1>0, <2>2, <3>1
    <3>3. Copy(job.linked[1]) # NoModule
      BY <1>0, <2>2, <3>2 DEF OneLinked
    <3>4. QED BY <1>0, <1>1, <3>3 DEF LeaveLoop, genVars, Copy
  <2>3. QED BY <1>0, <2>1, <2>2 DEF OneLinked
<1>2. CASE LinkSetup
  <2>1. pc = "setupLink" /\ pos <= Len(Over(pc)) /\ Setup(file) /\ pc' = "setupLink" /\ pos' = pos + 1
    BY <1>2 DEF LinkSetup, InLoop, NextFile
  <2>2. file = job.linked[1] /\ job.linked # <<>> /\ m_module = NoModule
    BY <1>0, <2>1, LinkedFile
  <2>3. (Copy(job.linked[1]) # NoModule)'
    BY <1>0, <2>1, <2>2, SetupChanges
  <2>4. QED BY <2>1, <2>3 DEF OneLinked
<1>3. CASE LinkContext
  BY <1>0, <1>3 DEF LinkContext, MoveContext, Step, OneLinked, Copy
<1>4. CASE AddSetup
  <2>1. pc = "setupAdd" /\ pos <= Len(Over(pc)) /\ Setup(file) /\ pc' = "addIRModule"
    BY <1>4 DEF AddSetup, InLoop, Step
  <2>2. pos = 1 /\ file = job.linked[1] /\ job.linked # <<>>
    BY <1>0, <2>1, LinkedFile
  <2>3. Copy(file) # NoModule /\ (m_module # NoModule => m_file = file)
    BY <1>0, <2>1, <2>2 DEF OneLinked, HeldWhere
  <2>4. m_module' # NoModule
    BY <1>0, <2>1, <2>2, <2>3, SetupCopies
  <2>5. QED BY <2>1, <2>4 DEF OneLinked
<1>5. CASE AddModule
  BY <1>0, <1>5 DEF AddModule, NextFile, OneLinked
<1>6. CASE \/ Begin \/ PreGenCreate \/ PreGenSigs \/ NativeSetup \/ NativeGenerate \/ NativeWrite
           \/ NativeRejected \/ EmitSetup \/ Emit \/ RunClang \/ LiveSetup \/ LiveGenerate \/ AddCrashes
  BY <1>6 DEF Begin, PreGenCreate, PreGenSigs, NativeSetup, NativeGenerate, NativeWrite, NativeRejected,
     EmitSetup, Emit, RunClang, LiveSetup, LiveGenerate, AddCrashes, Step, NextFile, OneLinked
<1>7. CASE Terminating \/ UNCHANGED vars
  BY <1>0, <1>7 DEF Terminating, vars, genVars, driverVars, OneLinked, Copy
<1>8. QED BY <1>1, <1>2, <1>3, <1>4, <1>5, <1>6, <1>7 DEF Next

DriverInv ==
  /\ TypeInv /\ CustodyInv /\ Positions /\ Counts /\ Stores
  /\ Orderly => Present /\ OneLinked

LEMMA OrderlyInCustody == ASSUME DriverInv, Orderly PROVE InCustody
BY DEF DriverInv, Orderly, InCustody, CustodyInv, Linking

LEMMA WasOrderly == ASSUME [Next]_vars, Orderly' PROVE Orderly
BY JobFixed, StaysLinking DEF Orderly, SingleLive

LEMMA DriverInvariant == Spec => []DriverInv
<1>1. Init => CustodyInv /\ Positions /\ Counts /\ Stores /\ (Orderly => Present /\ OneLinked)
  <2> SUFFICES ASSUME Init
               PROVE  CustodyInv /\ Positions /\ Counts /\ Stores /\ (Orderly => Present /\ OneLinked)
    OBVIOUS
  <2>1. /\ pc = "begin" /\ pos = 1 /\ m_module = NoModule /\ m_file = NoFile
        /\ modules = [f \in SrcFile |-> NoModule] /\ written = <<>> /\ added = <<>>
        /\ staticInit = NoFile /\ initBlock = <<>> /\ job \in Job
    BY JobsAssumption DEF Init, GenInit
  <2>2. Kept /\ HeldWhere /\ Positions /\ Counts
    BY <2>1 DEF Kept, HeldWhere, Positions, Counts, Body, Loops, Native, AfterNative, Linking, Ended
  <2>3. \A f : ~ Initialised(f)
    <3>1. \A i \in DOMAIN job.files : ~ (i < 1)
      BY <2>1 DEF Job
    <3>2. QED BY <2>1, <3>1 DEF Initialised, Seen, Declaring
  <2>4. Block(<<>>, 0)
    BY <2>1, <2>3 DEF Block
  <2>5. Stores
    BY <2>1, <2>4 DEF Stores
  <2>6. Present /\ OneLinked
    BY <2>1 DEF Present, OneLinked, BeforeLinking, Native
  <2>7. QED BY <2>2, <2>5, <2>6 DEF CustodyInv
<1>2. TypeInv /\ TypeInv' /\ DriverInv /\ [Next]_vars => DriverInv'
  <2> SUFFICES ASSUME TypeInv', DriverInv, [Next]_vars PROVE DriverInv'
    OBVIOUS
  <2>1. CustodyInv' /\ Positions' /\ Counts' /\ Stores'
    BY CustodyStep, PositionsStep, CountsStep, StoresStep DEF DriverInv
  <2>2. Orderly' => Present' /\ OneLinked'
    BY WasOrderly, OrderlyInCustody, PresentStep, OneLinkedStep DEF DriverInv
  <2>3. QED BY <2>1, <2>2 DEF DriverInv
<1>3. TypeInv /\ CustodyInv /\ Positions /\ Counts /\ Stores /\ (Orderly => Present /\ OneLinked) => DriverInv
  BY DEF DriverInv
<1>4. Spec => []TypeInv
  BY TypeInvariant
<1>5. QED BY <1>1, <1>2, <1>3, <1>4, PTL DEF Spec

\* The files that store into the block are the ones a reader of the job expects.
LEMMA OnlyStaticsBlock ==
  ASSUME TypeOK, pc \notin Declaring, NEW f \in SrcFile
  PROVE  /\ Seen(f) <=> f \in Range(job.files)
         /\ f \in job.statics /\ Seen(f) =>
              (OnlyStatics(f) <=> \A g \in SrcFile : Initialised(g) => g = f)
<1>1. \A g : Seen(g) <=> g \in Range(job.files)
  BY DEF Seen, Range
<1>2. \A g : Initialised(g) <=> g \in job.statics \cap Range(job.files)
  BY <1>1 DEF Initialised
<1>3. job.statics \subseteq SrcFile
  BY DEF TypeOK, Job
<1>4. QED BY <1>1, <1>2, <1>3 DEF OnlyStatics

(***************************************************************************)
(* For every job, over any files any of which have static variables, the   *)
(* verifier accepts a written file with static variables exactly when it   *)
(* is the only one and the first, and a module for the JIT exactly when it *)
(* is the only one and one file was written before it.                     *)
(***************************************************************************)
THEOREM StaticsByRuleCorrect == Spec => []StaticsByRule
<1>1. ASSUME DriverInv, pc = "write", m_file \in Range(job.files)
      PROVE  WriteRejected <=> m_file \in job.statics /\ ~ (OnlyStatics(m_file) /\ pos = 1)
  <2>1. /\ TypeOK /\ m_file \in SrcFile /\ modules[m_file] \in Module /\ modules[m_file] # NoModule
        /\ pc \notin Declaring /\ pc \notin Ended
    BY <1>1, NoModuleAssumption DEF DriverInv, TypeInv, WriteHasModule, Declaring, Ended
  <2>2. modules[m_file].of = m_file
    BY <1>1, <2>1 DEF DriverInv, CustodyInv, Orderly, Linking, Kept, OwnModule
  <2>3. Seen(m_file) /\ Len(written) = pos - 1 /\ Len(written) \in Nat /\ pos \in Nat
    BY <1>1, <2>1, OnlyStaticsBlock DEF DriverInv, Counts, Native, TypeOK
  <2>4. Block(Closed, pos) /\ Closed \in Seq(SrcFile \cup {Ret})
    <3>1. Block(initBlock, Len(written))
      BY <1>1, <2>1 DEF DriverInv, Stores
    <3>2. Block(Closed, Len(written) + 1)
      BY <2>1, <2>3, <3>1, ClosedBlock
    <3>3. Len(written) + 1 = pos
      BY <2>3
    <3>4. QED BY <2>1, <3>2, <3>3 DEF Closed, TypeOK, GenTypeOK
  <2>5. staticInit # NoFile => Initialised(staticInit)
    BY <1>1, <2>1 DEF DriverInv, Stores
  <2>6. Verified(modules[m_file], staticInit, Closed) <=>
          m_file \notin job.statics \/ (pos = 1 /\ \A g \in SrcFile : Initialised(g) => g = m_file)
    BY <2>1, <2>2, <2>3, <2>4, <2>5, VerifiedRule
  <2>7. QED BY <2>1, <2>3, <2>6, OnlyStaticsBlock DEF WriteRejected
<1>2. ASSUME DriverInv, pc = "addIRModule", SingleLive, m_file \in job.statics \cap Range(job.files)
      PROVE  Verified(m_module, staticInit, initBlock) <=> OnlyStatics(m_file) /\ Len(job.native) = 1
  <2>1. /\ TypeOK /\ m_file \in SrcFile /\ m_module # NoModule
        /\ pc \notin Declaring /\ pc \notin Ended
    BY <1>2 DEF DriverInv, TypeInv, TypeOK, Job, Declaring, Ended, Orderly, OneLinked
  <2>2. m_module.of = m_file
    BY <1>2, <2>1 DEF DriverInv, CustodyInv, Orderly, Kept, OwnModule
  <2>3. Seen(m_file) /\ Len(written) = Len(job.native) /\ Len(written) \in Nat
    BY <1>2, <2>1, OnlyStaticsBlock DEF DriverInv, Counts, AfterNative, Linking, TypeOK
  <2>4. Block(initBlock, Len(written)) /\ (staticInit # NoFile => Initialised(staticInit))
    BY <1>2, <2>1 DEF DriverInv, Stores
  <2>5. initBlock \in Seq(SrcFile \cup {Ret})
    BY <2>1 DEF TypeOK, GenTypeOK
  <2>6. Verified(m_module, staticInit, initBlock) <=>
          m_file \notin job.statics
          \/ (Len(written) = 1 /\ \A g \in SrcFile : Initialised(g) => g = m_file)
    BY <2>1, <2>2, <2>3, <2>4, <2>5, VerifiedRule
  <2>7. QED BY <1>2, <2>1, <2>3, <2>6, OnlyStaticsBlock
<1>3. DriverInv => StaticsByRule
  BY <1>1, <1>2 DEF StaticsByRule
<1>4. QED BY <1>3, DriverInvariant, PTL

LEMMA AliveCopy ==
  ASSUME TypeOK, Kept, NEW f \in SrcFile
  PROVE  Alive(f) <=> Copy(f) # NoModule
BY DEF Alive, Kept, OwnModule, Copy

(***************************************************************************)
(* However many files a job has: as long as it links at most one, a module *)
(* leaves the compiler only by being added to the JIT.                     *)
(***************************************************************************)
THEOREM ModulesLeaveCorrect == Spec => ModulesLeaveOnlyToTheJit
<1>1. ASSUME DriverInv, DriverInv', [Next]_vars, SingleLive, NEW f \in SrcFile, Alive(f), ~ Alive(f)'
      PROVE  added' = Append(added, <<f, m_module>>)
  <2>1. Orderly /\ Orderly'
    BY <1>1, JobFixed DEF Orderly, SingleLive
  <2>2. InCustody /\ TypeOK /\ Kept /\ TypeOK' /\ Kept'
    BY <1>1, <2>1, OrderlyInCustody DEF DriverInv, TypeInv, CustodyInv
  <2>3. Copy(f) # NoModule
    BY <1>1, <2>2, AliveCopy
  <2>4. ~ (Copy(f) # NoModule)'
    BY <1>1, <2>2 DEF Alive, Kept, OwnModule, Copy
  <2>5. AddModule /\ f = m_file
    BY <1>1, <2>2, <2>3, <2>4, CopiesStay
  <2>6. QED BY <2>5 DEF AddModule
<1>2. DriverInv /\ DriverInv' /\ [Next]_vars =>
        [SingleLive => \A f \in SrcFile :
           Alive(f) /\ ~ Alive(f)' => added' = Append(added, <<f, m_module>>)]_vars
  BY <1>1
<1>3. QED BY <1>2, DriverInvariant, PTL DEF Spec, ModulesLeaveOnlyToTheJit

(***************************************************************************)
(* How a job ends.  With one linked file the second loop of link() finds   *)
(* the module the first one left; with no declared file the first loop     *)
(* creates what the second takes; otherwise the first loop files a module  *)
(* under every file after its own and loses the last one, and the second   *)
(* finds nothing at the last file at the latest.                           *)
(***************************************************************************)
NoCrash == pc = "crashed" => Len(job.linked) > 1

LEMMA NoCrashStep ==
  ASSUME DriverInv, NoCrash, [Next]_vars
  PROVE  NoCrash'
<1>0. job' = job /\ Len(job.linked) \in Nat
  BY JobFixed DEF DriverInv, TypeInv, TypeOK, Job
<1>1. CASE AddCrashes
  <2>1. pc = "setupAdd" /\ pos <= Len(Over(pc)) /\ SetupCrashes(file)
    BY <1>1 DEF AddCrashes, InLoop
  <2>2. SUFFICES ASSUME SingleLive PROVE FALSE
    BY <1>0, <1>1 DEF NoCrash, AddCrashes, Step, SingleLive
  <2>3. InCustody /\ OneLinked /\ TypeOK /\ HeldWhere
    BY <2>2, OrderlyInCustody DEF Orderly, DriverInv, InCustody, TypeInv
  <2>4. pos = 1 /\ file = job.linked[1] /\ job.linked # <<>>
    BY <2>1, <2>2, <2>3, LinkedFile
  <2>5. Copy(file) # NoModule /\ (m_module # NoModule => m_file = file)
    BY <2>1, <2>2, <2>3, <2>4 DEF OneLinked, HeldWhere
  <2>6. file \in SrcFile
    BY <1>1, <2>3, FileType DEF AddCrashes, Loops
  <2>7. Refiled(file)[file] = Copy(file)
    BY <2>3, <2>5, <2>6 DEF Refiled, Copy, TypeOK, GenTypeOK
  <2>8. QED BY <2>1, <2>5, <2>7 DEF SetupCrashes
<1>2. CASE Terminating \/ UNCHANGED vars
  BY <1>0, <1>2 DEF Terminating, vars, driverVars, NoCrash
<1>3. CASE LeaveLoop
  BY <1>3 DEF LeaveLoop, After, Loops, NoCrash
<1>4. CASE \/ Begin \/ PreGenCreate \/ PreGenSigs \/ NativeSetup \/ NativeGenerate \/ NativeWrite
           \/ NativeRejected \/ EmitSetup \/ Emit \/ RunClang \/ LiveSetup \/ LiveGenerate
           \/ LinkSetup \/ LinkContext \/ AddSetup \/ AddModule
  BY <1>4 DEF Begin, PreGenCreate, PreGenSigs, NativeSetup, NativeGenerate, NativeWrite, NativeRejected,
     EmitSetup, Emit, RunClang, LiveSetup, LiveGenerate, LinkSetup, LinkContext, AddSetup, AddModule,
     Step, NextFile, NoCrash
<1>5. QED BY <1>1, <1>2, <1>3, <1>4 DEF Next

NothingDeclared == job.files = <<>> /\ BuildJob(job)
CreatedByLink ==
  NothingDeclared =>
    /\ pc # "crashed"
    /\ pc # "addIRModule" => m_module = NoModule
    /\ pc \notin Linking \cup Ended => \A f \in SrcFile : modules[f] = NoModule
    /\ pc = "setupLink" => \A i \in DOMAIN job.linked : (modules[job.linked[i]] # NoModule <=> i < pos)
    /\ pc \in Linking \ {"setupLink"} =>
         \A i \in DOMAIN job.linked :
           i > pos \/ (pc # "addIRModule" /\ i = pos) => modules[job.linked[i]] # NoModule

\* What the two parts of a sequence without repetition have in common: nothing.
LEMMA ConcatApart ==
  ASSUME NEW S, NEW s \in Seq(S), NEW t \in Seq(S),
         \A i, k \in DOMAIN (s \o t) : (s \o t)[i] = (s \o t)[k] => i = k
  PROVE  /\ \A i, k \in DOMAIN s : s[i] = s[k] => i = k
         /\ \A i, k \in DOMAIN t : t[i] = t[k] => i = k
         /\ \A i \in DOMAIN s, k \in DOMAIN t : s[i] # t[k]
<1>1. /\ s \o t \in Seq(S)
      /\ Len(s \o t) = Len(s) + Len(t)
      /\ \A k \in 1 .. Len(s) + Len(t) :
           (s \o t)[k] = IF k <= Len(s) THEN s[k] ELSE t[k - Len(s)]
  BY ConcatProperties
<1>2. \A i \in DOMAIN s : i \in DOMAIN (s \o t) /\ (s \o t)[i] = s[i]
  BY <1>1
<1>3. \A i \in DOMAIN t : Len(s) + i \in DOMAIN (s \o t) /\ (s \o t)[Len(s) + i] = t[i]
  BY <1>1
<1>4. /\ \A i, k \in DOMAIN s : s[i] = s[k] => i = k
      /\ \A i, k \in DOMAIN t : t[i] = t[k] => Len(s) + i = Len(s) + k
      /\ \A i \in DOMAIN s, k \in DOMAIN t : s[i] = t[k] => i = Len(s) + k
  BY <1>2, <1>3
<1>5. QED BY <1>4

LEMMA PipelineApart ==
  ASSUME TypeOK, PipelineJob(job)
  PROVE  /\ \A i, k \in DOMAIN job.native : job.native[i] = job.native[k] => i = k
         /\ \A i, k \in DOMAIN job.jitted : job.jitted[i] = job.jitted[k] => i = k
         /\ \A i \in DOMAIN job.native, k \in DOMAIN job.jitted : job.native[i] # job.jitted[k]
<1>1. job.native \in Seq(SrcFile) /\ job.jitted \in Seq(SrcFile)
  BY DEF TypeOK, Job
<1>2. /\ job.files = job.native \o job.jitted
      /\ \A i, k \in DOMAIN job.files : job.files[i] = job.files[k] => i = k
  BY DEF PipelineJob, IsInjective
<1>3. \A i, k \in DOMAIN (job.native \o job.jitted) :
        (job.native \o job.jitted)[i] = (job.native \o job.jitted)[k] => i = k
  BY <1>2, Zenon
<1>4. QED BY <1>1, <1>3, ConcatApart, Zenon

LEMMA LinkedApart ==
  ASSUME TypeOK, PipelineJob(job) \/ BuildJob(job)
  PROVE  \A i, k \in DOMAIN job.linked : job.linked[i] = job.linked[k] => i = k
<1>1. CASE BuildJob(job)
  BY <1>1 DEF BuildJob, IsInjective
<1>2. CASE PipelineJob(job)
  <2>1. job.linked = job.jitted
    BY <1>2 DEF PipelineJob
  <2>2. QED BY <1>2, <2>1, PipelineApart, Zenon
<1>3. QED BY <1>1, <1>2

LEMMA CreatedStep ==
  ASSUME TypeInv, Positions, CreatedByLink, [Next]_vars
  PROVE  CreatedByLink'
<1> SUFFICES ASSUME NothingDeclared' PROVE CreatedByLink'
  BY DEF CreatedByLink
<1>0. /\ job' = job /\ TypeOK /\ pos \in Nat \ {0} /\ NothingDeclared
      /\ job.linked \in Seq(SrcFile) /\ Len(job.linked) \in Nat
      /\ job.files = <<>> /\ job.native = <<>> /\ job.jitted = <<>>
      /\ \A i, k \in DOMAIN job.linked : job.linked[i] = job.linked[k] => i = k
      /\ Over("setupLink") = job.linked /\ Over("setupAdd") = job.linked
  BY JobFixed, LinkedApart DEF TypeInv, TypeOK, Job, NothingDeclared, BuildJob, Over
<1>1. /\ pc \notin {"generateSigs", "generateNative", "write", "emit", "generateLive"}
      /\ \A loop \in {"create", "setupNative", "setupEmit", "setupLive"} : ~ InLoop(loop)
  BY <1>0 DEF Positions, Body, Over, InLoop
<1>2. CASE LeaveLoop
  <2>1. UNCHANGED <<modules, m_module, job>> /\ pos' = 1 /\ pc' = After[pc] /\ pc \in Loops /\ pos > Len(Over(pc))
    BY <1>2 DEF LeaveLoop, genVars
  <2>2. pc = "setupLink" => \A i \in DOMAIN job.linked : modules[job.linked[i]] # NoModule
    BY <1>0, <2>1 DEF CreatedByLink
  <2>3. pc = "setupLive" => \A i \in DOMAIN job.linked : (modules[job.linked[i]] # NoModule <=> i < 1)
    BY <1>0 DEF CreatedByLink, Linking, Ended
  <2>4. QED BY <1>0, <2>1, <2>2, <2>3 DEF After, Loops, CreatedByLink, Linking, Ended
<1>3. CASE LinkSetup
  <2>1. /\ pc = "setupLink" /\ pc' = "setupLink" /\ pos' = pos + 1 /\ Setup(file) /\ file \in SrcFile
        /\ pos \in DOMAIN job.linked /\ file = job.linked[pos]
    BY <1>0, <1>3, FileType DEF LinkSetup, InLoop, NextFile, file, Loops
  <2>2. m_module = NoModule /\ modules[file] = NoModule
    BY <1>0, <2>1 DEF CreatedByLink
  <2>3. m_module' = NoModule /\ modules' = [modules EXCEPT ![file] = Emitted(file)]
    BY <2>1, <2>2 DEF Setup, SetupTake, SetupCreate, CreateIn, Refiled
  <2>4. Emitted(file) # NoModule
    BY <2>1, EmittedType, NoModuleAssumption
  <2>5. ASSUME NEW i \in DOMAIN job.linked
        PROVE  modules'[job.linked[i]] # NoModule <=> i < pos + 1
    <3>1. job.linked[i] \in SrcFile /\ (modules[job.linked[i]] # NoModule <=> i < pos)
      BY <1>0, <2>1 DEF CreatedByLink
    <3>2. CASE i = pos
      BY <1>0, <2>1, <2>3, <2>4, <3>2 DEF TypeOK, GenTypeOK
    <3>3. CASE i # pos
      <4>1. modules'[job.linked[i]] = modules[job.linked[i]]
        BY <1>0, <2>1, <2>3, <3>1, <3>3 DEF TypeOK, GenTypeOK
      <4>2. QED BY <1>0, <3>1, <3>3, <4>1
    <3>4. QED BY <3>2, <3>3
  <2>6. QED BY <1>0, <2>1, <2>3, <2>5 DEF CreatedByLink, Linking, Ended
<1>4. CASE LinkContext
  BY <1>0, <1>4 DEF LinkContext, MoveContext, Step, CreatedByLink, Linking, Ended
<1>5. CASE AddSetup
  <2>1. /\ pc = "setupAdd" /\ pc' = "addIRModule" /\ pos' = pos /\ Setup(file) /\ file \in SrcFile
        /\ pos \in DOMAIN job.linked /\ file = job.linked[pos]
    BY <1>0, <1>5, FileType DEF AddSetup, InLoop, Step, file, Loops
  <2>2. m_module = NoModule /\ modules[file] # NoModule
    BY <1>0, <2>1 DEF CreatedByLink, Linking
  <2>3. modules' = [modules EXCEPT ![file] = NoModule]
    BY <2>1, <2>2 DEF Setup, SetupTake, SetupCreate, CreateIn, Refiled
  <2>4. ASSUME NEW i \in DOMAIN job.linked, i > pos PROVE modules'[job.linked[i]] # NoModule
    <3>1. job.linked[i] \in SrcFile /\ job.linked[i] # file
      BY <1>0, <2>1, <2>4
    <3>2. modules[job.linked[i]] # NoModule
      BY <1>0, <2>1, <2>4 DEF CreatedByLink, Linking
    <3>3. QED BY <2>3, <3>1, <3>2
  <2>5. QED BY <1>0, <2>1, <2>4 DEF CreatedByLink, Linking, Ended
<1>6. CASE AddModule
  <2>1. /\ pc = "addIRModule" /\ pc' = "setupAdd" /\ pos' = pos + 1 /\ m_module' = NoModule /\ modules' = modules
    BY <1>6 DEF AddModule, ReleaseModule, NextFile
  <2>2. \A i \in DOMAIN job.linked : i > pos + 1 \/ i = pos + 1 => i > pos
    BY <1>0
  <2>3. QED BY <1>0, <2>1, <2>2 DEF CreatedByLink, Linking, Ended
<1>7. CASE AddCrashes
  <2>1. /\ pc = "setupAdd" /\ pos \in DOMAIN job.linked /\ file = job.linked[pos] /\ SetupCrashes(file)
    BY <1>0, <1>7 DEF AddCrashes, InLoop, file
  <2>2. m_module = NoModule /\ modules[file] # NoModule
    BY <1>0, <2>1 DEF CreatedByLink, Linking
  <2>3. QED BY <2>1, <2>2 DEF SetupCrashes, Refiled
<1>8. CASE Begin \/ NativeRejected \/ RunClang
  BY <1>0, <1>1, <1>8 DEF Begin, NativeRejected, RunClang, Step, genVars, CreatedByLink, Linking, Ended
<1>9. CASE \/ PreGenCreate \/ PreGenSigs \/ NativeSetup \/ NativeGenerate \/ NativeWrite \/ EmitSetup
           \/ Emit \/ LiveSetup \/ LiveGenerate
  BY <1>1, <1>9 DEF PreGenCreate, PreGenSigs, NativeSetup, NativeGenerate, NativeWrite, EmitSetup, Emit,
     LiveSetup, LiveGenerate
<1>10. CASE Terminating \/ UNCHANGED vars
  BY <1>0, <1>10 DEF Terminating, vars, genVars, driverVars, CreatedByLink, Linking, Ended
<1>11. QED BY <1>2, <1>3, <1>4, <1>5, <1>6, <1>7, <1>8, <1>9, <1>10 DEF Next

Declares(i) == i \in DOMAIN job.linked /\ job.linked[i] \in Range(job.files)
LastLinked == job.linked[Len(job.linked)]
Loses == (PipelineJob(job) \/ BuildJob(job)) /\ job.files # <<>> /\ Len(job.linked) > 1
LostByLink ==
  Loses =>
    /\ pc = "setupLink" =>
         /\ \A i \in DOMAIN job.linked : Declares(i) /\ i >= pos => modules[job.linked[i]] # NoModule
         /\ (\E i \in 1 .. pos - 1 : Declares(i)) =>
              m_module # NoModule /\ modules[job.linked[pos - 1]] = NoModule
    /\ pc \in Linking \ {"setupLink"} => modules[LastLinked] = NoModule
    /\ pc \in {"setupAdd", "addIRModule"} => m_contxt = "moved" /\ pos <= Len(job.linked)
    /\ pc = "setupAdd" /\ pos > 1 => m_module = NoModule
    /\ pc = "addIRModule" => pos < Len(job.linked)
    /\ pc \notin {"setupAdd", "addIRModule", "crashed"} => m_contxt = "owned"

LEMMA SomeDeclared ==
  ASSUME TypeOK, Loses
  PROVE  \E i \in DOMAIN job.linked : Declares(i)
<1>1. job.native \in Seq(SrcFile) /\ job.linked \in Seq(SrcFile) /\ job.files \in Seq(SrcFile)
  BY DEF TypeOK, Job
<1>2. CASE PipelineJob(job)
  <2>1. 1 \in DOMAIN job.linked
    BY <1>1 DEF Loses
  <2>2. \A u, v \in Seq(SrcFile) : \A i \in DOMAIN v : \E k \in DOMAIN (u \o v) : v[i] = (u \o v)[k]
    BY ConcatElements
  <2>3. \E k \in DOMAIN job.files : job.linked[1] = job.files[k]
    <3>1. job.files = job.native \o job.linked
      BY <1>2 DEF PipelineJob
    <3>2. \E k \in DOMAIN (job.native \o job.linked) : job.linked[1] = (job.native \o job.linked)[k]
      BY <1>1, <2>1, <2>2, Zenon
    <3>3. QED BY <3>1, <3>2, Zenon
  <2>4. QED BY <2>1, <2>3 DEF Declares, Range
<1>3. CASE BuildJob(job)
  <2>1. 1 \in DOMAIN job.files
    BY <1>1 DEF Loses
  <2>2. job.files[1] \in Range(job.linked)
    BY <1>3, <2>1 DEF BuildJob, Range
  <2>3. QED BY <2>1, <2>2 DEF Declares, Range
<1>4. QED BY <1>2, <1>3 DEF Loses

LEMMA LostStep ==
  ASSUME DriverInv, LostByLink, [Next]_vars
  PROVE  LostByLink'
<1> SUFFICES ASSUME Loses' PROVE LostByLink'
  BY DEF LostByLink
<1>0. /\ job' = job /\ TypeOK /\ pos \in Nat \ {0} /\ Loses /\ Positions
      /\ job.linked \in Seq(SrcFile) /\ Len(job.linked) \in Nat /\ Len(job.linked) > 1
      /\ \A i \in DOMAIN job.linked : job.linked[i] \in SrcFile
      /\ \A i, k \in DOMAIN job.linked : job.linked[i] = job.linked[k] => i = k
      /\ \A i : Declares(i)' <=> Declares(i)
      /\ LastLinked' = LastLinked /\ LastLinked \in SrcFile
      /\ Over("setupLink") = job.linked /\ Over("setupAdd") = job.linked
  BY JobFixed, LinkedApart DEF DriverInv, TypeInv, TypeOK, Job, Loses, Over, Declares, LastLinked
<1> USE DEF Linking
<1>1. CASE LeaveLoop
  <2>1. /\ UNCHANGED <<modules, m_module, m_file, m_contxt, job>> /\ pos' = 1 /\ pc \in Loops
        /\ pos > Len(Over(pc)) /\ pc' = After[pc]
    BY <1>1 DEF LeaveLoop, genVars
  <2>2. CASE pc \in {"create", "setupNative", "setupEmit"}
    <3>1. pc' \notin Linking /\ m_contxt = "owned"
      BY <1>0, <2>1, <2>2 DEF After, LostByLink
    <3>2. QED BY <2>1, <3>1 DEF LostByLink
  <2>3. CASE pc = "setupLive"
    <3>1. m_contxt = "owned" /\ m_module = NoModule /\ pc' = "setupLink"
      BY <1>0, <2>1, <2>3 DEF After, LostByLink, DriverInv, CustodyInv, Orderly, HeldWhere, Empty
    <3>2. \A i \in DOMAIN job.files : modules[job.files[i]] # NoModule
      BY <2>3, <3>1 DEF DriverInv, Orderly, Present, BeforeLinking, Copy
    <3>3. \A i \in DOMAIN job.linked : Declares(i) => modules[job.linked[i]] # NoModule
      BY <3>2 DEF Declares, Range
    <3>4. QED BY <1>0, <2>1, <3>1, <3>3 DEF LostByLink
  <2>4. CASE pc = "setupLink"
    <3>1. pos - 1 = Len(job.linked)
      BY <1>0, <2>1, <2>4 DEF Positions
    <3>2. \E i \in 1 .. pos - 1 : Declares(i)
      BY <1>0, <3>1, SomeDeclared
    <3>3. modules[LastLinked] = NoModule /\ m_contxt = "owned" /\ pc' = "moveContext"
      BY <1>0, <2>1, <2>4, <3>1, <3>2 DEF LostByLink, LastLinked, After
    <3>4. QED BY <1>0, <2>1, <3>3 DEF LostByLink
  <2>5. CASE pc = "setupAdd"
    <3>1. FALSE
      BY <1>0, <2>1, <2>5 DEF LostByLink
    <3>2. QED BY <3>1
  <2>6. QED BY <2>1, <2>2, <2>3, <2>4, <2>5 DEF Loops
<1>2. CASE LinkSetup
  <2>1. /\ pc = "setupLink" /\ pc' = "setupLink" /\ pos' = pos + 1 /\ Setup(file) /\ file \in SrcFile
        /\ pos \in DOMAIN job.linked /\ file = job.linked[pos]
    BY <1>0, <1>2, FileType DEF LinkSetup, InLoop, NextFile, file, Loops
  <2>2. m_contxt' = "owned"
    BY <1>0, <2>1, SetupPushes DEF LostByLink
  <2>3. ASSUME NEW g \in SrcFile, g # file PROVE modules'[g] = modules[g]
    BY <1>0, <2>1, <2>3, SlotsOfSetup DEF Setup, SetupTake, SetupCreate, CreateIn, Refiled, TypeOK, GenTypeOK
  <2>4. ASSUME NEW i \in DOMAIN job.linked, Declares(i), i >= pos + 1
        PROVE  modules'[job.linked[i]] # NoModule
    <3>1. job.linked[i] # file /\ job.linked[i] \in SrcFile /\ i >= pos
      BY <1>0, <2>1, <2>4
    <3>2. modules[job.linked[i]] # NoModule
      BY <1>0, <2>1, <2>4, <3>1 DEF LostByLink
    <3>3. QED BY <2>3, <3>1, <3>2
  <2>5. ASSUME NEW i \in 1 .. pos, Declares(i)
        PROVE  m_module' # NoModule /\ modules'[job.linked[pos]] = NoModule
    <3>1. Refiled(file)[file] # NoModule
      <4>1. CASE m_module # NoModule
        BY <1>0, <2>1, <4>1 DEF Refiled, TypeOK, GenTypeOK
      <4>2. CASE m_module = NoModule
        <5>1. i = pos
          BY <1>0, <2>1, <2>5, <4>2 DEF LostByLink
        <5>2. modules[file] # NoModule
          BY <1>0, <2>1, <2>5, <5>1 DEF LostByLink
        <5>3. QED BY <4>2, <5>2 DEF Refiled
      <4>3. QED BY <4>1, <4>2
    <3>2. m_module' = Refiled(file)[file] /\ modules' = [Refiled(file) EXCEPT ![file] = NoModule]
      BY <2>1, <3>1 DEF Setup, SetupTake, SetupCreate
    <3>3. QED BY <1>0, <2>1, <3>1, <3>2, SlotsOfSetup
  <2>6. (\E i \in 1 .. pos - 1 : Declares(i))' =>
          m_module' # NoModule /\ modules'[job.linked[pos]] = NoModule
    BY <1>0, <2>1, <2>5
  <2>7. QED BY <1>0, <2>1, <2>2, <2>4, <2>6 DEF LostByLink
<1>3. CASE LinkContext
  <2>1. pos = 1
    BY <1>0, <1>3 DEF LinkContext, Positions
  <2>2. QED BY <1>0, <1>3, <2>1 DEF LinkContext, MoveContext, Step, LostByLink
<1>4. CASE AddSetup
  <2>1. /\ pc = "setupAdd" /\ pc' = "addIRModule" /\ pos' = pos /\ Setup(file) /\ file \in SrcFile
        /\ pos \in DOMAIN job.linked /\ file = job.linked[pos]
    BY <1>0, <1>4, FileType DEF AddSetup, InLoop, Step, file, Loops
  <2>2. m_contxt = "moved" /\ modules[LastLinked] = NoModule /\ (pos > 1 => m_module = NoModule)
    BY <1>0, <2>1 DEF LostByLink
  <2>3. SetupTake(file) /\ m_contxt' = "moved"
    BY <2>1, <2>2 DEF Setup, SetupTake, SetupCreate, CreateIn
  <2>4. pos # Len(job.linked)
    <3>1. SUFFICES ASSUME pos = Len(job.linked) PROVE FALSE
      OBVIOUS
    <3>2. file = LastLinked /\ m_module = NoModule
      BY <1>0, <2>1, <2>2, <3>1 DEF LastLinked
    <3>3. QED BY <2>2, <2>3, <3>2 DEF SetupTake, Refiled
  <2>5. file # LastLinked
    BY <1>0, <2>1, <2>4 DEF LastLinked
  <2>6. modules'[LastLinked] = NoModule
    BY <1>0, <2>1, <2>2, <2>3, <2>5, SlotsOfSetup DEF SetupTake, Refiled, TypeOK, GenTypeOK
  <2>7. QED BY <1>0, <2>1, <2>3, <2>4, <2>6 DEF LostByLink
<1>5. CASE AddModule
  <2>1. /\ pc = "addIRModule" /\ pc' = "setupAdd" /\ pos' = pos + 1 /\ m_module' = NoModule
        /\ modules' = modules /\ m_contxt' = m_contxt
    BY <1>5 DEF AddModule, ReleaseModule, NextFile
  <2>2. m_contxt = "moved" /\ pos < Len(job.linked) /\ modules[LastLinked] = NoModule
    BY <1>0, <2>1 DEF LostByLink
  <2>3. QED BY <1>0, <2>1, <2>2 DEF LostByLink
<1>6. CASE AddCrashes
  BY <1>6 DEF AddCrashes, Step, LostByLink
<1>7. CASE NativeSetup \/ EmitSetup \/ LiveSetup
  <2>1. /\ Setup(file) /\ pc \notin Linking \cup {"crashed"} /\ pc' \notin Linking
    BY <1>7 DEF NativeSetup, EmitSetup, LiveSetup, InLoop, Step
  <2>2. m_contxt' = m_contxt
    BY <2>1, SetupPushes
  <2>3. QED BY <1>0, <2>1, <2>2 DEF LostByLink
<1>8. CASE \/ Begin \/ PreGenCreate \/ PreGenSigs \/ NativeGenerate \/ NativeWrite
           \/ NativeRejected \/ Emit \/ RunClang \/ LiveGenerate
  <2>1. /\ pc \notin Linking \cup {"crashed"} /\ pc' \notin Linking /\ m_contxt' = m_contxt
    BY <1>8 DEF Begin, PreGenCreate, PreGenSigs, NativeGenerate, NativeWrite, NativeRejected, Emit, RunClang,
       LiveGenerate, InLoop, Step, NextFile, genVars, Create, CreateIn, GenerateSigs, Generate, Write,
       EmitHeader
  <2>2. QED BY <1>0, <2>1 DEF LostByLink
<1>9. CASE Terminating \/ UNCHANGED vars
  BY <1>0, <1>9 DEF Terminating, vars, genVars, driverVars, LostByLink
<1>10. QED BY <1>1, <1>2, <1>3, <1>4, <1>5, <1>6, <1>7, <1>8, <1>9 DEF Next

(***************************************************************************)
(* How every job ends, over any files: a job that is done wrote and linked *)
(* every file, unless compile() returned at once; and of the jobs the      *)
(* compiler starts, link() crashes only where it has two files or more and *)
(* one was declared, and never ends well there.                            *)
(***************************************************************************)
THEOREM EndsByRuleCorrect == Spec => []EndsByRule
<1>1. Init => NoCrash /\ CreatedByLink /\ LostByLink
  BY DEF Init, GenInit, NoCrash, CreatedByLink, LostByLink, Linking
<1>2. DriverInv => TypeInv /\ Positions
  BY DEF DriverInv
<1>3. DriverInv /\ NoCrash /\ CreatedByLink /\ LostByLink => EndsByRule
  <2> SUFFICES ASSUME DriverInv, NoCrash, CreatedByLink, LostByLink PROVE EndsByRule
    OBVIOUS
  <2>1. pc = "done" => \/ job.native = <<>> /\ job.link /\ m_file = NoFile
                       \/ Len(written) = Len(job.native) /\ Len(added) = Len(job.linked)
    BY DEF DriverInv, Counts
  <2>2. job.native \in Seq(SrcFile) /\ job.linked \in Seq(SrcFile) /\ Len(job.linked) \in Nat
    BY DEF DriverInv, TypeInv, TypeOK, Job
  <2>3. ASSUME PipelineJob(job) \/ BuildJob(job), pc = "crashed"
        PROVE  Len(job.linked) > 1 /\ job.files # <<>>
    <3>1. Len(job.linked) > 1
      BY <2>3 DEF NoCrash
    <3>2. BuildJob(job) => job.files # <<>>
      BY <2>3 DEF CreatedByLink, NothingDeclared
    <3>3. PipelineJob(job) => job.files # <<>>
      <4>1. \A u, v \in Seq(SrcFile) : Len(v) > 1 => u \o v # <<>>
        OBVIOUS
      <4>2. QED BY <2>2, <3>1, <4>1 DEF PipelineJob
    <3>4. QED BY <2>3, <3>1, <3>2, <3>3
  <2>4. ASSUME PipelineJob(job) \/ BuildJob(job), pc = "done", m_contxt = "moved"
        PROVE  Len(job.linked) <= 1 \/ job.files = <<>>
    BY <2>2, <2>4 DEF LostByLink, Loses
  <2>5. QED BY <2>1, <2>3, <2>4 DEF EndsByRule
<1>4. DriverInv /\ NoCrash /\ CreatedByLink /\ LostByLink /\ [Next]_vars =>
        NoCrash' /\ CreatedByLink' /\ LostByLink'
  BY <1>2, NoCrashStep, CreatedStep, LostStep
<1>5. QED BY <1>1, <1>3, <1>4, DriverInvariant, PTL DEF Spec

(***************************************************************************)
(* A job as its files see it.  A file has at most one copy, which has the  *)
(* signatures only of a file preGen() is past and the bodies only of one   *)
(* that was generated.                                                     *)
(***************************************************************************)
Undefined == Declaring \cup Native \cup {"setupEmit", "emit", "clang"}
Generated(f) ==
  \/ /\ pc \notin Declaring
     /\ \E i \in DOMAIN job.native :
          job.native[i] = f /\ (pc \in Native => i < pos \/ (pc = "write" /\ i = pos))
  \/ /\ pc \notin Undefined
     /\ \E i \in DOMAIN job.jitted :
          job.jitted[i] = f /\ (pc \in {"setupLive", "generateLive"} => i < pos)

OneCopy == m_module # NoModule => modules[m_file] = NoModule
Accounted ==
  /\ OneCopy
  /\ \A f \in SrcFile : Copy(f) # NoModule =>
       /\ Copy(f).sigs # {} => Seen(f)
       /\ Copy(f).bodies # {} => Generated(f)

LEMMA SeenStays ==
  ASSUME TypeInv, Positions, [Next]_vars, NEW f, Seen(f)
  PROVE  Seen(f)'
<1>0. job' = job /\ pos \in Nat \ {0} /\ job.files \in Seq(SrcFile)
  BY JobFixed DEF TypeInv, TypeOK, Job
<1> USE DEF Declaring, Native
<1>1. CASE pc \notin Declaring
  <2>1. pc' \notin Declaring
    BY <1>1 DEF Next, vars, driverVars, Begin, LeaveLoop, After, PreGenCreate, PreGenSigs, NativeSetup,
       NativeGenerate, NativeWrite, NativeRejected, EmitSetup, Emit, RunClang, LiveSetup,
       LiveGenerate, LinkSetup, LinkContext, AddSetup, AddModule, AddCrashes, Terminating,
       Step, NextFile, InLoop, Loops
  <2>2. QED BY <1>0, <1>1, <2>1 DEF Seen
<1>2. CASE pc = "begin"
  <2>1. pos = 1 /\ \A i \in DOMAIN job.files : ~ (i < 1)
    BY <1>0, <1>2 DEF Positions
  <2>2. QED BY <1>2, <2>1 DEF Seen
<1>3. CASE pc \in {"create", "generateSigs"}
  <2>1. pc' \in Declaring => pos' >= pos /\ pos' \in Nat
    BY <1>0, <1>3 DEF Next, vars, driverVars, Begin, LeaveLoop, After, PreGenCreate, PreGenSigs, NativeSetup,
       NativeGenerate, NativeWrite, NativeRejected, EmitSetup, Emit, RunClang, LiveSetup,
       LiveGenerate, LinkSetup, LinkContext, AddSetup, AddModule, AddCrashes, Terminating,
       Step, NextFile, InLoop, Loops, Ended
  <2>2. QED BY <1>0, <1>3, <2>1 DEF Seen
<1>4. QED BY <1>1, <1>2, <1>3

LEMMA GeneratedStays ==
  ASSUME TypeInv, Positions, [Next]_vars, NEW f, Generated(f)
  PROVE  Generated(f)'
<1>0. /\ job' = job /\ pos \in Nat \ {0} /\ pc \notin Declaring
      /\ \A loop \in Loops : Len(Over(loop)) \in Nat
      /\ \A i \in DOMAIN job.native : i \in Nat /\ i <= Len(job.native)
      /\ \A i \in DOMAIN job.jitted : i \in Nat /\ i <= Len(job.jitted)
  BY JobFixed, OverType DEF TypeInv, TypeOK, Job, Generated, Undefined
<1> USE DEF Declaring, Native, Undefined
<1>1. CASE LeaveLoop
  <2>1. pc' = After[pc] /\ pos' = 1 /\ pc \in Loops \ {"create"} /\ pos > Len(Over(pc))
    BY <1>0, <1>1 DEF LeaveLoop
  <2>2. CASE pc = "setupEmit"
    BY <1>0, <2>1, <2>2 DEF After, Generated
  <2>3. CASE pc = "setupNative"
    BY <1>0, <2>1, <2>3 DEF After, Generated, Over
  <2>4. CASE pc = "setupLive"
    BY <1>0, <2>1, <2>4 DEF After, Generated, Over
  <2>5. CASE pc \in {"setupLink", "setupAdd"}
    BY <1>0, <2>1, <2>5 DEF After, Generated
  <2>6. QED BY <2>1, <2>2, <2>3, <2>4, <2>5 DEF Loops
<1>2. CASE NativeSetup \/ NativeGenerate \/ NativeWrite \/ NativeRejected
  BY <1>0, <1>2 DEF NativeSetup, NativeGenerate, NativeWrite, NativeRejected, InLoop, Step, NextFile, Generated
<1>3. CASE EmitSetup \/ Emit \/ LiveSetup \/ LiveGenerate
  BY <1>0, <1>3 DEF EmitSetup, Emit, LiveSetup, LiveGenerate, InLoop, Step, NextFile, Generated
<1>4. CASE RunClang
  <2>1. pc = "clang" /\ pc' \in {"setupLive", "exit"}
    BY <1>4 DEF RunClang, Step
  <2>2. QED BY <1>0, <2>1 DEF Generated
<1>5. CASE LinkSetup \/ LinkContext \/ AddSetup \/ AddModule \/ AddCrashes
  BY <1>0, <1>5 DEF LinkSetup, LinkContext, AddSetup, AddModule, AddCrashes, InLoop, Step, NextFile, Generated
<1>6. CASE Terminating \/ UNCHANGED vars
  BY <1>0, <1>6 DEF Terminating, vars, driverVars, Generated
<1>7. CASE Begin \/ PreGenCreate \/ PreGenSigs
  BY <1>0, <1>7 DEF Begin, PreGenCreate, PreGenSigs, InLoop
<1>8. QED BY <1>1, <1>2, <1>3, <1>4, <1>5, <1>6, <1>7 DEF Next

LEMMA OneCopyStep ==
  ASSUME TypeInv, OneCopy, [Next]_vars
  PROVE  OneCopy'
<1>1. CASE NativeSetup \/ EmitSetup \/ LiveSetup \/ LinkSetup \/ AddSetup
  <2>1. file \in SrcFile /\ Setup(file)
    BY <1>1, FileType DEF NativeSetup, EmitSetup, LiveSetup, LinkSetup, AddSetup, Loops, TypeInv
  <2>2. CASE SetupTake(file)
    BY <2>1, <2>2, SlotsOfSetup DEF SetupTake, OneCopy, TypeInv
  <2>3. CASE SetupCreate(file)
    BY <2>3 DEF SetupCreate, CreateIn, OneCopy
  <2>4. QED BY <2>1, <2>2, <2>3 DEF Setup
<1>2. CASE PreGenCreate \/ PreGenSigs \/ NativeGenerate \/ NativeWrite \/ Emit \/ LiveGenerate \/ AddModule
  BY <1>2 DEF PreGenCreate, Create, CreateIn, PreGenSigs, GenerateSigs, NativeGenerate, NativeWrite, Write,
     Emit, EmitHeader, LiveGenerate, Generate, AddModule, ReleaseModule, OneCopy
<1>3. CASE Begin \/ LeaveLoop \/ NativeRejected \/ RunClang \/ LinkContext \/ AddCrashes
  BY <1>3 DEF Begin, LeaveLoop, NativeRejected, RunClang, LinkContext, MoveContext, AddCrashes, Step, genVars,
     OneCopy
<1>4. CASE Terminating \/ UNCHANGED vars
  BY <1>4 DEF Terminating, vars, genVars, OneCopy
<1>5. QED BY <1>1, <1>2, <1>3, <1>4 DEF Next

LEMMA AccountedStep ==
  ASSUME InCustody, Positions, Accounted, [Next]_vars
  PROVE  Accounted'
<1>1. OneCopy'
  BY OneCopyStep DEF InCustody, Accounted
<1>2. ASSUME NEW f \in SrcFile, Copy(f)' # NoModule
      PROVE  /\ Copy(f)'.sigs # {} => Seen(f)'
             /\ Copy(f)'.bodies # {} => Generated(f)'
  <2>1. (Seen(f) => Seen(f)') /\ (Generated(f) => Generated(f)')
    BY SeenStays, GeneratedStays DEF InCustody
  <2>2. /\ Emitted(f).sigs = {} /\ Emitted(f).bodies = {}
        /\ \A m \in Module : /\ [m EXCEPT !.sigs = {f}].bodies = m.bodies
                             /\ [m EXCEPT !.bodies = {f}].sigs = m.sigs
    BY DEF Emitted, Module
  <2>3. CASE Copy(f)' = Copy(f)
    BY <1>2, <2>1, <2>3 DEF Accounted
  <2>4. CASE Copy(f)' = Emitted(f)
    BY <2>2, <2>4
  <2>5. CASE PreGenSigs /\ f = m_file /\ Copy(f) \in Module /\ Copy(f)' = [Copy(f) EXCEPT !.sigs = {f}]
    <3>1. pc = "generateSigs" /\ pos' = pos + 1 /\ job' = job /\ pos \in Nat
      BY <2>5 DEF PreGenSigs, NextFile, InCustody, TypeInv, TypeOK
    <3>2. pos \in DOMAIN job.files /\ f = job.files[pos]
      BY <2>5, <3>1 DEF Positions, Body, Over, InCustody, TypeInv, TypeOK, Job
    <3>3. Seen(f)'
      BY <3>1, <3>2 DEF Seen
    <3>4. Copy(f) # NoModule
      BY <2>5, NoModuleAssumption
    <3>5. QED BY <2>1, <2>2, <2>5, <3>3, <3>4 DEF Accounted
  <2>6. CASE /\ NativeGenerate \/ LiveGenerate
             /\ f = m_file /\ Copy(f) \in Module /\ Copy(f)' = [Copy(f) EXCEPT !.bodies = {f}]
    <3>1. Generated(f)'
      <4>1. pos \in Nat \ {0} /\ job' = job /\ TypeOK
        BY JobFixed DEF InCustody, TypeInv, TypeOK
      <4>2. CASE NativeGenerate
        <5>1. pc = "generateNative" /\ pc' = "write" /\ pos' = pos
          BY <4>2 DEF NativeGenerate, Step
        <5>2. pos \in DOMAIN job.native /\ f = job.native[pos]
          BY <2>6, <4>1, <5>1 DEF Positions, Body, Over, TypeOK, Job
        <5>3. QED BY <4>1, <5>1, <5>2 DEF Generated, Declaring
      <4>3. CASE LiveGenerate
        <5>1. pc = "generateLive" /\ pc' = "setupLive" /\ pos' = pos + 1
          BY <4>3 DEF LiveGenerate, NextFile
        <5>2. pos \in DOMAIN job.jitted /\ f = job.jitted[pos]
          BY <2>6, <4>1, <5>1 DEF Positions, Body, Over, TypeOK, Job
        <5>3. QED BY <4>1, <5>1, <5>2 DEF Generated, Declaring, Native, Undefined
      <4>4. QED BY <2>6, <4>2, <4>3
    <3>2. Copy(f) # NoModule
      BY <2>6, NoModuleAssumption
    <3>3. QED BY <2>1, <2>2, <2>6, <3>1, <3>2 DEF Accounted
  <2>7. CASE AddModule /\ f = m_file
    <3>1. m_module # NoModule /\ m_module' = NoModule /\ modules' = modules
      BY <2>7 DEF AddModule, ReleaseModule
    <3>2. Copy(f)' = NoModule
      BY <2>7, <3>1 DEF Accounted, OneCopy, Copy
    <3>3. QED BY <1>2, <3>2
  <2>8. QED BY <2>3, <2>4, <2>5, <2>6, <2>7, CopyStep DEF Changes
<1>3. QED BY <1>1, <1>2 DEF Accounted

\* How far a file is, told from its one copy.
StageOf(f) ==
  IF Left(f) THEN "shipped"
  ELSE IF Copy(f) = NoModule THEN "unseen"
  ELSE IF Copy(f).bodies # {} THEN "defined"
  ELSE IF Copy(f).sigs # {} THEN "declared" ELSE "unseen"

LEMMA StageRule ==
  ASSUME TypeOK, Kept, OneCopy, NEW f \in SrcFile
  PROVE  Stage(f) = StageOf(f)
<1>1. \A m \in Modules \ {NoModule} : f \in m.bodies \/ f \in m.sigs => m = Copy(f)
  <2> SUFFICES ASSUME NEW m \in Modules \ {NoModule}, f \in m.bodies \/ f \in m.sigs
               PROVE  m = Copy(f)
    OBVIOUS
  <2>1. CASE \E g \in SrcFile : m = modules[g]
    <3>1. PICK g \in SrcFile : m = modules[g]
      BY <2>1
    <3>2. g = f
      BY <3>1 DEF Kept, OwnModule
    <3>3. QED BY <3>1, <3>2 DEF Copy, OneCopy
  <2>2. CASE m = m_module
    <3>1. m_file = f
      BY <2>2 DEF Kept, OwnModule
    <3>2. QED BY <2>2, <3>1 DEF Copy
  <2>3. QED BY <2>1, <2>2 DEF Modules
<1>2. Copy(f) \in Modules
  BY DEF Copy, Modules
<1>3. Copy(f) # NoModule => Copy(f).bodies \subseteq {f} /\ Copy(f).sigs \subseteq {f}
  BY DEF Copy, Kept, OwnModule
<1>4. /\ (\E m \in Modules \ {NoModule} : f \in m.bodies) <=> Copy(f) # NoModule /\ Copy(f).bodies # {}
      /\ (\E m \in Modules \ {NoModule} : f \in m.sigs) <=> Copy(f) # NoModule /\ Copy(f).sigs # {}
  BY <1>1, <1>2, <1>3
<1>5. QED BY <1>4 DEF Stage, StageOf

Agreed == \A f \in SrcFile : Stage(f) = StageOf(f)
RefInv == DriverInv /\ ShipInv /\ (Orderly => Accounted /\ Agreed)

LEMMA RefInvariant == Spec => []RefInv
<1>1. Init => ShipInv /\ (Orderly => Accounted)
  <2> SUFFICES ASSUME Init PROVE ShipInv /\ Accounted
    OBVIOUS
  <2>1. /\ pc = "begin" /\ pos = 1 /\ m_module = NoModule /\ job \in Job
        /\ modules = [f \in SrcFile |-> NoModule] /\ written = <<>> /\ added = <<>>
    BY JobsAssumption DEF Init, GenInit
  <2>2. \A i \in DOMAIN job.files : ~ (i < 1)
    BY <2>1 DEF Job
  <2>3. ShipInv
    BY <2>1, <2>2 DEF ShipInv, Ships, DeclaredInv, NativeInv, LinkInv, ShippedAll,
       Declaring, Native, Linking, Ended, Loops, Calls
  <2>4. \A f \in SrcFile : Copy(f) = NoModule
    BY <2>1 DEF Copy
  <2>5. QED BY <2>1, <2>3, <2>4 DEF Accounted, OneCopy
<1>2. DriverInv /\ ShipInv /\ (Orderly => Accounted) => RefInv
  BY StageRule DEF RefInv, Agreed, DriverInv, TypeInv, CustodyInv, Accounted
<1>3. DriverInv /\ ShipInv /\ (Orderly => Accounted) /\ [Next]_vars => ShipInv' /\ (Orderly' => Accounted')
  BY WasOrderly, OrderlyInCustody, AccountedStep, ShipStep DEF DriverInv
<1>4. QED BY <1>1, <1>2, <1>3, DriverInvariant, PTL DEF Spec

JobTodo == IF Regular THEN Range(job.files) ELSE {}
JobStage == [f \in SrcFile |-> IF Regular THEN Stage(f) ELSE "unseen"]

LEMMA StageKept ==
  ASSUME UNCHANGED <<written, added>>, NEW g \in SrcFile, Copy(g)' = Copy(g)
  PROVE  StageOf(g)' = StageOf(g)
BY DEF StageOf, Left

LEMMA StageEmitted ==
  ASSUME UNCHANGED <<written, added>>, NEW g \in SrcFile, Copy(g)' = Emitted(g),
         StageOf(g) \in {"unseen", "shipped"}
  PROVE  StageOf(g)' = StageOf(g)
<1>1. Emitted(g).sigs = {} /\ Emitted(g).bodies = {}
  BY DEF Emitted
<1>2. Left(g)' <=> Left(g)
  BY DEF Left
<1>3. QED BY <1>1, <1>2 DEF StageOf

\* What every step of a regular job may rely on.
RegularInv ==
  /\ Regular /\ Single /\ Ships /\ Positions /\ Counts /\ Accounted /\ InCustody
  /\ JobTodo = Range(job.files)
  /\ JobStage = [f \in SrcFile |-> StageOf(f)]

LEMMA RegularFacts ==
  ASSUME RefInv, Regular
  PROVE  RegularInv
<1>1. Orderly
  BY DEF Regular, Orderly
<1>2. InCustody /\ Accounted /\ Agreed /\ Positions /\ Counts
  BY <1>1, OrderlyInCustody DEF RefInv, DriverInv
<1>3. Single /\ Ships
  BY <1>2 DEF RefInv, ShipInv, Ships, Regular, Single, InCustody
<1>4. JobTodo = Range(job.files) /\ JobStage = [f \in SrcFile |-> StageOf(f)]
  BY <1>2 DEF JobTodo, JobStage, Agreed
<1>5. QED BY <1>2, <1>3, <1>4 DEF RegularInv

\* Before the first write() nothing has left.
LEMMA NothingLeft ==
  ASSUME RegularInv, pc \in Declaring, NEW f \in SrcFile
  PROVE  ~ Left(f)
BY DEF RegularInv, Counts, Linking, Ended, Declaring, Left

\* The file being generated has not left.
LEMMA NotYetLeft ==
  ASSUME RegularInv, pc \in {"generateNative", "write", "generateLive", "addIRModule"}
  PROVE  /\ m_file \in Range(job.files) /\ m_file \in SrcFile /\ ~ Left(m_file)
         /\ pc \in {"generateNative", "generateLive"} => ~ Generated(m_file)
<1>1. /\ TypeOK /\ PipelineJob(job) /\ pos \in Nat \ {0}
      /\ written \in Seq(SrcFile \X Module) /\ added \in Seq(SrcFile \X Module)
      /\ job.native \in Seq(SrcFile) /\ job.jitted \in Seq(SrcFile) /\ job.files \in Seq(SrcFile)
  BY DEF RegularInv, Single, TypeInv, TypeOK, Job
<1>2. /\ \A i, k \in DOMAIN job.native : job.native[i] = job.native[k] => i = k
      /\ \A i, k \in DOMAIN job.jitted : job.jitted[i] = job.jitted[k] => i = k
      /\ \A i \in DOMAIN job.native, k \in DOMAIN job.jitted : job.native[i] # job.jitted[k]
  BY <1>1, PipelineApart
<1>3. /\ job.linked = job.jitted
      /\ \A i \in DOMAIN job.native : job.native[i] \in Range(job.files)
      /\ \A i \in DOMAIN job.jitted : job.jitted[i] \in Range(job.files)
      /\ Range(job.files) \subseteq SrcFile
  BY JobShape DEF RegularInv, Range
<1>4. \A i \in DOMAIN written : i \in DOMAIN job.native /\ written[i][1] = job.native[i]
  <2>1. Len(written) <= Len(job.native)
    BY <1>1 DEF RegularInv, Positions, Counts, Native, AfterNative, Body, Over, Linking
  <2>2. QED BY <1>1, <2>1 DEF RegularInv, Ships, ShippedAll
<1>5. CASE pc \in {"generateNative", "write"}
  <2>1. added = <<>> /\ Len(written) = pos - 1 /\ pos \in DOMAIN job.native /\ m_file = job.native[pos]
    BY <1>1, <1>5 DEF RegularInv, Positions, Counts, Native, Body, Over, Ended
  <2>2. ~ Left(m_file)
    BY <1>1, <1>2, <1>4, <2>1 DEF Left
  <2>3. pc = "generateNative" => ~ Generated(m_file)
    BY <1>1, <1>2, <2>1 DEF Generated, Native, Undefined
  <2>4. QED BY <1>3, <1>5, <2>1, <2>2, <2>3
<1>6. CASE pc \in {"generateLive", "addIRModule"}
  <2>1. added = <<>> /\ pos \in DOMAIN job.jitted /\ m_file = job.jitted[pos]
    <3>1. pc = "addIRModule" => Len(added) = 0
      BY <1>6 DEF RegularInv, Ships, LinkInv
    <3>2. QED BY <1>1, <1>3, <1>6, <3>1 DEF RegularInv, Positions, Counts, Body, Over, Ended
  <2>2. ~ Left(m_file)
    BY <1>2, <1>4, <2>1 DEF Left
  <2>3. pc = "generateLive" => ~ Generated(m_file)
    BY <1>1, <1>2, <2>1 DEF Generated
  <2>4. QED BY <1>3, <1>6, <2>1, <2>2, <2>3
<1>7. QED BY <1>5, <1>6

\* Every file of the job is declared once preGen() is over.
LEMMA AllDeclared ==
  ASSUME RegularInv, pc \in {"generateNative", "generateLive"}
  PROVE  \A g \in Range(job.files) : StageOf(g) # "unseen"
<1>1. \A i \in DOMAIN job.files : Declared(job.files[i])
  BY DEF RegularInv, Ships, DeclaredInv, LinkInv, Calls, Declaring, Linking, Ended
<1>2. \A g : Declared(g) => StageOf(g) # "unseen"
  BY DEF Declared, StageOf
<1>3. QED BY <1>1, <1>2 DEF Range

\* preGen() declares, the two generating loops define, write() and addIRModule ship; every
\* other call leaves the stage of every file.
LEMMA RegularStep ==
  ASSUME RegularInv, RegularInv', [Next]_vars
  PROVE  [Abstract!Next]_<<JobTodo, JobStage>>
<1>0. /\ job' = job /\ JobTodo' = JobTodo /\ JobTodo = Range(job.files)
      /\ JobStage = [f \in SrcFile |-> StageOf(f)]
      /\ JobStage' = [f \in SrcFile |-> StageOf(f)']
      /\ Range(job.files) \subseteq SrcFile /\ TypeOK /\ InCustody
  BY JobFixed, JobShape DEF RegularInv, InCustody, TypeInv, Range
<1>1. ASSUME \A g \in SrcFile : StageOf(g)' = StageOf(g)
      PROVE  [Abstract!Next]_<<JobTodo, JobStage>>
  BY <1>0, <1>1
<1>2. ASSUME NEW f \in Range(job.files), NEW from, NEW to, StageOf(f) = from, StageOf(f)' = to,
             \A g \in SrcFile \ {f} : StageOf(g)' = StageOf(g)
      PROVE  JobStage[f] = from /\ JobStage' = [JobStage EXCEPT ![f] = to] /\ UNCHANGED JobTodo
  BY <1>0, <1>2
<1>3. \A g \in Range(job.files) : JobStage[g] = StageOf(g)
  BY <1>0
<1>4. CASE PreGenCreate
  <2>1. UNCHANGED <<written, added>> /\ pc = "create" /\ pos \in DOMAIN job.files /\ file = job.files[pos]
    BY <1>0, <1>4 DEF PreGenCreate, InLoop, Step, file, Over, TypeOK, Job
  <2>2. PICK f \in SrcFile : f = file
    BY <1>0, <1>4, FileType DEF PreGenCreate, Loops
  <2>3. ~ Seen(f) /\ ~ Generated(f)
    BY <1>0, <2>1, <2>2, JobShape DEF RegularInv, Seen, Generated, Declaring, Undefined, TypeOK, Job
  <2>4. StageOf(f) = "unseen"
    BY <2>1, <2>2, <2>3, NothingLeft DEF RegularInv, Accounted, StageOf, Declaring
  <2>5. ASSUME NEW g \in SrcFile PROVE StageOf(g)' = StageOf(g)
    <3>1. Copy(g)' = Copy(g) \/ (g = f /\ Copy(g)' = Emitted(g)) \/ (Copy(g) = NoModule /\ Copy(g)' = Emitted(g))
      BY <1>0, <1>4, <2>1, <2>2, CopyStep DEF Changes, PreGenSigs, NativeGenerate, LiveGenerate, AddModule
    <3>2. Copy(g) = NoModule => StageOf(g) \in {"unseen", "shipped"}
      BY DEF StageOf
    <3>3. QED BY <2>1, <2>4, <3>1, <3>2, StageKept, StageEmitted
  <2>6. QED BY <1>1, <2>5
<1>5. CASE PreGenSigs
  <2>1. /\ UNCHANGED <<written, added>> /\ pc = "generateSigs" /\ pos \in DOMAIN job.files
        /\ m_file = job.files[pos] /\ modules[m_file] # NoModule /\ m_module = NoModule
    BY <1>0, <1>5 DEF PreGenSigs, GenerateSigs, NextFile, RegularInv, Positions, Body, Over, TypeOK, Job,
       InCustody, HeldWhere, Empty
  <2>2. PICK f \in Range(job.files) : f = m_file
    BY <2>1 DEF Range
  <2>3. ~ Seen(f) /\ \A g \in SrcFile : ~ Generated(g) /\ ~ Left(g)
    BY <1>0, <2>1, <2>2, JobShape, NothingLeft DEF RegularInv, Seen, Generated, Declaring, Undefined, TypeOK, Job
  <2>4. Copy(f) \in Module /\ Copy(f) # NoModule
    BY <1>0, <2>1, <2>2 DEF Copy, TypeOK, GenTypeOK
  <2>5. StageOf(f) = "unseen" /\ Copy(f).bodies = {}
    BY <1>0, <2>2, <2>3, <2>4 DEF RegularInv, Accounted, StageOf
  <2>6. Copy(f)' = [Copy(f) EXCEPT !.sigs = {f}]
    <3>1. m_file \in SrcFile
      BY <1>0, <2>2
    <3>2. modules[f].sigs = {}
      BY <1>0, <2>1, <2>2, <2>3, <2>4 DEF RegularInv, Accounted, Copy
    <3>3. modules' = [modules EXCEPT ![f].sigs = @ \cup {f}] /\ m_module' = NoModule
      BY <1>5, <2>2 DEF PreGenSigs, GenerateSigs
    <3>4. modules'[f] = [modules[f] EXCEPT !.sigs = {f}]
      BY <1>0, <3>2, <3>3 DEF TypeOK, GenTypeOK
    <3>5. QED BY <2>1, <3>3, <3>4 DEF Copy
  <2>7. StageOf(f)' = "declared"
    <3>1. Copy(f)' \in Module /\ Copy(f)'.bodies = {} /\ Copy(f)'.sigs = {f}
      BY <1>0, <2>4, <2>5, <2>6 DEF Module
    <3>2. ~ Left(f)'
      BY <1>0, <2>1, <2>3 DEF Left
    <3>3. QED BY <3>1, <3>2, NoModuleAssumption DEF StageOf
  <2>8. ASSUME NEW g \in SrcFile \ {f} PROVE StageOf(g)' = StageOf(g)
    <3>1. Copy(g)' = Copy(g) \/ (Copy(g) = NoModule /\ Copy(g)' = Emitted(g))
      BY <1>0, <1>5, <2>1, <2>2, CopyStep DEF Changes, PreGenCreate, InLoop, NativeGenerate, LiveGenerate, AddModule
    <3>2. Copy(g) = NoModule => StageOf(g) \in {"unseen", "shipped"}
      BY DEF StageOf
    <3>3. QED BY <2>1, <3>1, <3>2, StageKept, StageEmitted
  <2>9. \A g \in Range(job.files) : JobStage[g] \in {"unseen", "declared"}
    BY <1>0, <1>3, <2>3 DEF StageOf, RegularInv, Accounted
  <2>10. Abstract!Declare(f)
    BY <1>0, <1>2, <2>5, <2>7, <2>8, <2>9 DEF Abstract!Declare, Abstract!Move, JobTodo, JobStage
  <2>11. QED BY <1>0, <2>10 DEF Abstract!Next, JobTodo, JobStage
<1>6. CASE NativeGenerate \/ LiveGenerate
  <2>1. UNCHANGED <<written, added>> /\ pc \in {"generateNative", "generateLive"}
    BY <1>6 DEF NativeGenerate, LiveGenerate, Step, NextFile
  <2>2. m_file \in Range(job.files) /\ ~ Left(m_file) /\ ~ Generated(m_file)
    BY <2>1, NotYetLeft
  <2>3. PICK f \in Range(job.files) : f = m_file
    BY <2>2
  <2>4. Generate /\ Kept /\ TypeInv
    BY <1>0, <1>6 DEF NativeGenerate, LiveGenerate, InCustody
  <2>5. Copy(f) \in Module /\ Copy(f) # NoModule /\ Copy(f)' = [Copy(f) EXCEPT !.bodies = {f}]
    BY <1>0, <2>3, <2>4, GenerateChanges, NoModuleAssumption
  <2>6. StageOf(f) = "declared"
    <3>1. StageOf(f) # "unseen"
      BY <2>1, AllDeclared
    <3>2. Copy(f).bodies = {}
      BY <1>0, <2>2, <2>3, <2>5 DEF RegularInv, Accounted
    <3>3. QED BY <2>2, <2>3, <2>5, <3>1, <3>2 DEF StageOf
  <2>7. StageOf(f)' = "defined"
    <3>1. Copy(f)' \in Module /\ Copy(f)'.bodies = {f}
      BY <1>0, <2>5 DEF Module
    <3>2. ~ Left(f)'
      BY <2>1, <2>2, <2>3 DEF Left
    <3>3. QED BY <3>1, <3>2, NoModuleAssumption DEF StageOf
  <2>8. ASSUME NEW g \in SrcFile \ {f} PROVE StageOf(g)' = StageOf(g)
    BY <2>1, <2>3, <2>4, GenerateChanges, StageKept
  <2>9. \A g \in Range(job.files) : JobStage[g] # "unseen"
    BY <1>3, <2>1, AllDeclared
  <2>10. Abstract!Define(f)
    BY <1>0, <1>2, <2>6, <2>7, <2>8, <2>9 DEF Abstract!Define, Abstract!Move, JobTodo, JobStage
  <2>11. QED BY <1>0, <2>10 DEF Abstract!Next, JobTodo, JobStage
<1>7. ASSUME NEW f \in Range(job.files), Copy(f) = Complete(f), ~ Left(f), Left(f)',
             \A g \in SrcFile \ {f} : StageOf(g)' = StageOf(g)
      PROVE  [Abstract!Next]_<<JobTodo, JobStage>>
  <2>1. StageOf(f) = "defined"
    <3>1. Complete(f) # NoModule /\ Complete(f).bodies # {}
      BY <1>0, NoModuleAssumption DEF Complete, Module
    <3>2. QED BY <1>7, <3>1 DEF StageOf
  <2>2. StageOf(f)' = "shipped"
    BY <1>7 DEF StageOf
  <2>3. Abstract!Ship(f)
    BY <1>0, <1>2, <1>7, <2>1, <2>2 DEF Abstract!Ship, Abstract!Move, JobTodo, JobStage
  <2>4. QED BY <1>0, <2>3 DEF Abstract!Next, JobTodo, JobStage
<1>8. CASE NativeWrite
  <2>1. /\ pc = "write" /\ written' = Append(written, <<m_file, modules[m_file]>>) /\ added' = added
        /\ modules' = modules /\ m_module = NoModule /\ m_module' = NoModule
    BY <1>0, <1>8 DEF NativeWrite, Write, InCustody, HeldWhere, Empty
  <2>2. m_file \in Range(job.files) /\ ~ Left(m_file)
    BY <2>1, NotYetLeft
  <2>3. PICK f \in Range(job.files) : f = m_file
    BY <2>2
  <2>4. Copy(f) = Complete(f)
    BY <2>1, <2>3 DEF RegularInv, Ships, NativeInv, Copy
  <2>5. \A g : Left(g)' <=> Left(g) \/ g = f
    <3>1. written \in Seq(SrcFile \X Module) /\ <<f, modules[f]>> \in SrcFile \X Module
      BY <1>0, <2>1, <2>3 DEF TypeOK, InCustody, TypeInv, WriteHasModule
    <3>2. /\ \A i \in DOMAIN written : i \in DOMAIN written' /\ written'[i] = written[i]
          /\ Len(written) + 1 \in DOMAIN written' /\ written'[Len(written) + 1] = <<f, modules[f]>>
          /\ \A i \in DOMAIN written' : i \in DOMAIN written \/ i = Len(written) + 1
      BY <2>1, <2>3, <3>1
    <3>3. QED BY <2>1, <3>2 DEF Left
  <2>6. ASSUME NEW g \in SrcFile \ {f} PROVE StageOf(g)' = StageOf(g)
    <3>1. Copy(g)' = Copy(g)
      BY <2>1 DEF Copy
    <3>2. QED BY <2>5, <3>1 DEF StageOf
  <2>7. QED BY <1>7, <2>2, <2>3, <2>4, <2>5, <2>6
<1>9. CASE AddModule
  <2>1. /\ pc = "addIRModule" /\ added' = Append(added, <<m_file, m_module>>) /\ written' = written
        /\ modules' = modules /\ m_module # NoModule /\ m_module' = NoModule /\ m_file' = m_file
    BY <1>9 DEF AddModule, ReleaseModule
  <2>2. m_file \in Range(job.files) /\ ~ Left(m_file)
    BY <2>1, NotYetLeft
  <2>3. PICK f \in Range(job.files) : f = m_file
    BY <2>2
  <2>4. Copy(f) = Complete(f)
    <3>1. pos = 1 /\ m_file = job.jitted[1] /\ Len(added) = 0 /\ job.jitted # <<>>
      BY <2>1 DEF RegularInv, Ships, LinkInv
    <3>2. added = <<>>
      BY <1>0, <3>1 DEF TypeOK
    <3>3. Copy(job.jitted[1]) = Complete(job.jitted[1])
      BY <2>1, <3>1, <3>2 DEF RegularInv, Ships, LinkInv, Linking
    <3>4. QED BY <2>3, <3>1, <3>3
  <2>5. \A g : Left(g)' <=> Left(g) \/ g = f
    <3>1. added \in Seq(SrcFile \X Module) /\ <<f, m_module>> \in SrcFile \X Module
      BY <1>0, <2>1 DEF TypeOK, GenTypeOK
    <3>2. /\ \A i \in DOMAIN added : i \in DOMAIN added' /\ added'[i] = added[i]
          /\ Len(added) + 1 \in DOMAIN added' /\ added'[Len(added) + 1] = <<f, m_module>>
          /\ \A i \in DOMAIN added' : i \in DOMAIN added \/ i = Len(added) + 1
      BY <2>1, <2>3, <3>1
    <3>3. QED BY <2>1, <3>2 DEF Left
  <2>6. ASSUME NEW g \in SrcFile \ {f} PROVE StageOf(g)' = StageOf(g)
    <3>1. Copy(g)' = Copy(g)
      BY <2>1, <2>3 DEF Copy
    <3>2. QED BY <2>5, <3>1 DEF StageOf
  <2>7. QED BY <1>7, <2>2, <2>3, <2>4, <2>5, <2>6
<1>10. CASE \/ Begin \/ LeaveLoop \/ NativeSetup \/ NativeRejected \/ EmitSetup \/ Emit \/ RunClang
            \/ LiveSetup \/ LinkSetup \/ LinkContext \/ AddSetup \/ AddCrashes \/ Terminating
            \/ UNCHANGED vars
  <2>1. \/ UNCHANGED <<written, added>> /\ ~ PreGenCreate /\ ~ PreGenSigs /\ ~ NativeGenerate
           /\ ~ LiveGenerate /\ ~ AddModule
        \/ UNCHANGED vars
    BY <1>10 DEF Begin, LeaveLoop, NativeSetup, NativeRejected, EmitSetup, Emit, RunClang, LiveSetup,
       LinkSetup, LinkContext, AddSetup, AddCrashes, Terminating, Step, NextFile, InLoop, Loops, Ended,
       PreGenCreate, PreGenSigs, NativeGenerate, LiveGenerate, AddModule
  <2>2. CASE UNCHANGED vars
    <3>1. \A g \in SrcFile : StageOf(g)' = StageOf(g)
      BY <2>2, StageKept DEF vars, genVars, driverVars, Copy
    <3>2. QED BY <1>1, <3>1
  <2>3. CASE ~ UNCHANGED vars
    <3>1. ASSUME NEW g \in SrcFile PROVE StageOf(g)' = StageOf(g)
      <4>1. Copy(g)' = Copy(g) \/ (Copy(g) = NoModule /\ Copy(g)' = Emitted(g))
        BY <1>0, <2>1, <2>3, CopyStep DEF Changes
      <4>2. Copy(g) = NoModule => StageOf(g) \in {"unseen", "shipped"}
        BY DEF StageOf
      <4>3. QED BY <2>1, <2>3, <4>1, <4>2, StageKept, StageEmitted
    <3>2. QED BY <1>1, <3>1
  <2>4. QED BY <2>2, <2>3
<1>11. QED BY <1>4, <1>5, <1>6, <1>8, <1>9, <1>10 DEF Next

(***************************************************************************)
(* Every job over any set of files implements the abstract job: no file is *)
(* defined before all are declared, and none is shipped before it is       *)
(* defined, or twice.                                                      *)
(***************************************************************************)
THEOREM CompileJobImplemented == Spec => ImplementsCompileJob
<1>1. Init => Abstract!Init
  <2> SUFFICES ASSUME Init PROVE Abstract!Init
    OBVIOUS
  <2>1. job \in Job /\ m_module = NoModule /\ modules = [f \in SrcFile |-> NoModule]
        /\ written = <<>> /\ added = <<>>
    BY JobsAssumption DEF Init, GenInit
  <2>2. Range(job.files) \subseteq SrcFile
    BY <2>1 DEF Job, Range
  <2>3. \A f \in SrcFile : Stage(f) = "unseen"
    <3>1. Modules \ {NoModule} = {}
      BY <2>1 DEF Modules
    <3>2. DOMAIN written = {} /\ DOMAIN added = {}
      BY <2>1
    <3>3. \A f : ~ Left(f)
      BY <3>2 DEF Left
    <3>4. QED BY <3>1, <3>3 DEF Stage
  <2>4. QED BY <2>2, <2>3 DEF Abstract!Init
<1>2. RefInv => (Regular => RegularInv)
  BY RegularFacts
<1>3. (Regular => RegularInv) /\ (Regular => RegularInv)' /\ [Next]_vars =>
        [Abstract!Next]_<<JobTodo, JobStage>>
  <2> SUFFICES ASSUME Regular => RegularInv, (Regular => RegularInv)', [Next]_vars
               PROVE  [Abstract!Next]_<<JobTodo, JobStage>>
    OBVIOUS
  <2>1. Regular' <=> Regular
    BY JobFixed DEF Regular, SingleLive
  <2>2. CASE Regular
    BY <2>1, <2>2, RegularStep
  <2>3. CASE ~ Regular
    BY <2>1, <2>3 DEF JobTodo, JobStage
  <2>4. QED BY <2>2, <2>3
<1>4. QED BY <1>1, <1>2, <1>3, RefInvariant, PTL DEF Spec, ImplementsCompileJob, Abstract!Spec, JobTodo, JobStage
=============================================================================
