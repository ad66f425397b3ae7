\* every pipeline job over three files, and the build-script jobs of OptionsParser
CONSTANTS
  SrcFile = {f1, f2, f3}
  NoFile = NoFile
  NoModule = NoModule
  Jobs <- AllJobs
SPECIFICATION Spec
INVARIANTS
  TypeOK
  Custody
  Shipped
  NativeScopeClean
  StaticsByRule
  EndsByRule
PROPERTIES
  ModulesLeaveOnlyToTheJit
  ImplementsCompileJob
