\* command lines, the files on them, and build scripts
CONSTANTS
  Path <- Paths
  Live <- LiveOnes
  Dir <- Dirs
  Code <- Codes
  Inputs <- All
SPECIFICATION Spec
INVARIANTS
  SeparatedByRule
  EndByRule
  OutputByRule
