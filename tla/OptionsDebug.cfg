\* the build script of the repository's own test
CONSTANTS
  Path <- Paths
  Live <- LiveOnes
  Dir <- Dirs
  Code <- Codes
  Inputs <- All
SPECIFICATION Spec
INVARIANT DebugBuildReachesClang
