CONSTANTS
  F1 = F1
  F2 = F2
  F3 = F3
  A = A
  B = B
  Exception = Exception
  NoFile = NoFile
  NoClass = NoClass
  File <- ThreeFiles
  Class <- TwoClasses
  Projects <- Sharing
SPECIFICATION Spec
INVARIANT ManualSuperNeeded
