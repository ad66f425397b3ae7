\* classes that use each other from their methods, in either order
CONSTANTS
  F1 = F1
  F2 = F2
  F3 = F3
  A = A
  B = B
  Exception = Exception
  NoFile = NoFile
  NoClass = NoClass
  File <- ThreeFiles
  Class <- TwoClasses
  Projects <- All
SPECIFICATION Spec
INVARIANTS
  TypeOK
  AcceptedByRule
  LinkedByRule
  CompleteIfOrdered
  SilentByRule
  StaleIsSeen
