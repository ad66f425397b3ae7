SPECIFICATION Spec
CONSTANTS
  Above <- MCAbove
  Interfaces <- MCInterfaces
  Fields <- MCFields
  Constructors <- MCConstructors
  Functions <- MCFunctions
  Programs <- MCPrograms
INVARIANTS
  TypedByRule
  MeantByRule
  HeldByRule
