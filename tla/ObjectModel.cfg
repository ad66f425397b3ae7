\* three classes: overriding in a row of superclasses, interfaces and fields
CONSTANTS
  A = A
  B = B
  C = C
  I = I
  J = J
  F = F
  G = G
  H = H
  NoClass = NoClass
  Class <- ThreeClasses
  Interface <- TwoInterfaces
  Name <- Names
  Programs <- All
SPECIFICATION Spec
INVARIANTS
  OverridesTaken
  SlotsKept
  CompiledByRule
  WrittenByRule
  Dispatched
