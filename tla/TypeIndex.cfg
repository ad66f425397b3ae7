\* up to four declarations of types in one or two files
CONSTANTS
  Name <- Names
  Projects <- All
SPECIFICATION Spec
INVARIANTS
  TypeOK
  AcceptedByRule
  SharedByName
  ReferencesByRule
  EveryTypeReset
PROPERTY
  NamesSettled
