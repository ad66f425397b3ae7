\* the bodies of all three families, loops and branches, switches, try: their
\* generation, and the execution of those that compile
SPECIFICATION ExecSpec
CONSTANTS
  Programs <- AllPrograms
  Statements <- AllStatements
INVARIANTS
  TypeOK
  StackDiscipline
  FlagSound
  AcceptedByRule
  Agree
