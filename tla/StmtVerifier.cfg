SPECIFICATION GenSpec
CONSTANTS
  Programs <- AllPrograms
  Statements <- AllStatements
INVARIANTS
  VerifierContent
