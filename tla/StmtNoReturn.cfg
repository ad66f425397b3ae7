SPECIFICATION GenSpec
CONSTANTS
  Programs <- AllPrograms
  Statements <- AllStatements
INVARIANTS
  NoReturnReported
