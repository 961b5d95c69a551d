SPECIFICATION Spec
CONSTANTS
  Headers <- MCHeaders
  Globals <- MCTwoGlobals
  Locals = {"x"}
  Types <- MCTypes
  Callees <- MCCallees
  GlobalsFromIdentifiers = TRUE
  MaxNodes = 3
  MaxStatements = 0
  MaxTurns = 2
INVARIANT GlobalsAreFreedOnce
CHECK_DEADLOCK FALSE
