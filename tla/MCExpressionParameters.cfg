SPECIFICATION Spec
CONSTANTS
  Headers <- MCConstFirst
  Globals <- MCGlobals
  Locals = {"x"}
  Types <- MCTypes
  Callees <- MCCallees
  GlobalsFromIdentifiers = FALSE
  MaxNodes = 2
  MaxStatements = 1
  MaxTurns = 1
INVARIANT TypesAreGivenBack
CHECK_DEADLOCK FALSE
