SPECIFICATION Spec
CONSTANTS
  Headers <- MCHeaders
  Globals <- MCGlobals
  Locals = {"x"}
  Types <- MCTypes
  Callees <- MCCallees
  GlobalsFromIdentifiers = FALSE
  MaxNodes = 4
  MaxStatements = 2
  MaxTurns = 2
INVARIANTS TypeOK OnlyLiveObjectsAreUsed NothingLeaks TypesAreGivenBack
CHECK_DEADLOCK FALSE
