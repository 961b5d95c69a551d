SPECIFICATION Spec
CONSTANTS
  Loops = {"infinite", "iterator"}
  Domains = {1, 2}
  ElseIfs = {0}
  NestedDomains = TRUE
  MaxStatements = 4
  MaxDepth = 4
INVARIANTS
  BlockStackIsCleared
\* The generator stops at the end of the subroutine.
CHECK_DEADLOCK FALSE
