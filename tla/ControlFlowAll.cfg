SPECIFICATION Spec
CONSTANTS
  Loops = {"infinite", "prepred", "postpred", "iterator"}
  Domains = {1, 2}
  ElseIfs = {0, 2}
  NestedDomains = FALSE
  MaxStatements = 4
  MaxDepth = 4
INVARIANTS
  TypeOK
  JumpsStayInTheirLoop
  LiveIsLexical
  PathsAgree
  EmittedCodeIsSound
  FunctionIsWellFormed
\* The generator stops at the end of the subroutine.
CHECK_DEADLOCK FALSE
