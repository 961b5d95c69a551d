SPECIFICATION Spec
CONSTANTS
  x = "x"
  y = "y"
  Names = {"x", "y"}
  Subroutines = {"main", "f"}
  Typedefs = {"s", "t", "u"}
  ParameterLists <- UpToTwo
  DomainLists = {1, 2}
  MaxDepth = 3
  Shapes <- SmallPrograms
INVARIANTS
  TypeOK
  UsesResolveLexically
  ParametersAreBound
  CallsReachABody
  MarksFollowNesting
  WellFormedIsAccepted
  TypedefsAreResolved
\* The compiler stops when it has accepted or rejected the program.
CHECK_DEADLOCK FALSE
