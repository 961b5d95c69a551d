SPECIFICATION Spec
CONSTANTS
  Items = {i1}
  MainBodies = {"expression"}
  MaxFrames = 2
INVARIANTS
  StackIsNotUsedAfterFree
CHECK_DEADLOCK FALSE
