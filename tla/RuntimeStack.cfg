SPECIFICATION Spec
CONSTANTS
  Items = {i1, i2, i3, i4}
  MainBodies = {"block", "expression"}
  MaxFrames = 5
INVARIANTS
  TypeOK
  StackHoldsWhatLives
  SavedPositionsAreValid
PROPERTIES
  ImplementsScopedLifetimes
\* The program stops when main returns.
CHECK_DEADLOCK FALSE
