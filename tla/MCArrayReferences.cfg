SPECIFICATION Spec
CONSTANTS
  Slots = {s1, s2}
  Blocks = {b1, b2, b3}
  Arrays <- VectorAndMatrix
  Temporaries <- Interval
  Indices <- SmallIndices
  MatrixOfMatrix = FALSE
SYMMETRY Symmetry
INVARIANTS
  TypeOK
  CountIsHolders
  ReferencesCompose
  DataFitsDims
PROPERTIES
  WritesGoThroughReferences
\* errorAndExit() ends the program.
CHECK_DEADLOCK FALSE
