SPECIFICATION Spec
CONSTANTS
  Slots = {s1, s2, s3}
  Blocks = {b1, b2, b3}
  Arrays <- VectorAndMatrix
  Temporaries <- Interval
  Indices <- SmallIndices
  MatrixOfMatrix = TRUE
SYMMETRY Symmetry
INVARIANTS
  ReferencesCompose
\* errorAndExit() ends the program.
CHECK_DEADLOCK FALSE
