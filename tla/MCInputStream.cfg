\* A buffer of 4 bytes wraps round on inputs of 6 bytes, and white space and
\* tokens of 3 bytes are too long for it.  Tokens of up to 5 bytes are tried on
\* the scanners alone; IntMax is scaled down to 19, so that both range bounds
\* are crossed by two-digit numbers.
CONSTANTS
  Bytes = {"ws", "1", "T"}
  IntMax = 19
  BufferSize = 4
  MaxInput = 6
  Inputs <- AllInputs
  TokenOps = {"integer", "boolean"}
  TokenBytes = {"0", "1", "2", "9", "+", "-", ".", "e", "x"}
  MaxToken = 5
SPECIFICATION MCSpec
INVARIANTS TypeOK WindowFaithful NeverOverrun IdleIsRewound IntegerIsExact RealIsGrammar
PROPERTIES ImplementsAbstractInput ReadEnds
CHECK_DEADLOCK FALSE
