SPECIFICATION Spec
CONSTANTS
    MaxDim = 2
    Operators = {"plus", "times", "divide", "dot", "by", "less", "equal", "and"}
    Leaves = {"boolean", "character", "integer", "real", "string", "null", "identity", "empty"}
    DeclaredTypes <- MCDeclaredTypes
CHECK_DEADLOCK FALSE
INVARIANTS
    TypeOK
    StaticTypesDescribeValues
    AcceptedOperationsRun
    TuplesMeetTuples
PROPERTY
    KeepsItsType
