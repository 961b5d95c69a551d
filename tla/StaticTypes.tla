----------------------------- MODULE StaticTypes -----------------------------
(* The types the compiler works with before it emits anything: the type ids   *)
(* (Type.h), the promotion tables (TypePromote.cpp) and the rules by which    *)
(* TypeWalk gives every expression its evalType.                              *)
(*                                                                            *)
(* A type id is kept as its base and its number of dimensions: INTEGER_2 is   *)
(* [base |-> "integer", dim |-> 2].  The tables are written as the rule their *)
(* entries follow, not entry by entry.  promoteToType, which the walk fills   *)
(* in and no later pass reads, is left out.                                   *)
EXTENDS Integers, Sequences, FiniteSetsExt

Id(base, dim) == [base |-> base, dim |-> dim, fields |-> << >>]
TupleId(fields) == [base |-> "tuple", dim |-> 0, fields |-> fields]

Numbers == {"integer", "real"}
Bases == Numbers \union {"boolean", "character"}

Boolean == Id("boolean", 0)
Character == Id("character", 0)
Integer == Id("integer", 0)
Real == Id("real", 0)
String == Id("string", 0)
IntegerInterval == Id("integer-interval", 0)
IdentityNull == Id("identitynull", 0)

Unknown == Id("unknown", 0)    \* evalType is the null pointer
Invalid == Id("invalid", 0)    \* getTypeId answers -1: no row of any table
Rejected == Id("rejected", 0)  \* a type error is reported
Wild == Id("wild", 0)          \* a table is read outside its rows, or a null
                               \* type is dereferenced: undefined

IsType(t) == t.base \notin {"rejected", "wild"}

-----------------------------------------------------------------------------
(* Types.                                                                     *)

(* MatrixType::getTypeId: only the scalar bases and string have a vector or   *)
(* a matrix id; a base that is itself an array, an interval or null gives -1. *)
MatrixType(base, dimension) ==
    IF base.base \in Bases /\ base.dim = 0
    THEN Id(base.base, IF dimension = 1 THEN 1 ELSE 2)
    ELSE IF base = String THEN String ELSE Invalid

(* SymbolTable::getType: the four matrix ids (12 to 15) are given the vector  *)
(* types.                                                                     *)
GetType(id) == IF id.dim = 2 THEN Id(id.base, 1) ELSE id

-----------------------------------------------------------------------------
(* The tables.  Each is the set of types (at most one) of the entry.          *)

Wider(l, r) == IF "real" \in {l.base, r.base} THEN "real" ELSE l.base
Larger(l, r) == Max({l.dim, r.dim})
Entry(condition, id) == IF condition THEN {id} ELSE {}

(* logicalResultType: booleans of any dimensions.                             *)
Logical(l, r) ==
    Entry(l.base = "boolean" /\ r.base = "boolean", Id("boolean", Larger(l, r)))

(* The interval rows of the arithmetic table: with an interval, an integer    *)
(* scalar or a vector of numbers.                                             *)
IntervalRow(l, r) ==
    UNION {Entry(/\ pair[1] = IntegerInterval
                 /\ pair[2] \in {Integer, Id("integer", 1), Id("real", 1)},
                 Id(pair[2].base, 1)) : pair \in {<<l, r>>, <<r, l>>}}

(* arithmeticResultType: numbers of the same dimensions or with a scalar;     *)
(* vectors only of the same base.                                             *)
Arithmetic(l, r) ==
    Entry(/\ l.base \in Numbers
          /\ r.base \in Numbers
          /\ \/ 0 \in {l.dim, r.dim}
             \/ l.dim = 1 /\ r = l
             \/ l.dim = 2 /\ r.dim = 2,
          Id(Wider(l, r), Larger(l, r)))
    \union Entry(l = IntegerInterval /\ r = l, l)
    \union IntervalRow(l, r)

(* relationalResultType: scalar numbers only.                                 *)
Relational(l, r) ==
    Entry({l, r} \subseteq {Integer, Real}, Boolean)

(* Mutant: the dimensions are compared and the bases are not.                 *)
Equality_Slip(l, r) ==
    Entry(l.dim = r.dim \/ 0 \in {l.dim, r.dim}, Boolean)

(* equalityResultType: the same base, of the same dimensions or with a        *)
(* scalar; an integer scalar with a real, or a real scalar with an integer    *)
(* one; a string with a vector of characters.                                 *)
Equality(l, r) ==
    Entry(\/ l.base = r.base /\ (l.dim = r.dim \/ 0 \in {l.dim, r.dim})
          \/ \E a, b \in {l, r} : a = Integer /\ b.base = "real"
          \/ {l, r} = {String, Id("character", 1)},
          Boolean)

(* concatenationResultType: a vector with a scalar or a vector, but not two   *)
(* scalars; strings with characters; intervals; a matrix before a scalar.     *)
Concatenation(l, r) ==
    LET withinOne == Larger(l, r) = 1
        numbers == l.base \in Numbers /\ r.base \in Numbers
    IN  Entry(withinOne /\ (numbers \/ (l.base = r.base /\ l.base \in Bases)),
              Id(Wider(l, r), 1))
        \union Entry(numbers /\ l.dim = 2 /\ r.dim = 0, Id(Wider(l, r), 2))
        \union Entry(\/ l = String /\ r \in {Character, String, Id("character", 1)}
                     \/ r = String /\ l \in {Character, Id("character", 1)}, String)
        \union Entry(l = IntegerInterval /\ r \in {Integer, IntegerInterval},
                     Id("integer", 1))
        \union Entry(l = IntegerInterval /\ r \in {Id("integer", 1), Id("real", 1)}, r)
        \union Entry(r = IntegerInterval /\ l \in {Id("integer", 1), Id("real", 1)}, l)

(* promotionFromTo[from][to] # 0.                                             *)
PromotesTo(from, to) ==
    \/ from = IdentityNull /\ to.base \notin {"tuple", "identitynull"}
    \/ from.base \in Bases /\ from.dim = 0 /\ to.base = from.base /\ to.dim > 0
    \/ from.base = "integer" /\ to.base = "real" /\ from.dim \in {0, to.dim}
    \/ from = Id("boolean", 1) /\ to = Id("boolean", 2)
    \/ from = Character /\ to = String
    \/ from = String /\ to \in {Id("character", 1), Id("character", 2)}
    \/ from = Id("character", 1) /\ to = String
    \/ from = IntegerInterval /\ to \in {Id("integer", 1), Id("real", 1)}

(* getResultType and getConcatenationResultType, with the table's entry for   *)
(* the operands: unknown operands decide nothing; identity and null take the  *)
(* type of the other operand, without a look at the table; no entry (-1) is a *)
(* type error.                                                                *)
ResultType(entry, l, r) ==
    IF Unknown \in {l, r} THEN Unknown
    ELSE IF l = IdentityNull THEN r
    ELSE IF r = IdentityNull THEN l
    ELSE IF Invalid \in {l, r} THEN Wild
    ELSE IF entry = {} THEN Rejected
    ELSE GetType(CHOOSE id \in entry : TRUE)

-----------------------------------------------------------------------------
(* TypeWalk, node by node.                                                    *)

LogicalOps == {"and", "or", "xor"}
ArithmeticOps == {"modulo", "plus", "minus", "divide", "times", "power"}
RelationalOps == {"less", "greater", "at-most", "at-least"}
EqualityOps == {"equal", "not-equal"}

(* visitBinaryOp; the dot product is in none of its cases.                    *)
BinaryOpType(op, l, r) ==
    IF op = "by" THEN Id("integer", 1)
    ELSE IF op \in LogicalOps THEN ResultType(Logical(l, r), l, r)
    ELSE IF op \in ArithmeticOps THEN ResultType(Arithmetic(l, r), l, r)
    ELSE IF op \in RelationalOps THEN ResultType(Relational(l, r), l, r)
    ELSE IF op \in EqualityOps THEN ResultType(Equality(l, r), l, r)
    ELSE Unknown

ConcatenationType(l, r) == ResultType(Concatenation(l, r), l, r)

(* visitIndex: an index picks several elements if it is known to be an        *)
(* interval or a vector of integers; one of unknown type is taken for a       *)
(* scalar.                                                                    *)
PicksSeveral(index) == index \in {IntegerInterval, Id("integer", 1)}

VectorIndexType(array, index) ==
    IF array = String THEN IF PicksSeveral(index) THEN String ELSE Character
    ELSE Id(array.base, IF PicksSeveral(index) THEN 1 ELSE 0)

MatrixIndexType(array, rows, columns) ==
    LET several == {i \in {1, 2} : PicksSeveral(<<rows, columns>>[i])}
    IN  GetType(Id(array.base,
                   IF Unknown \in {rows, columns} THEN 0 ELSE Cardinality(several)))

(* `indices' holds one index or two.  A vector looks at the first only; a     *)
(* matrix with one index loses a dimension if that picks one row.             *)
IndexType(array, indices) ==
    IF array.base \in Bases /\ array.dim = 2
    THEN IF Len(indices) = 2
         THEN MatrixIndexType(array, indices[1], indices[2])
         ELSE Id(array.base, 1)
    ELSE IF array = String \/ (array.base \in Bases /\ array.dim = 1)
         THEN VectorIndexType(array, indices[1])
         ELSE Unknown

(* Mutant: the first element's type is never widened.                         *)
LiteralBase_Slip(elements) == elements[1]

(* visitVectorLiteral: the base is the first known element's type, widened    *)
(* whenever the table promotes it to a later element's; whether the elements  *)
(* fit each other is not asked.  `rows' says that the first element is itself *)
(* a literal: then it is a matrix of the rows' base.                          *)
LiteralBase(elements) ==
    LET base[i \in 0..Len(elements)] ==
            IF i = 0 THEN Unknown
            ELSE LET so == base[i - 1]
                     next == elements[i]
                 IN  IF next = Unknown \/ so = Wild THEN so
                     ELSE IF so \in {Unknown, Invalid} THEN next
                     ELSE IF next = Invalid THEN Wild
                     ELSE IF PromotesTo(so, next) THEN next ELSE so
    IN  base[Len(elements)]

VectorLiteralType(elements, rows) ==
    LET base == LiteralBase(elements)
    IN  IF base \in {Unknown, Invalid} THEN Unknown
        ELSE IF base = Wild \/ base.base = "tuple" THEN Wild
        ELSE IF rows /\ base.dim = 1 THEN MatrixType(Id(base.base, 0), 2)
        ELSE MatrixType(base, IF rows THEN 2 ELSE 1)

(* visitTupleAccess: the field of a known tuple type; the position is not     *)
(* compared with the number of fields.                                        *)
AccessType(tuple, position) ==
    IF tuple.base # "tuple" THEN Unknown
    ELSE IF position \in DOMAIN tuple.fields THEN tuple.fields[position] ELSE Wild

(* Which promotions a declaration or an assignment looks up; a field or an    *)
(* id the tables have no row for is read all the same.                        *)
FieldsAreRead(l, r) ==
    LET read == {l.fields[i] : i \in DOMAIN l.fields}
                \union {r.fields[i] : i \in DOMAIN r.fields}
    IN  IF {Unknown, Invalid} \cap read # {} THEN Wild ELSE l

(* visitVariableDeclaration, for a declared type.  The error for two types    *)
(* that do not fit names both by getType, which has no type for a tuple.      *)
DeclarationType(declared, type) ==
    IF type \in {Unknown, IdentityNull} THEN declared
    ELSE IF type.base = "tuple" /\ declared.base = "tuple"
    THEN IF Len(type.fields) # Len(declared.fields) THEN Rejected
         ELSE FieldsAreRead(declared, type)
    ELSE IF type = Invalid THEN Wild
    ELSE IF PromotesTo(type, declared) \/ type = declared THEN declared
    ELSE IF "tuple" \in {type.base, declared.base} THEN Wild ELSE Rejected

(* visitAssignment with one target: tuples must be of one size, anything else *)
(* passes; the tables are read for the promotion.                             *)
AssignmentType(target, type) ==
    IF Unknown \in {target, type} THEN target
    ELSE IF target.base = "tuple" /\ type.base = "tuple"
    THEN IF Len(target.fields) # Len(type.fields) THEN Rejected
         ELSE FieldsAreRead(target, type)
    ELSE IF type = IdentityNull THEN target
    ELSE IF Invalid \in {target, type} THEN Wild ELSE target

(* visitReturn, of an expression in a subroutine with a return type.          *)
ReturnType(result, type) ==
    IF type = Unknown \/ (type.base = result.base /\ type.dim = result.dim) THEN result
    ELSE IF type = Invalid THEN Wild
    ELSE IF PromotesTo(type, result) THEN result ELSE Rejected
=============================================================================
