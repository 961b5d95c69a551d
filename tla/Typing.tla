-------------------------------- MODULE Typing --------------------------------
(* One expression at a time, typed by TypeWalk and computed by the runtime:   *)
(* every step applies one syntactic form to `node', giving it the evalType    *)
(* StaticTypes assigns and the value RuntimeValues computes, and one variable *)
(* `x' is declared from it, assigned to and read back.  The walk runs over    *)
(* the whole program first; a node is given both here at once because neither *)
(* pass looks at what the other does.                                         *)
(*                                                                            *)
(* A type error the walk reports and an error the runtime stops with both end *)
(* the run, in `fault', which keeps the form and its operands' types.         *)
EXTENDS StaticTypes, RuntimeValues

CONSTANTS
    MaxDim,         \* bounds the sizes of values and the elements of a literal
    Operators,      \* the binary operators tried, by their names in StaticTypes
    Leaves,         \* the constants an expression starts from, see Leaf
    DeclaredTypes   \* the types in the source: [type, target], what the walk
                    \* and the runtime are told by the same words

(* The types that can be written: of scalars, strings, vectors and matrices   *)
(* of given or unknown sizes, of intervals, and of tuples of these.           *)
WrittenSizes == {UnknownSize} \union 0..MaxDim
WrittenFields ==
    {Array(elem, dims) : elem \in BasicElements,
                         dims \in UNION {[1..n -> WrittenSizes] : n \in 0..2}}
    \union {StringOf(n) : n \in WrittenSizes}
    \union {Interval(UnknownSize)}

FieldType(target) ==
    IF target.kind = "interval" THEN IntegerInterval
    ELSE IF target.str THEN String ELSE Id(target.elem, Len(target.dims))

ASSUME MaxDimAssumption == MaxDim \in Nat \ {0}
ASSUME OperatorsAssumption ==
    Operators \subseteq LogicalOps \union ArithmeticOps \union RelationalOps
                       \union EqualityOps \union {"by", "dot"}
ASSUME DeclaredTypesAssumption ==
    \A d \in DeclaredTypes :
        \/ /\ d.target \in WrittenFields
           /\ d.type = FieldType(d.target)
        \/ /\ d.target.fields \in Seq(WrittenFields)
           /\ d.target = TupleValue(d.target.fields)
           /\ d.type = TupleId([i \in DOMAIN d.target.fields |-> FieldType(d.target.fields[i])])

VARIABLES node, x, fault

vars == <<missingReturn, node, x, fault>>

(* An expression: what the walk says of it, what the runtime made of it, and  *)
(* whether it is an array literal, which the walk looks at.  `vague' is the   *)
(* model's: the walk's type is known to be off.  Nothing is built on a vague  *)
(* expression, which bounds the model; with it go operators on null, whose    *)
(* value depends on the declaration or return they stand in.                  *)
Expression(type, value, vague, literal) ==
    [type |-> type, value |-> value, vague |-> vague /\ type # Unknown,
     literal |-> literal]

None == Expression(Unknown, UnknownType, FALSE, FALSE)
NoFault == [why |-> "none", form |-> "none", types |-> << >>, vague |-> FALSE]

Leaf == [boolean |-> Expression(Boolean, Array("boolean", << >>), FALSE, FALSE),
         character |-> Expression(Character, Array("character", << >>), FALSE, FALSE),
         integer |-> Expression(Integer, Array("integer", << >>), FALSE, FALSE),
         real |-> Expression(Real, Array("real", << >>), FALSE, FALSE),
         string |-> Expression(String, StringOf(MaxDim), FALSE, FALSE),
         null |-> Expression(IdentityNull, Array("null", << >>), FALSE, FALSE),
         identity |-> Expression(IdentityNull, Array("identity", << >>), FALSE, FALSE),
         empty |-> Expression(Unknown, EmptyArray, FALSE, TRUE)]

ASSUME LeavesAssumption == Leaves \subseteq DOMAIN Leaf

Constants == {Leaf[name] : name \in Leaves}

(* What can stand beside `node' as another operand: a constant, or, to keep   *)
(* the instances small, x alone once it is declared.                          *)
Operands == IF x = None THEN Constants ELSE {x}

Small(v) == \A i \in DOMAIN v.dims : v.dims[i] <= MaxDim

-----------------------------------------------------------------------------
(* How a step ends.                                                           *)

Stop(why, form, operands) ==
    /\ fault' = [why |-> why, form |-> form,
                 types |-> [i \in DOMAIN operands |-> operands[i].type],
                 vague |-> \E i \in DOMAIN operands : operands[i].vague]
    /\ node' = None
    /\ x' = None

Ends(type, result, form, operands) ==
    IF type = Rejected THEN Stop("rejected", "none", << >>)
    ELSE IF type = Wild THEN Stop("undefined-type", form, operands)
    ELSE ~Ok(result) /\ Stop(result.why, form, operands)

Evaluate(form, type, result, vague, literal, operands) ==
    /\ fault = NoFault
    /\ node # None
    /\ ~node.vague
    /\ \/ Ends(type, result, form, operands)
       \/ /\ IsType(type)
          /\ Ok(result)
          /\ Small(result.value)
          /\ node' = Expression(type, result.value, vague, literal)
          /\ UNCHANGED <<x, fault>>
    /\ UNCHANGED missingReturn

-----------------------------------------------------------------------------
(* Where the walk's type is known to be off.                                  *)

AnyVague(operands) == \E i \in DOMAIN operands : operands[i].vague

(* getType gives a matrix result the vector type; an operation with null has  *)
(* the type of the other operand, whatever the operator.                      *)
BlindSpot(table, l, r) ==
    \/ AnyVague(<<l, r>>)
    \/ \E id \in table : id.dim = 2
    \/ IdentityNull \in {l.type, r.type}

Scalars == {Boolean, Character, Integer, Real, IdentityNull}

(* Only a literal written first makes the walk see a matrix.  It is then off  *)
(* if a row is a scalar, which is not promoted, a string, which makes the     *)
(* whole literal one, a matrix, which becomes one long row, or has a type but *)
(* no element.                                                                *)
BlindLiteral(elements) ==
    LET isRow(e) == /\ e.type.dim = 1 \/ e.type \in {IntegerInterval, Invalid}
                    /\ TotalLength(e.value) # 0
    IN  \/ AnyVague(elements)
        \/ \E i \in DOMAIN elements :
               IF elements[1].literal THEN ~isRow(elements[i])
               ELSE elements[i].type \notin Scalars

(* An index of unknown type, or a vector that is not one of integers, is      *)
(* taken for a scalar; two indices that pick several give a vector type.      *)
BlindIndices(array, indices) ==
    LET several == {i \in DOMAIN indices : PicksSeveral(indices[i])}
    IN  \/ Cardinality(several) = 2
        \/ \E i \in DOMAIN indices \ several : indices[i] \notin Scalars

-----------------------------------------------------------------------------
(* The forms.                                                                 *)

Constant ==
    /\ fault = NoFault
    /\ node = None
    /\ \E e \in Constants \union ({x} \ {None}) : node' = e
    /\ UNCHANGED <<missingReturn, x, fault>>

UnaryOperation ==
    \E op \in {"plus", "minus", "not"} :
        Evaluate("unary", node.type, Unary(op, node.value), node.vague, FALSE, <<node>>)

Table(op, l, r) ==
    IF Unknown \in {l, r} THEN {} ELSE
    CASE op \in LogicalOps -> Logical(l, r)
      [] op \in ArithmeticOps -> Arithmetic(l, r)
      [] op \in RelationalOps -> Relational(l, r)
      [] op \in EqualityOps -> Equality(l, r)
      [] op = "concat" -> Concatenation(l, r)
      [] OTHER -> {}

Pairs == UNION {{<<node, e>>, <<e, node>>} : e \in Operands}
Sizes == 1..MaxDim

BinaryOperation ==
    \E op \in Operators, p \in Pairs, size \in Sizes :
        Evaluate(op, BinaryOpType(op, p[1].type, p[2].type),
                 Binary(op, p[1].value, p[2].value, size),
                 BlindSpot(Table(op, p[1].type, p[2].type), p[1], p[2]),
                 FALSE, p)

RangeOperation ==
    \E p \in Pairs, size \in Sizes :
        Evaluate("range", IntegerInterval, Binary("range", p[1].value, p[2].value, size),
                 FALSE, FALSE, p)

ConcatenationOperation ==
    \E p \in Pairs :
        Evaluate("concat", ConcatenationType(p[1].type, p[2].type),
                 Concat(p[1].value, p[2].value),
                 BlindSpot(Table("concat", p[1].type, p[2].type), p[1], p[2]), FALSE, p)

Indices == {<<e>> : e \in Operands} \union (Operands \X Operands)
Indexings == {<<node, i>> : i \in Indices} \union {<<e, <<node>> >> : e \in Operands}

Indexing ==
    \E a \in Indexings :
        LET types == [i \in DOMAIN a[2] |-> a[2][i].type]
        IN  Evaluate("index", IndexType(a[1].type, types),
                     Indexed(a[1].value, [i \in DOMAIN a[2] |-> a[2][i].value]),
                     AnyVague(<<a[1]>> \o a[2]) \/ BlindIndices(a[1].type, types), FALSE,
                     <<a[1]>> \o a[2])

Literal ==
    \E elements \in {<<node>>} \union Pairs :
        LET types == [i \in DOMAIN elements |-> elements[i].type]
        IN  Evaluate("literal", VectorLiteralType(types, elements[1].literal),
                     VectorLiteral([i \in DOMAIN elements |-> elements[i].value]),
                     BlindLiteral(elements), TRUE, elements)

(* Tuples of scalars.  The fields keep what the walk says of them.            *)
TupleLiteral ==
    \E p \in Pairs :
        /\ \A i \in {1, 2} : IsScalar(p[i].value)
        /\ Evaluate("tuple", TupleId(<<p[1].type, p[2].type>>),
                    Fine(TupleValue(<<p[1].value, p[2].value>>)), AnyVague(p), FALSE, p)

Access ==
    \E position \in 1..3 :
        /\ node # None
        /\ Evaluate("access", AccessType(node.type, position), Field(node.value, position),
                    node.vague, FALSE, <<node>>)

(* as<type>(node): what the walk knows of the operand is forgotten.           *)
CastExpression ==
    \E d \in DeclaredTypes :
        Evaluate("cast", d.type, Convert(Cast, d.target, node.value), FALSE, FALSE, <<node>>)

(* f(node), up to the parameter of f: arguments are not type checked.         *)
Pass ==
    \E d \in DeclaredTypes :
        Evaluate("pass", d.type, Convert(Parameter, d.target, node.value), FALSE, FALSE, <<node>>)

(* return node: the caller goes on with the declared type.                    *)
Return ==
    \E d \in DeclaredTypes :
        Evaluate("return", ReturnType(d.type, node.type),
                 Convert(Declaration, d.target, node.value), FALSE, FALSE, <<node>>)

(* [i in 1..n | node].                                                        *)
Generate ==
    \E n \in 0..MaxDim :
        Evaluate("generator", Unknown, Generated(n, node.value), FALSE, FALSE, <<node>>)

-----------------------------------------------------------------------------
(* The variable.                                                              *)

Store(form, type, result, vague) ==
    /\ fault = NoFault
    /\ node # None
    /\ ~node.vague
    /\ \/ Ends(type, result, form, <<node>>)
       \/ /\ IsType(type)
          /\ Ok(result)
          /\ x' = Expression(type, result.value, vague, FALSE)
          /\ node' = None
          /\ UNCHANGED fault
    /\ UNCHANGED missingReturn

(* var x = node.                                                              *)
DeclareInferred ==
    /\ x = None
    /\ Store("inferred", node.type, Convert(Declaration, UnknownType, node.value), node.vague)

(* type x = node.                                                             *)
Declare ==
    /\ x = None
    /\ \E d \in DeclaredTypes :
           Store("declare", DeclarationType(d.type, node.type),
                 Convert(Declaration, d.target, node.value), FALSE)

(* x = node: the type of x stays what its declaration made it.                *)
Assign ==
    /\ x # None
    /\ Store("assign", AssignmentType(x.type, node.type),
             Convert(Assignment, x.value, node.value), x.vague)

-----------------------------------------------------------------------------

Init ==
    /\ missingReturn \in BOOLEAN
    /\ node = None
    /\ x = None
    /\ fault = NoFault

Next ==
    \/ Constant
    \/ UnaryOperation
    \/ BinaryOperation
    \/ RangeOperation
    \/ ConcatenationOperation
    \/ Indexing
    \/ Literal
    \/ TupleLiteral
    \/ Access
    \/ CastExpression
    \/ Pass
    \/ Return
    \/ Generate
    \/ DeclareInferred
    \/ Declare
    \/ Assign

Spec == Init /\ [][Next]_vars

-----------------------------------------------------------------------------

(* Types and invariants.                                                      *)

(* Every expression has a value of a kind the runtime knows, with the element *)
(* types of a literal in step with its dimensions; x holds no literal that is *)
(* yet to be converted; a fault ends the run.                                 *)
TypeOK ==
    /\ missingReturn \in BOOLEAN
    /\ \A e \in {node, x} \ {None} :
           /\ e.value.kind \in {"array", "empty", "interval", "tuple"}
           /\ IsType(e.type)
           /\ IsArray(e.value) => Small(e.value)
           /\ IsMixed(e.value) => Len(e.value.items) = TotalLength(e.value)
    /\ ~IsMixed(x.value)
    /\ fault # NoFault => node = None /\ x = None

DescribesArray(type, v) ==
    /\ IsArray(v)
    /\ IF v.kind = "empty" THEN type.dim = 1
       ELSE LET concrete == Concrete(v)
            IN  /\ NDim(v) = type.dim
                /\ Ok(concrete) => concrete.value.elem \in {type.base} \union NullOrIdentity

DescribesField(type, v) ==
    CASE type \in {Unknown, Invalid} -> TRUE
      [] type = IdentityNull -> IsScalar(v) /\ v.elem \in NullOrIdentity
      [] type = String -> IsVector(v) /\ v.elem = "character"
      [] type = IntegerInterval -> v.kind = "interval"
      [] OTHER -> DescribesArray(type, v)

Describes(type, v) ==
    IF type.base = "tuple"
    THEN /\ v.kind = "tuple"
         /\ Len(type.fields) = Len(v.fields)
         /\ \A i \in DOMAIN v.fields : DescribesField(type.fields[i], v.fields[i])
    ELSE DescribesField(type, v)

(* The evalType the walk gives an expression, unless it knows none or has run *)
(* into one of its blind spots, is the type of the value the runtime makes:   *)
(* the same kind, dimensions and, once a literal is converted, element type.  *)
(* The tables of TypePromote.cpp and the conversions of the runtime are       *)
(* written apart, in two languages.                                           *)
StaticTypesDescribeValues ==
    \A e \in {node, x} \ {None} : ~e.vague => Describes(e.type, e.value)

TableOperators == LogicalOps \union ArithmeticOps \union RelationalOps
                  \union EqualityOps \union {"concat"}

(* Where a table accepts what the runtime stops at: an array of integers with *)
(* a real number or array, which the runtime will not convert; characters,    *)
(* which it does not compare; arrays of different dimensions.                 *)
TablesAcceptMore(op, l, r, why) ==
    \/ why = "array-of-another-element-type" /\ {l.base, r.base} = Numbers
    \/ why = "no-such-operator" /\ op \in EqualityOps
         /\ {l.base, r.base} \subseteq {"character", "string"}
    \/ why = "array-of-another-dimension" /\ op \in LogicalOps /\ l.dim # r.dim
    \/ why = "concatenation-of-no-vector" /\ Larger(l, r) = 2

(* An operation on scalars and arrays of known types that passes the walk     *)
(* stops the program only for what the walk cannot see, the lengths and the   *)
(* elements of a literal, and in the cases of TablesAcceptMore.               *)
AcceptedOperationsRun ==
    LET ordinary(t) == t.base \in Bases \union {"string"}
    IN  /\ fault.form \in TableOperators
        /\ ~fault.vague
        /\ \A i \in DOMAIN fault.types : ordinary(fault.types[i])
        => \/ fault.why \in {"array-of-another-size", "literal-of-different-types"}
           \/ TablesAcceptMore(fault.form, fault.types[1], fault.types[2], fault.why)

(* What a declaration fixes; of an interval only that it is one.              *)
FieldShape(v) == IF v.kind = "interval" THEN Interval(0) ELSE v
Shape(v) == [FieldShape(v) EXCEPT !.fields = [i \in DOMAIN @ |-> FieldShape(@[i])]]

(* variableAssignment destroys the variable and makes it anew from the value: *)
(* it has the element type, the dimensions and the fields it had before.      *)
KeepsItsType ==
    [][x # None /\ x' # None => Shape(x'.value) = Shape(x.value)]_vars

(* RuntimeVariables.c:702, before the fields of one tuple are counted and     *)
(* those of two are read: "must both be tuple now because we have ruled out   *)
(* possibility of null/identity before".  Nothing there rules it out; what    *)
(* does is the walk, and it does where it knows both types and looks at the   *)
(* operator, which it never does for the dot product.                         *)
TuplesMeetTuples ==
    fault.why = "undefined:not-both-tuples" =>
        \/ fault.form = "dot"
        \/ fault.vague
        \/ \E i \in DOMAIN fault.types : fault.types[i] \in {Unknown, Invalid}
=============================================================================
