---------------------------- MODULE RuntimeValues ----------------------------
(* The values generated code computes with (NDArray.c, NDArrayVariable.c,     *)
(* Literal.c, RuntimeTypes.c, RuntimeVariables.c) and the rules the runtime   *)
(* applies to them: conversion, operators, literals, indexing.                *)
(*                                                                            *)
(* A value is known by what those rules look at: what kind of object it is,   *)
(* the element type, the lengths in each dimension, whether it is a string;   *)
(* for an array literal that no rule has converted yet (a mixed array) the    *)
(* type of every element, and for a tuple its fields.  The elements' values   *)
(* are left out, and with them the errors that depend on them (division by    *)
(* zero, an index out of range, a step that is not positive).  The same       *)
(* record is a type: a conversion looks at no more of its target.             *)
EXTENDS Integers, Sequences, FiniteSetsExt, SequencesExt

(* elementCanBePromotedFrom falls off its end when the element to promote to  *)
(* is null or identity and the other is not the same: what it then answers is *)
(* up to the build, TRUE or FALSE.                                            *)
VARIABLE missingReturn

Record(kind, elem, dims, items, str, fields) ==
    [kind |-> kind, elem |-> elem, dims |-> dims, items |-> items,
     str |-> str, fields |-> fields]

Array(elem, dims) == Record("array", elem, dims, << >>, FALSE, << >>)
StringOf(n) == [Array("character", <<n>>) EXCEPT !.str = TRUE]
Mixed(dims, items) == Record("array", "mixed", dims, items, FALSE, << >>)
EmptyArray == Record("empty", "mixed", << >>, << >>, FALSE, << >>)
Interval(n) == Record("interval", "none", <<n>>, << >>, FALSE, << >>)
TupleValue(fields) == Record("tuple", "none", << >>, << >>, FALSE, fields)
UnknownType == Record("unknown", "none", << >>, << >>, FALSE, << >>)

UnknownSize == -1  \* SIZE_UNKNOWN and, for strings, SIZE_UNSPECIFIED

IsArray(v) == v.kind \in {"array", "empty"}
IsScalar(v) == v.kind = "array" /\ v.dims = << >>
IsVector(v) == v.kind = "array" /\ Len(v.dims) = 1
IsMatrix(v) == v.kind = "array" /\ Len(v.dims) = 2
IsMixed(v) == v.kind = "array" /\ v.elem = "mixed"
NDim(v) == Len(v.dims)  \* of an array with dimensions
TotalLength(v) == IF v.kind = "empty" THEN 0 ELSE FoldLeft(LAMBDA a, b : a * b, 1, v.dims)

(* What an operation ends with: a value, or the reason it stops the program;  *)
(* "undefined" is one the code does not see.                                  *)
Fine(v) == [why |-> "none", value |-> v]
Fail(why) == [why |-> why, value |-> UnknownType]
Ok(r) == r.why = "none"

-----------------------------------------------------------------------------
(* Elements.                                                                  *)

NullOrIdentity == {"null", "identity"}
BasicElements == {"boolean", "character", "integer", "real"}

CanBeCastFrom(to, from) ==
    /\ {to, from} \subseteq BasicElements
    /\ ~(from = "real" /\ to \in {"boolean", "character"})

CanBePromotedFrom(to, from) ==
    IF "mixed" \in {to, from} THEN FALSE
    ELSE IF to = from THEN TRUE
    ELSE IF to \in BasicElements
    THEN from \in NullOrIdentity \/ (from = "integer" /\ to = "real")
    ELSE missingReturn

(* Mutant: only the first element may be promoted to.                         *)
PromotedBetween_Slip(a, b) == IF CanBePromotedFrom(a, b) THEN {a} ELSE {}

(* elementCanBePromotedBetween: the set of the common type, if there is one.  *)
PromotedBetween(a, b) ==
    IF CanBePromotedFrom(a, b) THEN {a}
    ELSE IF CanBePromotedFrom(b, a) THEN {b} ELSE {}

(* elementMallocFromCast, elementMallocFromPromotion: nothing is promoted to  *)
(* null or identity but itself.                                               *)
Converts(isCast, to, from) ==
    IF isCast THEN CanBeCastFrom(to, from)
    ELSE CanBePromotedFrom(to, from) /\ (to = from \/ to \in BasicElements)

(* arrayMallocFromCastPromote goes element by element, each of a mixed array  *)
(* by its own type; an array without elements always converts.                *)
ArrayConverts(isCast, to, v) ==
    IF IsMixed(v) THEN \A i \in DOMAIN v.items : Converts(isCast, to, v.items[i])
    ELSE TotalLength(v) = 0 \/ Converts(isCast, to, v.elem)

(* arrayMixedElementCanBePromotedToSameType: nulls and identities after the   *)
(* first element are passed over.                                             *)
SameType(items) ==
    LET common[i \in 1..Len(items)] ==
            IF i = 1 THEN {items[1]}
            ELSE IF items[i] \in NullOrIdentity THEN common[i - 1]
            ELSE UNION {PromotedBetween(c, items[i]) : c \in common[i - 1]}
        noneButBoth == {items[i] : i \in DOMAIN items} = NullOrIdentity
    IN  IF noneButBoth THEN {} ELSE common[Len(items)]

(* variableInitFromMixedArrayPromoteToSameType.                               *)
MixedToSameType(v) ==
    IF TotalLength(v) = 0 THEN Fail("no-element-to-deduce-a-type-from")
    ELSE LET types == SameType(v.items)
         IN  IF types = {} THEN Fail("literal-of-different-types")
             ELSE LET elem == CHOOSE e \in types : TRUE
                  IN  IF ArrayConverts(FALSE, elem, v)
                      THEN Fine(Array(elem, v.dims))
                      ELSE Fail("literal-of-different-types")

-----------------------------------------------------------------------------
(* Conversion: variableInitFromPCADP and its configurations.                  *)

Config(unknownType, unknownSize, restriction, isCast) ==
    [unknownType |-> unknownType, unknownSize |-> unknownSize,
     restriction |-> restriction, isCast |-> isCast]

SameSize == 0
NotGreater == 1
AnySize == 2

Parameter == Config(TRUE, TRUE, NotGreater, FALSE)
Cast == Config(FALSE, TRUE, AnySize, TRUE)
Assignment == Config(FALSE, FALSE, SameSize, FALSE)
Declaration == Config(TRUE, TRUE, NotGreater, FALSE)
Promotion == Config(TRUE, FALSE, SameSize, FALSE)

HasUnknownSize(t) == \E i \in DOMAIN t.dims : t.dims[i] < 0

(* arrayTypeMinimumCompatibleRestriction.                                     *)
RestrictionNeeded(from, to) ==
    IF from = to THEN SameSize
    ELSE IF \E i \in DOMAIN to : to[i] < from[i] THEN AnySize ELSE NotGreater

(* variableInitFromNull and variableInitFromIdentity, for all but tuples.     *)
FromNullFlat(target) ==
    CASE target.kind = "array" ->
             IF HasUnknownSize(target) THEN Fail("null-into-unknown-size") ELSE Fine(target)
      [] target.kind = "interval" -> Fine(Interval(1))
      [] OTHER -> Fail("null-into-unknown-type")

(* Mutant: the elements stay integers.                                        *)
FromInterval_Slip(config, target, rhs) == Fine(Array("integer", rhs.dims))

FromInterval(config, target, rhs) ==
    LET size == rhs.dims[1]
        length == IF target.dims[1] < 0 THEN size ELSE target.dims[1]
    IN  IF target.kind # "array" THEN Fail("interval-into-another-kind")
        ELSE IF NDim(target) # 1 THEN Fail("interval-into-another-dimension")
        ELSE IF ~config.isCast /\ target.elem \notin {"integer", "real"}
        THEN Fail("interval-into-non-numbers")
        ELSE IF config.restriction < RestrictionNeeded(<<size>>, <<length>>)
        THEN Fail("interval-into-another-size")
        ELSE IF target.elem \notin BasicElements THEN Fail("interval-into-non-numbers")
        ELSE Fine(Array(target.elem, <<length>>))

FromEmpty(config, target) ==
    IF NDim(target) # 1 THEN Fail("empty-array-into-another-dimension")
    ELSE IF target.dims[1] > 0 /\ config.restriction = SameSize
    THEN Fail("empty-array-into-another-size")
    ELSE Fine([target EXCEPT !.dims = <<Max({target.dims[1], 0})>>])

FromArray(config, target, rhs) ==
    LET dims == [i \in DOMAIN target.dims |->
                   IF target.dims[i] < 0 /\ i \in DOMAIN rhs.dims
                   THEN rhs.dims[i] ELSE target.dims[i]]
    IN  IF /\ ~config.isCast
           /\ NDim(rhs) # 0
           /\ rhs.elem \notin {target.elem, "mixed"}
        THEN Fail("array-of-another-element-type")
        ELSE IF NDim(target) < NDim(rhs) \/ (NDim(target) = 2 /\ NDim(rhs) = 1)
        THEN Fail("array-of-another-dimension")
        ELSE IF ~ArrayConverts(config.isCast, target.elem, rhs)
        THEN Fail("element-of-another-type")
        ELSE IF NDim(rhs) = 0
        THEN IF HasUnknownSize(target) THEN Fail("scalar-into-unknown-size")
             ELSE Fine(target)
        ELSE IF config.restriction < RestrictionNeeded(rhs.dims, dims)
        THEN Fail("array-of-another-size")
        ELSE IF target.elem \notin BasicElements THEN Fail("resize-of-non-basic-elements")
        ELSE Fine([target EXCEPT !.dims = dims])

(* Everything but tuple to tuple.  The right-hand side is a variable, whose   *)
(* sizes are known, and no stream.                                            *)
ConvertFlat(config, target, rhs) ==
    IF IsMixed(target) \/ target.kind = "empty" THEN Fail("invalid-target")
    ELSE IF IsArray(target) /\ ~config.unknownSize /\ HasUnknownSize(target)
    THEN Fail("unknown-size")
    ELSE IF IsScalar(rhs) /\ rhs.elem \in NullOrIdentity THEN FromNullFlat(target)
    ELSE IF target.kind = "interval"
    THEN IF rhs.kind = "interval" THEN Fine(rhs) ELSE Fail("no-interval")
    ELSE IF target.kind = "unknown"
    THEN IF ~config.unknownType \/ rhs.elem \in NullOrIdentity THEN Fail("unknown-type")
         ELSE IF IsArray(rhs) /\ rhs.elem = "mixed" THEN MixedToSameType(rhs)
         ELSE Fine(rhs)
    ELSE IF rhs.kind = "interval" THEN FromInterval(config, target, rhs)
    ELSE IF "tuple" \in {rhs.kind, target.kind} THEN Fail("no-tuple")
    ELSE IF rhs.kind = "empty" THEN FromEmpty(config, target)
    ELSE FromArray(config, target, rhs)

(* The fields of a tuple are converted one by one; the first that fails stops *)
(* the program.                                                               *)
Fieldwise(fields) ==
    LET bad == {i \in DOMAIN fields : ~Ok(fields[i])}
    IN  IF bad = {} THEN Fine(TupleValue([i \in DOMAIN fields |-> fields[i].value]))
        ELSE fields[Min(bad)]

Convert(config, target, rhs) ==
    IF target.kind = "tuple" /\ rhs.kind = "tuple"
    THEN IF Len(target.fields) # Len(rhs.fields) THEN Fail("tuple-of-another-size")
         ELSE Fieldwise([i \in DOMAIN target.fields |->
                           ConvertFlat(config, target.fields[i], rhs.fields[i])])
    ELSE IF target.kind = "tuple" /\ IsScalar(rhs) /\ rhs.elem \in NullOrIdentity
    THEN Fieldwise([i \in DOMAIN target.fields |-> FromNullFlat(target.fields[i])])
    ELSE ConvertFlat(config, target, rhs)

-----------------------------------------------------------------------------
(* Operators.                                                                 *)

Unary(op, v) ==
    IF v.kind = "interval"
    THEN IF op = "not" THEN Fail("no-such-unary-operator") ELSE Fine(v)
    ELSE IF IF op = "not" THEN v.elem = "boolean" ELSE v.elem \in {"integer", "real"}
    THEN Fine(v)
    ELSE Fail("no-such-unary-operator")

Comparisons == {"equal", "not-equal"}
Orders == {"less", "greater", "at-most", "at-least"}
Arithmetics == {"modulo", "plus", "minus", "divide", "times", "power"}

(* computeSameTypeSameSizeArrayArrayBinop, with arrayBinopResultType: what an *)
(* operator makes of two arrays of one element type and size.                 *)
SameTypeSameSize(op, elem, dims) ==
    CASE op \in Comparisons /\ elem \in {"boolean", "integer", "real"} ->
             Fine(Array("boolean", << >>))
      [] op \in {"and", "or", "xor"} /\ elem = "boolean" -> Fine(Array(elem, dims))
      [] op \in Orders /\ elem \in {"integer", "real"} -> Fine(Array("boolean", dims))
      [] op \in Arithmetics /\ elem \in {"integer", "real"} -> Fine(Array(elem, dims))
      [] op = "dot" /\ elem \in {"integer", "real"} -> Fine(Array(elem, << >>))
      [] OTHER -> Fail("no-such-operator")

(* binopPromoteComputationAndDispose: both operands are promoted first.       *)
Promoted(p, q, target, result) ==
    LET left == ConvertFlat(Promotion, target, p)
        right == ConvertFlat(Promotion, target, q)
    IN  IF ~Ok(left) THEN left ELSE IF ~Ok(right) THEN right ELSE result

(* computeIvlIvlBinop: the length of a product is up to the end points.       *)
IntervalBinary(op, p, q, size) ==
    CASE op \in Comparisons -> Fine(Array("boolean", << >>))
      [] op \in {"plus", "minus"} -> Fine(Interval(p.dims[1] + q.dims[1] - 1))
      [] op = "times" -> Fine(Interval(size))
      [] OTHER -> Fail("no-such-interval-operator")

(* An interval with anything but a vector: the other becomes an interval.     *)
WithInterval(op, p, q, size) ==
    LET left == ConvertFlat(Promotion, Interval(1), p)
        right == ConvertFlat(Promotion, Interval(1), q)
    IN  IF ~Ok(left) THEN left ELSE IF ~Ok(right) THEN right
        ELSE IntervalBinary(op, left.value, right.value, size)

(* An interval with a vector, or two arrays: both become the type of the      *)
(* vector, or of the operand with more dimensions, with an element type both  *)
(* elements can be promoted to.                                               *)
WithCommonElement(op, p, q, target, elem1, elem2) ==
    LET elems == PromotedBetween(elem1, elem2)
        elem == CHOOSE e \in elems : TRUE
    IN  IF elems = {} THEN Fail("no-common-element-type")
        ELSE Promoted(p, q, [target EXCEPT !.elem = elem],
                      SameTypeSameSize(op, elem, target.dims))

MatrixProduct(p, q) ==
    LET elems == PromotedBetween(p.elem, q.elem)
        elem == CHOOSE e \in elems : TRUE
        left == ConvertFlat(Promotion, [p EXCEPT !.elem = elem], p)
        right == ConvertFlat(Promotion, [q EXCEPT !.elem = elem], q)
    IN  IF ~(IsMatrix(p) /\ IsMatrix(q)) THEN Fail("product-with-no-matrix")
        ELSE IF elems = {} THEN Fail("no-common-element-type")
        ELSE IF p.dims[2] # q.dims[1] THEN Fail("product-of-other-sizes")
        ELSE IF ~Ok(left) THEN left ELSE IF ~Ok(right) THEN right
        ELSE IF elem \notin {"integer", "real"} THEN Fail("product-of-non-numbers")
        ELSE Fine(Array(elem, <<p.dims[1], q.dims[2]>>))

(* variableInitFromBinaryOpWithSpecTypes for arrays and intervals.  `size' is *)
(* a length the end points of intervals decide.                               *)
SpecTypes(op, p, q, size) ==
    LET intervals == "interval" \in {p.kind, q.kind}
        larger == IF NDim(p) > NDim(q) THEN p ELSE q
        vector == IF IsArray(p) THEN p ELSE q
        integers == <<ConvertFlat(Cast, Array("integer", << >>), p),
                      ConvertFlat(Cast, Array("integer", << >>), q)>>
        steps == <<ConvertFlat(Promotion, Interval(1), p),
                   ConvertFlat(Promotion, Array("integer", << >>), q)>>
    IN  IF "empty" \in {p.kind, q.kind} THEN Fail("empty-array-operand") ELSE
        CASE op = "range" ->
                 IF ~Ok(integers[1]) THEN integers[1]
                 ELSE IF ~Ok(integers[2]) THEN integers[2] ELSE Fine(Interval(size))
          [] op = "by" ->
                 IF ~Ok(steps[1]) THEN steps[1]
                 ELSE IF ~Ok(steps[2]) THEN steps[2]
                 ELSE Fine(Array("integer", <<Min({size, steps[1].value.dims[1]})>>))
          [] OTHER ->
                 IF intervals /\ ~(IsVector(p) \/ IsVector(q))
                 THEN WithInterval(op, p, q, size)
                 ELSE IF intervals
                 THEN WithCommonElement(op, p, q, vector, "integer", vector.elem)
                 ELSE IF op = "dot" /\ 2 \in {NDim(p), NDim(q)}
                 THEN MatrixProduct(p, q)
                 ELSE WithCommonElement(op, p, q, larger, p.elem, q.elem)

(* variableConvertLiteralAndRefToConcreteArray.                               *)
Concrete(v) == IF IsMixed(v) THEN MixedToSameType(v) ELSE Fine(v)

(* variableInitFromBinaryOp gets its operands ready: literals are converted,  *)
(* then an operand that was null or identity is promoted to the other's type. *)
(* `operate' gets the pair.                                                   *)
Prepared(a, b, operate(_, _)) ==
    LET left == Concrete(a)
        right == Concrete(b)
        p == IF a.elem \in NullOrIdentity
             THEN Convert(Promotion, right.value, left.value) ELSE left
        q == IF b.elem \in NullOrIdentity
             THEN Convert(Promotion, p.value, right.value) ELSE right
    IN  IF ~Ok(left) THEN left ELSE IF ~Ok(right) THEN right
        ELSE IF ~Ok(p) THEN p ELSE IF ~Ok(q) THEN q
        ELSE operate(p.value, q.value)

(* Tuples are compared field by field, over the first operand's fields: the   *)
(* other operand is taken to be a tuple with as many.  The operator is asked  *)
(* only whether it is "not-equal".                                            *)
TupleBinary(p, q) ==
    IF {p.kind, q.kind} # {"tuple"} THEN Fail("undefined:not-both-tuples")
    ELSE LET equal == [i \in 1..Min({Len(p.fields), Len(q.fields)}) |->
                         Prepared(p.fields[i], q.fields[i],
                                  LAMBDA f, g : SpecTypes("equal", f, g, 1))]
             fields == Fieldwise(equal)
         IN  IF ~Ok(fields) THEN fields
             ELSE IF Len(p.fields) > Len(q.fields) THEN Fail("undefined:no-such-field")
             ELSE Fine(Array("boolean", << >>))

(* What the operator's case does with a tuple: an interval stops the other    *)
(* operand first, and so does an empty array; `..' and `by' convert first.    *)
Binary(op, a, b, size) ==
    Prepared(a, b,
        LAMBDA p, q :
            IF "tuple" \in {p.kind, q.kind} /\ op \notin {"range", "by"}
               /\ {p.kind, q.kind} \cap {"interval", "empty"} = {}
            THEN TupleBinary(p, q) ELSE SpecTypes(op, p, q, size))

(* variableInitFromConcat.  The second operand is not asked whether it is an  *)
(* array, the first is asked twice.                                           *)
Concatenated(p, q) ==
    LET alone(v) == IF IsScalar(v) THEN Fine(Array(v.elem, <<1>>)) ELSE Fine(v)
        elems == PromotedBetween(p.elem, q.elem)
        elem == CHOOSE e \in elems : TRUE
        promoted(v) == v.elem = elem \/ ArrayConverts(FALSE, elem, v)
    IN  IF ~IsArray(p) \/ IsMatrix(p) \/ IsMatrix(q) THEN Fail("concatenation-of-no-vector")
        ELSE IF p.kind = "empty" THEN alone(q)
        ELSE IF q.kind = "empty" THEN alone(p)
        ELSE IF ~IsArray(q) THEN Fail("undefined:not-both-arrays")
        ELSE IF IsScalar(p) /\ IsScalar(q) THEN Fail("concatenation-of-scalars")
        ELSE IF elems = {} THEN Fail("no-common-element-type")
        ELSE IF ~(promoted(p) /\ promoted(q)) THEN Fail("element-of-another-type")
        ELSE IF elem \notin BasicElements THEN Fail("no-such-operator")
        ELSE Fine([Array(elem, <<TotalLength(p) + TotalLength(q)>>)
                     EXCEPT !.str = p.str \/ q.str])

Concat(a, b) ==
    LET p == Concrete(a)
        q == Concrete(b)
    IN  IF ~Ok(p) THEN p ELSE IF ~Ok(q) THEN q ELSE Concatenated(p.value, q.value)

-----------------------------------------------------------------------------
(* Literals, generators, indexing, fields.                                    *)

ElementsOf(v) == IF IsMixed(v) THEN v.items
                 ELSE [i \in 1..TotalLength(v) |-> v.elem]

(* Mutant: the rows are not filled up.                                        *)
MatrixLiteral_Slip(elements) ==
    LET length(v) == IF v.kind = "interval" THEN v.dims[1] ELSE TotalLength(v)
        longest == Max({length(elements[i]) : i \in DOMAIN elements})
    IN  Fine(Mixed(<<Len(elements), longest>>,
                   FlattenSeq([i \in DOMAIN elements |-> ElementsOf(elements[i])])))

(* The rows of a matrix literal are as long as the longest; a scalar fills    *)
(* its row, the others are filled up with null.                               *)
MatrixLiteral(elements) ==
    LET length(v) == IF v.kind = "interval" THEN v.dims[1]
                     ELSE IF IsScalar(v) THEN 0 ELSE TotalLength(v)
        longest == Max({length(elements[i]) : i \in DOMAIN elements})
        row(v) == IF IsScalar(v) THEN [j \in 1..longest |-> v.elem]
                  ELSE LET own == IF v.kind = "interval"
                                  THEN [j \in 1..v.dims[1] |-> "integer"]
                                  ELSE ElementsOf(v)
                       IN  own \o [j \in 1..(longest - Len(own)) |-> "null"]
    IN  IF \E i \in DOMAIN elements : elements[i].kind = "tuple"
        THEN Fail("tuple-in-a-literal")
        ELSE Fine(Mixed(<<Len(elements), longest>>,
                        FlattenSeq([i \in DOMAIN elements |-> row(elements[i])])))

(* variableInitFromVectorLiteral.  A row makes it a matrix; what comes before *)
(* the first row must be a scalar.                                            *)
VectorLiteral(elements) ==
    LET isRow(v) == v.kind \in {"empty", "interval"} \/ IsVector(v)
        rows == {i \in DOMAIN elements : isRow(elements[i])}
        before == IF rows = {} THEN DOMAIN elements ELSE 1..(Min(rows) - 1)
    IN  IF elements = << >> THEN Fine(EmptyArray)
        ELSE IF \E i \in before : ~IsScalar(elements[i])
        THEN Fail("literal-of-matrices-or-tuples")
        ELSE IF rows # {} THEN MatrixLiteral(elements)
        ELSE Fine(Mixed(<<Len(elements)>>,
                        [i \in DOMAIN elements |-> elements[i].elem]))

(* variableInitFromGeneratorArray, of `n' elements that are all like `v'.     *)
Generated(n, v) ==
    IF n = 0 THEN Fine(EmptyArray)
    ELSE IF ~(IsScalar(v) \/ IsVector(v) \/ v.kind = "interval")
    THEN Fail("generator-of-matrices-or-tuples")
    ELSE LET literal == VectorLiteral([i \in 1..n |-> v])
         IN  IF Ok(literal) THEN MixedToSameType(literal.value) ELSE literal

(* An index becomes an integer, or a vector of integers if it has a dimension.*)
IndexValue(index) ==
    Convert(Cast, Array("integer", IF index.kind \in {"empty", "interval"} \/ IsVector(index)
                                   THEN <<UnknownSize>> ELSE << >>), index)

(* variableInitFromArrayIndexingHelper, as a value.                           *)
Indexed(base, indices) ==
    LET array == IF IsMixed(base) THEN MixedToSameType(base)
                 ELSE IF base.kind = "interval" THEN Fine(Array("integer", base.dims))
                 ELSE Fine(base)
        values == [i \in DOMAIN indices |-> IndexValue(indices[i])]
        bad == {i \in DOMAIN indices : ~Ok(values[i])}
        dims == FlattenSeq([i \in DOMAIN indices |-> values[i].value.dims])
        noElement(v) == v.kind = "empty" \/ (IsVector(v) /\ v.elem = "integer" /\ v.dims = <<0>>)
    IN  IF base.kind = "empty"
        THEN IF \A i \in DOMAIN indices : noElement(indices[i])
             THEN Fine(EmptyArray) ELSE Fail("index-of-an-empty-array")
        ELSE IF base.kind = "tuple" \/ NDim(base) # Len(indices)
        THEN Fail("index-of-another-dimension")
        ELSE IF \E i \in DOMAIN indices : indices[i].kind = "tuple" \/ IsMatrix(indices[i])
        THEN Fail("index-by-a-matrix-or-a-tuple")
        ELSE IF ~Ok(array) THEN array
        ELSE IF bad # {} THEN values[Min(bad)]
        ELSE Fine([Array(array.value.elem, dims) EXCEPT
                     !.str = array.value.str /\ Len(indices) = 1 /\ Len(dims) = 1])

(* variableGetTupleField, which takes its operand to be a tuple.              *)
Field(v, position) ==
    IF v.kind # "tuple" THEN Fail("undefined:no-tuple")
    ELSE IF position \in DOMAIN v.fields THEN Fine(v.fields[position])
    ELSE Fail("no-such-field")
=============================================================================
