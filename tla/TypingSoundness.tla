--------------------------- MODULE TypingSoundness ---------------------------
(***************************************************************************)
(* The types the walk gives describe the values the runtime makes, and the *)
(* runtime computes what the walk accepts: for every length a program      *)
(* gives its arrays and every set of constants, operators and declared     *)
(* types.                                                                  *)
(***************************************************************************)
EXTENDS TypingProofs

(***************************************************************************)
(* What the walk's type says of a value.                                   *)
(***************************************************************************)

\* elementMallocFromPromotion, of the elements there are.
Promotes(e, item) ==
  \/ e = item
  \/ e \in BasicElements /\ (item \in NullOrIdentity \/ (item = "integer" /\ e = "real"))

\* A literal of these items becomes an array of b, if it becomes one at all.
Becomes(items, b) ==
  \A i \in 1 .. Len(items) :
    (\A j \in 1 .. Len(items) : Promotes(items[i], items[j])) => items[i] = b

IsArrayType(t) == t.base \in Bases /\ t.dim \in 0 .. 2 /\ t = Id(t.base, t.dim)

\* The element type is the base; for a literal to be converted it will be, and
\* of a vector literal one of the items is of that type already.
ArrayDescribed(t, v) ==
  /\ IsArrayType(t)
  /\ v.kind = "array" /\ Len(v.dims) = t.dim
  /\ v.elem # "mixed" => v.elem = t.base
  /\ v.elem = "mixed" => /\ Becomes(v.items, t.base) /\ Len(v.items) # 0
                         /\ t.dim = 1 => \E i \in 1 .. Len(v.items) : v.items[i] = t.base

\* A literal of nulls and identities has an invalid type.
FieldDescribed(t, v) ==
  \/ t = Unknown
  \/ /\ t = Invalid /\ v.kind # "empty"
     /\ IsMixed(v) /\ IsVector(v) => \A i \in 1 .. Len(v.items) : v.items[i] \in NullOrIdentity
  \/ t = IdentityNull /\ IsScalar(v) /\ v.elem \in NullOrIdentity
  \/ t = String /\ IsVector(v) /\ v.elem = "character"
  \/ t = IntegerInterval /\ v.kind = "interval"
  \/ ArrayDescribed(t, v)

TupleDescribed(t, v) ==
  /\ t = TupleId(t.fields) /\ v.kind = "tuple" /\ Len(t.fields) = Len(v.fields)
  /\ \A i \in 1 .. Len(v.fields) : i \in DOMAIN t.fields /\ FieldDescribed(t.fields[i], v.fields[i])

Described(t, v) == FieldDescribed(t, v) \/ TupleDescribed(t, v)

LEMMA IdFields ==
  ASSUME NEW b, NEW d
  PROVE  Id(b, d).base = b /\ Id(b, d).dim = d
BY DEF Id

LEMMA TupleIdFields ==
  ASSUME NEW f
  PROVE  TupleId(f).base = "tuple" /\ TupleId(f).dim = 0 /\ TupleId(f).fields = f
BY DEF TupleId

LEMMA TypeBases ==
  /\ Unknown.base = "unknown" /\ Invalid.base = "invalid" /\ Wild.base = "wild"
  /\ Rejected.base = "rejected" /\ IdentityNull.base = "identitynull"
  /\ String.base = "string" /\ IntegerInterval.base = "integer-interval"
  /\ Boolean.base = "boolean" /\ Character.base = "character"
  /\ Integer.base = "integer" /\ Real.base = "real"
  /\ \A t \in {Unknown, Invalid, Wild, Rejected, IdentityNull, String, IntegerInterval,
               Boolean, Character, Integer, Real} : t = Id(t.base, 0) /\ t.dim = 0
BY DEF Unknown, Invalid, Wild, Rejected, IdentityNull, String, IntegerInterval, Boolean,
       Character, Integer, Real, Id

LEMMA PromotesIsConverts ==
  ASSUME NEW e \in Elements, NEW item \in Elements
  PROVE  Converts(FALSE, e, item) <=> Promotes(e, item)
BY DEF Converts, Promotes, CanBePromotedFrom, Elements, BasicElements, NullOrIdentity

\* The base of a type tells what it says.
LEMMA DescribedByBase ==
  ASSUME NEW t, NEW v, Described(t, v)
  PROVE  /\ t.base \in Bases \cup {"unknown", "invalid", "identitynull", "string",
                                  "integer-interval", "tuple"}
         /\ t.base = "unknown" => t = Unknown
         /\ t.base = "invalid" =>
              /\ t = Invalid /\ v.kind # "empty"
              /\ IsMixed(v) /\ IsVector(v) =>
                   \A i \in 1 .. Len(v.items) : v.items[i] \in NullOrIdentity
         /\ t.base = "identitynull" =>
              t = IdentityNull /\ IsScalar(v) /\ v.elem \in NullOrIdentity
         /\ t.base = "string" => t = String /\ IsVector(v) /\ v.elem = "character"
         /\ t.base = "integer-interval" => t = IntegerInterval /\ v.kind = "interval"
         /\ t.base = "tuple" => TupleDescribed(t, v)
         /\ t.base \in Bases => ArrayDescribed(t, v)
<1>1. CASE TupleDescribed(t, v)
  <2>1. t.base = "tuple"
    BY <1>1, TupleIdFields DEF TupleDescribed
  <2> QED  BY <1>1, <2>1 DEF Bases, Numbers
<1>2. CASE ArrayDescribed(t, v)
  <2>1. t.base \in Bases
    BY <1>2 DEF ArrayDescribed, IsArrayType
  <2> QED  BY <1>2, <2>1 DEF Bases, Numbers
<1>3. CASE FieldDescribed(t, v) /\ ~ArrayDescribed(t, v)
  <2>1. \/ t = Unknown
        \/ /\ t = Invalid /\ v.kind # "empty"
           /\ IsMixed(v) /\ IsVector(v) =>
                \A i \in 1 .. Len(v.items) : v.items[i] \in NullOrIdentity
        \/ t = IdentityNull /\ IsScalar(v) /\ v.elem \in NullOrIdentity
        \/ t = String /\ IsVector(v) /\ v.elem = "character"
        \/ t = IntegerInterval /\ v.kind = "interval"
    BY <1>3 DEF FieldDescribed
  <2> QED  BY <2>1, TypeBases DEF Bases, Numbers
<1> QED  BY <1>1, <1>2, <1>3 DEF Described

\* What the types of an operation's operands exclude.
LEMMA DescribedKinds ==
  ASSUME NEW t, NEW v, Described(t, v), Value(v)
  PROVE  /\ v = EmptyArray => t = Unknown
         /\ t \notin {Unknown, Invalid, IdentityNull} => v.elem \notin NullOrIdentity
         /\ t.base \in Bases => v.kind = "array" /\ v.elem \in {"mixed", t.base}
         /\ t \notin {Unknown, Invalid} => (v.kind = "tuple" <=> t.base = "tuple")
<1>1. v = EmptyArray => t = Unknown
  BY EmptyFields, DescribedByBase DEF IsScalar, IsVector, ArrayDescribed, TupleDescribed
<1>2. t.base \in Bases => v.kind = "array" /\ v.elem \in {"mixed", t.base}
  BY DescribedByBase DEF ArrayDescribed
<1>3. v.kind = "interval" \/ v.kind = "tuple" => v.elem = "none"
  BY ValueFields, IntervalFields, TupleFields
<1>4. t.base = "tuple" => v.kind = "tuple"
  BY DescribedByBase DEF TupleDescribed
<1>5. t \notin {Unknown, Invalid, IdentityNull} => v.elem \notin NullOrIdentity
  BY <1>2, <1>3, <1>4, DescribedByBase DEF NullOrIdentity, Bases, Numbers
<1>6. t \notin {Unknown, Invalid} => (v.kind = "tuple" <=> t.base = "tuple")
  BY <1>2, <1>4, DescribedByBase DEF IsScalar, IsVector
<1> QED  BY <1>1, <1>2, <1>5, <1>6

(***************************************************************************)
(* Literals become what their type says.                                   *)
(***************************************************************************)
LEMMA ConcreteIsDescribed ==
  ASSUME NEW t, NEW v, Value(v), Described(t, v), Ok(Concrete(v))
  PROVE  LET w == Concrete(v).value IN
         Described(t, w) /\ Value(w) /\ ~IsMixed(w) /\ w.kind = v.kind /\ w.dims = v.dims
<1>1. CASE ~IsMixed(v)
  BY <1>1 DEF Concrete, Fine
<1>2. CASE IsMixed(v)
  <2> DEFINE r == MixedToSameType(v)
  <2>1. LiteralArray(v)
    BY <1>2, ValueFields, FlatArrayFields DEF IsMixed
  <2>2. Concrete(v) = r
    BY <1>2 DEF Concrete
  <2>3. /\ FlatArray(r.value) /\ r.value.dims = v.dims
    BY <2>1, <2>2, LiteralToArray
  <2>4. /\ \E i \in 1 .. Len(v.items) : r.value.elem = v.items[i]
        /\ \A i \in 1 .. Len(v.items) : Converts(FALSE, r.value.elem, v.items[i])
    BY <2>1, <2>2, ConvertedLiteral
  <2> HIDE DEF r
  <2>5. /\ r.value.kind = "array" /\ v.kind = "array" /\ ~IsMixed(r.value) /\ Value(r.value)
        /\ r.value.elem \in Elements /\ r.value.elem # "mixed"
    BY <1>2, <2>3, FlatArrayFields DEF IsMixed, Value, Settled, FlatValue
  <2>6. \A i \in 1 .. Len(v.items) : v.items[i] \in Elements
    BY <2>1 DEF LiteralArray
  <2>7. \A i \in 1 .. Len(v.items) : Promotes(r.value.elem, v.items[i])
    BY <2>4, <2>5, <2>6, PromotesIsConverts
  <2>8. ArrayDescribed(t, v) => ArrayDescribed(t, r.value)
    <3> SUFFICES ASSUME ArrayDescribed(t, v) PROVE ArrayDescribed(t, r.value)
      OBVIOUS
    <3>1. Becomes(v.items, t.base)
      BY <1>2 DEF ArrayDescribed, IsMixed
    <3>2. r.value.elem = t.base
      BY <2>4, <2>7, <3>1 DEF Becomes
    <3> QED  BY <2>3, <2>5, <3>2 DEF ArrayDescribed
  <2>9. t = Invalid => FieldDescribed(t, r.value)
    BY <2>5 DEF FieldDescribed
  <2>10. v.kind = "array" /\ v.elem = "mixed"
    BY <1>2 DEF IsMixed
  <2>11. \/ t = Unknown \/ t = Invalid \/ ArrayDescribed(t, v)
    BY <2>10 DEF Described, FieldDescribed, TupleDescribed, NullOrIdentity
  <2>12. Described(t, r.value)
    BY <2>8, <2>9, <2>11 DEF Described, FieldDescribed
  <2> QED  BY <2>2, <2>3, <2>5, <2>12
<1> QED  BY <1>1, <1>2

(***************************************************************************)
(* Conversions to declared types.                                          *)
(***************************************************************************)
LEMMA WrittenFieldKinds ==
  ASSUME NEW t \in WrittenFields
  PROVE  \/ t.kind = "interval"
         \/ ArrayOver(t, Nat \cup {UnknownSize}) /\ t.elem \in BasicElements
<1>0. FlatTarget(t)
  BY WrittenFieldIsTarget
<1>1. CASE \E elem \in BasicElements, dims \in UNION {[1 .. n -> WrittenSizes] : n \in 0 .. 2} :
             t = Array(elem, dims)
  <2>1. t.elem \in BasicElements /\ t.kind = "array"
    BY <1>1 DEF Array, Record
  <2>2. \A n : Interval(n).kind = "interval"
    BY PlainInterval
  <2> QED  BY <1>0, <2>1, <2>2 DEF FlatTarget
<1>2. CASE \E n \in WrittenSizes : t = StringOf(n)
  <2>1. PICK n \in WrittenSizes : t = StringOf(n)
    BY <1>2
  <2>2. \A b : LET s == [Array("character", <<n>>) EXCEPT !.str = b] IN
               s.elem = "character" /\ s.kind = "array"
    BY DEF Array, Record
  <2>3. t.elem = "character" /\ t.kind = "array"
    BY Zenon, <2>1, <2>2 DEF StringOf
  <2>4. \A m : Interval(m).kind = "interval"
    BY PlainInterval
  <2> QED  BY <1>0, <2>3, <2>4 DEF FlatTarget, BasicElements
<1>3. CASE t = Interval(UnknownSize)
  BY <1>3, PlainInterval
<1> QED  BY <1>1, <1>2, <1>3 DEF WrittenFields

\* A plain array is described by its own type, a string by String.
LEMMA PlainIsDescribed ==
  ASSUME NEW v, FlatArray(v), v.elem \in BasicElements
  PROVE  /\ FieldDescribed(Id(v.elem, Len(v.dims)), v)
         /\ v.elem = "character" /\ Len(v.dims) = 1 => FieldDescribed(String, v)
<1>1. v.kind = "array" /\ v.elem # "mixed" /\ Len(v.dims) \in 0 .. 2
  BY FlatArrayFields
<1>2. Id(v.elem, Len(v.dims)).base = v.elem /\ Id(v.elem, Len(v.dims)).dim = Len(v.dims)
  BY IdFields
<1>3. v.elem \in Bases
  BY DEF Bases, Numbers, BasicElements
<1>4. IsArrayType(Id(v.elem, Len(v.dims)))
  BY Zenon, <1>1, <1>2, <1>3 DEF IsArrayType
<1>5. ArrayDescribed(Id(v.elem, Len(v.dims)), v)
  BY <1>1, <1>2, <1>4 DEF ArrayDescribed
<1> QED  BY <1>1, <1>5 DEF FieldDescribed, IsVector

LEMMA FittingIsDescribed ==
  ASSUME NEW t, ArrayOver(t, Nat \cup {UnknownSize}), t.elem \in BasicElements,
         NEW rhs, NEW w, Fits(w, t, rhs)
  PROVE  FieldDescribed(FieldType(t), w)
<1>1. t.kind = "array" /\ (t.str => t.elem = "character" /\ Len(t.dims) = 1)
  BY DEF ArrayOver
<1>2. FlatArray(w) /\ w.elem = t.elem /\ Len(w.dims) = Len(t.dims)
  BY DEF Fits
<1>3. /\ FieldDescribed(Id(t.elem, Len(t.dims)), w)
      /\ t.elem = "character" /\ Len(t.dims) = 1 => FieldDescribed(String, w)
  BY <1>2, PlainIsDescribed
<1> QED  BY <1>1, <1>3 DEF FieldType

LEMMA FieldConversionIsDescribed ==
  ASSUME NEW t \in WrittenFields, NEW rhs, Value(rhs), NEW config,
         Ok(ConvertFlat(config, t, rhs))
  PROVE  FieldDescribed(FieldType(t), ConvertFlat(config, t, rhs).value)
<1> DEFINE w == ConvertFlat(config, t, rhs).value
<1>1. CASE t.kind = "interval"
  <2>1. w.kind = "interval"
    BY <1>1, ToInterval, IntervalFields
  <2> QED  BY <1>1, <2>1 DEF FieldType, FieldDescribed
<1>2. CASE t.kind # "interval"
  <2>1. ArrayOver(t, Nat \cup {UnknownSize}) /\ t.elem \in BasicElements
    BY <1>2, WrittenFieldKinds
  <2>2. Fits(w, t, rhs)
    BY <2>1, ToArray
  <2> QED  BY <2>1, <2>2, FittingIsDescribed
<1> QED  BY <1>1, <1>2

LEMMA NullFieldIsDescribed ==
  ASSUME NEW t \in WrittenFields, Ok(FromNullFlat(t))
  PROVE  FieldDescribed(FieldType(t), FromNullFlat(t).value)
<1>1. CASE t.kind = "interval"
  <2>1. FromNullFlat(t) = Fine(Interval(1))
    BY <1>1 DEF FromNullFlat
  <2>2. FromNullFlat(t).value.kind = "interval"
    BY <2>1, PlainInterval DEF Fine
  <2> QED  BY <1>1, <2>2 DEF FieldType, FieldDescribed
<1>2. CASE t.kind # "interval"
  <2>1. ArrayOver(t, Nat \cup {UnknownSize}) /\ t.elem \in BasicElements
    BY <1>2, WrittenFieldKinds
  <2>2. FromNullFlat(t).value = t /\ Fits(t, t, t)
    BY <2>1, NullFits
  <2> QED  BY <2>1, <2>2, FittingIsDescribed
<1> QED  BY <1>1, <1>2

LEMMA DeclaredIsDescribed ==
  ASSUME NEW d \in DeclaredTypes, NEW rhs, Value(rhs), NEW config,
         Ok(Convert(config, d.target, rhs))
  PROVE  Described(d.type, Convert(config, d.target, rhs).value)
<1> DEFINE t == d.target
           r == Convert(config, t, rhs)
<1>1. CASE t \in WrittenFields /\ d.type = FieldType(t)
  <2>1. t.kind # "tuple"
    BY <1>1, WrittenFieldKinds DEF ArrayOver
  <2>2. r = ConvertFlat(config, t, rhs)
    BY <2>1 DEF Convert
  <2>3. FieldDescribed(FieldType(t), r.value)
    BY <1>1, <2>2, FieldConversionIsDescribed
  <2> QED  BY <1>1, <2>3 DEF Described
<1>2. CASE /\ t.fields \in Seq(WrittenFields)
           /\ t = TupleValue(t.fields)
           /\ d.type = TupleId([i \in DOMAIN t.fields |-> FieldType(t.fields[i])])
  <2> DEFINE n == Len(t.fields)
             types == [i \in DOMAIN t.fields |-> FieldType(t.fields[i])]
  <2>1. n \in Nat /\ DOMAIN t.fields = 1 .. n /\ \A i \in 1 .. n : t.fields[i] \in WrittenFields
    BY <1>2
  <2>2. TupleTarget(t)
    BY <1>2, <2>1, WrittenFieldIsTarget DEF TupleTarget
  <2>3. /\ TupleOfFlat(r.value) /\ Len(r.value.fields) = n
        /\ \A i \in 1 .. n :
             \/ LET c == ConvertFlat(config, t.fields[i], rhs.fields[i]) IN
                Ok(c) /\ r.value.fields[i] = c.value /\ Value(rhs.fields[i])
             \/ LET c == FromNullFlat(t.fields[i]) IN
                Ok(c) /\ r.value.fields[i] = c.value
    BY <2>2, ToTuple
  <2>4. \A i \in 1 .. n : FieldDescribed(FieldType(t.fields[i]), r.value.fields[i])
    BY <2>1, <2>3, FieldConversionIsDescribed, NullFieldIsDescribed
  <2>5. d.type = TupleId(types) /\ d.type.fields = types /\ Len(types) = n /\ DOMAIN types = 1 .. n
    BY <1>2, <2>1, TupleIdFields
  <2>6. \A i \in 1 .. n : types[i] = FieldType(t.fields[i])
    BY <2>1
  <2>7. r.value.kind = "tuple"
    BY <2>3, TupleFields
  <2> HIDE DEF r, n, types
  <2>8. TupleDescribed(d.type, r.value)
    BY <2>3, <2>4, <2>5, <2>6, <2>7 DEF TupleDescribed
  <2> QED  BY <2>8 DEF Described, r
<1> QED  BY <1>1, <1>2, DeclaredTypesAssumption

\* What a variable gets without a declared type.
LEMMA InferredIsDescribed ==
  ASSUME NEW type, NEW rhs, Value(rhs), Described(type, rhs), NEW config,
         Ok(Convert(config, UnknownType, rhs))
  PROVE  Described(type, Convert(config, UnknownType, rhs).value)
<1>1. UnknownType.kind = "unknown"
  BY DEF UnknownType, Record
<1>2. Convert(config, UnknownType, rhs) = ConvertFlat(config, UnknownType, rhs)
  BY <1>1 DEF Convert
<1> DEFINE w == ConvertFlat(config, UnknownType, rhs).value
<1>3. \/ w = rhs
      \/ LiteralArray(rhs) /\ Ok(MixedToSameType(rhs)) /\ w = MixedToSameType(rhs).value
  BY <1>2, ToUnknown
<1>4. LiteralArray(rhs) => Concrete(rhs) = MixedToSameType(rhs)
  BY DEF LiteralArray, Concrete, IsMixed
<1> HIDE DEF w
<1>5. Described(type, w)
  BY <1>3, <1>4, ConcreteIsDescribed
<1> QED  BY <1>2, <1>5 DEF w

\* What a variable gets by an assignment has the type it had.
LEMMA SameShapeIsDescribed ==
  ASSUME NEW type, NEW v, FlatValue(v), FieldDescribed(type, v),
         NEW w, FlatValue(w), FieldShape(w) = FieldShape(v)
  PROVE  FieldDescribed(type, w)
<1>1. CASE v.kind = "interval"
  <2>1. FieldShape(v).kind = "interval"
    BY <1>1, PlainInterval DEF FieldShape
  <2>2. w.kind = "interval"
    BY <1>1, <2>1 DEF FieldShape
  <2> QED  BY <1>1, <2>2 DEF FieldDescribed, ArrayDescribed, IsScalar, IsVector, IsMixed
<1>2. CASE v.kind # "interval"
  <2>1. FieldShape(v) = v
    BY <1>2 DEF FieldShape
  <2>2. w.kind # "interval"
    BY <1>2, <2>1, PlainInterval DEF FieldShape
  <2> QED  BY <2>1, <2>2 DEF FieldShape
<1> QED  BY <1>1, <1>2

LEMMA AssignedIsDescribed ==
  ASSUME NEW type, NEW v, Settled(v), Described(type, v), NEW rhs, Value(rhs),
         Ok(Convert(Assignment, v, rhs))
  PROVE  Described(type, Convert(Assignment, v, rhs).value)
<1> DEFINE w == Convert(Assignment, v, rhs).value
<1>0. Assignment.restriction = SameSize /\ ~Assignment.isCast
  BY ConfigurationFields
<1>1. CASE FlatValue(v)
  <2>1. v.kind # "tuple"
    BY <1>1, FlatArrayFields, IntervalFields DEF FlatValue
  <2>2. Convert(Assignment, v, rhs) = ConvertFlat(Assignment, v, rhs)
    BY <2>1 DEF Convert
  <2>3. FlatTarget(v)
    BY <1>1, FlatValueIsTarget
  <2>4. FlatValue(w) /\ FieldShape(w) = FieldShape(v)
    BY <1>0, <1>1, <2>2, <2>3, ToFlat
  <2>5. FieldDescribed(type, v)
    BY <2>1 DEF Described, TupleDescribed
  <2> HIDE DEF w
  <2>6. FieldDescribed(type, w)
    BY <1>1, <2>4, <2>5, SameShapeIsDescribed
  <2> QED  BY <2>6 DEF Described, w
<1>2. CASE TupleOfFlat(v)
  <2>1. TupleTarget(v) /\ v.kind = "tuple"
    BY <1>2, TupleIsTarget, TupleFields
  <2>2. /\ TupleOfFlat(w) /\ Len(w.fields) = Len(v.fields)
        /\ \A i \in 1 .. Len(v.fields) : FieldShape(w.fields[i]) = FieldShape(v.fields[i])
    BY <1>0, <1>2, <2>1, ToTuple
  <2> HIDE DEF w
  <2>3. w.kind = "tuple"
    BY <2>2, TupleFields
  <2>4. type \in {Unknown, Invalid} \/ TupleDescribed(type, v)
    BY <2>1 DEF Described, FieldDescribed, ArrayDescribed, IsScalar, IsVector
  <2>5. type \in {Unknown, Invalid} => FieldDescribed(type, w)
    BY <2>3 DEF FieldDescribed, IsVector
  <2>6. TupleDescribed(type, v) => TupleDescribed(type, w)
    <3> SUFFICES ASSUME TupleDescribed(type, v) PROVE TupleDescribed(type, w)
      OBVIOUS
    <3>1. \A i \in 1 .. Len(v.fields) : FlatValue(v.fields[i]) /\ FlatValue(w.fields[i])
      BY <1>2, <2>2 DEF TupleOfFlat
    <3>2. \A i \in 1 .. Len(v.fields) : FieldDescribed(type.fields[i], w.fields[i])
      BY <2>2, <3>1, SameShapeIsDescribed DEF TupleDescribed
    <3> QED  BY <2>2, <2>3, <3>2 DEF TupleDescribed
  <2>7. Described(type, w)
    BY <2>4, <2>5, <2>6 DEF Described
  <2> QED  BY <2>7 DEF w
<1> QED  BY <1>1, <1>2 DEF Settled

(***************************************************************************)
(* Operators.                                                              *)
(***************************************************************************)

\* The tables know neither the range, nor `by', nor the dot product.
TableNames == LogicalOps \cup ArithmeticOps \cup RelationalOps \cup EqualityOps

LEMMA OperatorTables ==
  ASSUME NEW op, NEW l, NEW r, Unknown \notin {l, r}
  PROVE  /\ op \in TableNames => op \notin {"range", "by", "dot"}
         /\ op \in LogicalOps => /\ Table(op, l, r) = Logical(l, r)
                                 /\ BinaryOpType(op, l, r) = ResultType(Logical(l, r), l, r)
         /\ op \in ArithmeticOps => /\ Table(op, l, r) = Arithmetic(l, r)
                                    /\ BinaryOpType(op, l, r) = ResultType(Arithmetic(l, r), l, r)
         /\ op \in RelationalOps => /\ Table(op, l, r) = Relational(l, r)
                                    /\ BinaryOpType(op, l, r) = ResultType(Relational(l, r), l, r)
         /\ op \in EqualityOps => /\ Table(op, l, r) = Equality(l, r)
                                  /\ BinaryOpType(op, l, r) = ResultType(Equality(l, r), l, r)
<1>1. /\ op \in TableNames => op \notin {"range", "by", "dot"}
      /\ op \in LogicalOps => op \notin ArithmeticOps \cup RelationalOps \cup EqualityOps
      /\ op \in ArithmeticOps => op \notin LogicalOps \cup RelationalOps \cup EqualityOps
      /\ op \in RelationalOps => op \notin LogicalOps \cup ArithmeticOps \cup EqualityOps
      /\ op \in EqualityOps => op \notin LogicalOps \cup ArithmeticOps \cup RelationalOps
      /\ op \in TableNames => op \notin {"concat", "by"}
  BY DEF TableNames, LogicalOps, ArithmeticOps, RelationalOps, EqualityOps
<1>2. op \in LogicalOps \/ op \in ArithmeticOps \/ op \in RelationalOps \/ op \in EqualityOps
        => op \in TableNames
  BY DEF TableNames
<1> QED  BY <1>1, <1>2 DEF Table, BinaryOpType

\* Where the walk gives a type, and not that of a matrix, it is the table's.
LEMMA TypedByEntry ==
  ASSUME NEW entry, NEW l, NEW r, {Unknown, IdentityNull} \cap {l, r} = {},
         IsType(ResultType(entry, l, r)), \A id \in entry : id.dim # 2
  PROVE  ResultType(entry, l, r) \in entry /\ Invalid \notin {l, r}
<1>1. ~IsType(Wild) /\ ~IsType(Rejected)
  BY TypeBases DEF IsType
<1>2. Invalid \notin {l, r} /\ entry # {}
      /\ ResultType(entry, l, r) = GetType(CHOOSE id \in entry : TRUE)
  BY <1>1 DEF ResultType
<1> DEFINE id == CHOOSE e \in entry : TRUE
<1>3. id \in entry
  BY <1>2
<1> HIDE DEF id
<1>4. GetType(id) = id
  BY <1>3 DEF GetType
<1> QED  BY <1>2, <1>3, <1>4 DEF id

\* Neither operand is null: both reach the operator as they are.
LEMMA OperandsAsTheyAre ==
  ASSUME NEW op, NEW a, NEW b, NEW size, a.elem \notin NullOrIdentity, b.elem \notin NullOrIdentity
  PROVE  LET p == Concrete(a).value
             q == Concrete(b).value IN
         Binary(op, a, b, size) =
           IF ~Ok(Concrete(a)) THEN Concrete(a)
           ELSE IF ~Ok(Concrete(b)) THEN Concrete(b)
           ELSE IF "tuple" \in {p.kind, q.kind} /\ op \notin {"range", "by"}
                   /\ {p.kind, q.kind} \cap {"interval", "empty"} = {}
           THEN TupleBinary(p, q) ELSE SpecTypes(op, p, q, size)
BY DEF Binary, Prepared

LEMMA CommonBase ==
  ASSUME NEW b \in Bases, NEW c \in Bases
  PROVE  /\ b = c => PromotedBetween(b, c) = {b}
         /\ b # c /\ {b, c} = Numbers => PromotedBetween(b, c) = {"real"}
         /\ b # c /\ {b, c} # Numbers => PromotedBetween(b, c) = {}
BY DEF PromotedBetween, CanBePromotedFrom, Bases, Numbers, BasicElements, NullOrIdentity

LEMMA ArraysTogether ==
  ASSUME NEW op, op \notin {"range", "by", "dot"}, NEW p, p.kind = "array",
         NEW q, q.kind = "array", NEW size
  PROVE  SpecTypes(op, p, q, size) =
           WithCommonElement(op, p, q, IF NDim(p) > NDim(q) THEN p ELSE q, p.elem, q.elem)
BY DEF SpecTypes

LEMMA CommonElementResult ==
  ASSUME NEW op, NEW p, NEW q, NEW target, NEW b, NEW c,
         Ok(WithCommonElement(op, p, q, target, b, c))
  PROVE  \E elem \in PromotedBetween(b, c) :
           /\ WithCommonElement(op, p, q, target, b, c) = SameTypeSameSize(op, elem, target.dims)
           /\ Ok(SameTypeSameSize(op, elem, target.dims))
<1> DEFINE elem == CHOOSE e \in PromotedBetween(b, c) : TRUE
<1>1. PromotedBetween(b, c) # {}
  BY DEF WithCommonElement, Fail, Ok
<1>2. elem \in PromotedBetween(b, c)
  BY <1>1
<1>3. WithCommonElement(op, p, q, target, b, c) = SameTypeSameSize(op, elem, target.dims)
  BY DEF WithCommonElement, Promoted, Fail, Ok
<1> HIDE DEF elem
<1> QED  BY <1>2, <1>3

LEMMA SameSizeResult ==
  ASSUME NEW op, NEW elem, NEW dims, Ok(SameTypeSameSize(op, elem, dims))
  PROVE  LET w == SameTypeSameSize(op, elem, dims).value IN
         /\ op \in EqualityOps => w = Array("boolean", <<>>)
         /\ op \in LogicalOps => elem = "boolean" /\ w = Array(elem, dims)
         /\ op \in RelationalOps => w = Array("boolean", dims)
         /\ op \in ArithmeticOps => w = Array(elem, dims)
BY DEF SameTypeSameSize, Ok, Fine, Fail, EqualityOps, LogicalOps, RelationalOps, ArithmeticOps,
       Comparisons, Orders, Arithmetics

\* Comparing for equality gives a scalar, whatever is compared.
LEMMA EqualityGivesBoolean ==
  ASSUME NEW op \in EqualityOps, NEW a, NEW b, NEW size, Ok(Binary(op, a, b, size))
  PROVE  Binary(op, a, b, size).value = Array("boolean", <<>>)
<1> DEFINE p == First(a, b).value
           q == Second(a, b).value
           r == Binary(op, a, b, size)
           larger == IF NDim(p) > NDim(q) THEN p ELSE q
           vector == IF IsArray(p) THEN p ELSE q
<1>0. op \notin {"range", "by", "dot"} /\ op \in Comparisons
  BY DEF EqualityOps, Comparisons
<1>1. /\ Ok(Concrete(a)) /\ Ok(Concrete(b)) /\ Ok(First(a, b)) /\ Ok(Second(a, b))
      /\ r = TupleBinary(p, q) \/ r = SpecTypes(op, p, q, size)
  BY DEF Binary, Prepared, First, Second
<1>2. Ok(r)
  OBVIOUS
<1> HIDE DEF r, p, q
<1>3. CASE r = TupleBinary(p, q)
  <2>1. r = Fine(Array("boolean", <<>>))
    BY <1>2, <1>3 DEF TupleBinary, Fail, Ok
  <2> QED  BY <2>1 DEF Fine, r
<1>4. CASE r = SpecTypes(op, p, q, size)
  <2>1. \/ r = WithInterval(op, p, q, size)
        \/ r = WithCommonElement(op, p, q, vector, "integer", vector.elem)
        \/ r = WithCommonElement(op, p, q, larger, p.elem, q.elem)
    BY <1>0, <1>2, <1>4 DEF SpecTypes, Ok, Fail
  <2> HIDE DEF vector, larger
  <2>2. CASE r = WithInterval(op, p, q, size)
    <3> DEFINE left == ConvertFlat(Promotion, Interval(1), p)
               right == ConvertFlat(Promotion, Interval(1), q)
    <3>1. r = IntervalBinary(op, left.value, right.value, size)
      BY <1>2, <2>2 DEF WithInterval
    <3> HIDE DEF left, right
    <3>2. r = Fine(Array("boolean", <<>>))
      BY <1>0, <3>1 DEF IntervalBinary, Comparisons
    <3> QED  BY <3>2 DEF Fine, r
  <2>3. ASSUME NEW target, NEW e, NEW f, r = WithCommonElement(op, p, q, target, e, f)
        PROVE  r.value = Array("boolean", <<>>)
    <3>1. PICK elem \in PromotedBetween(e, f) :
            r = SameTypeSameSize(op, elem, target.dims) /\ Ok(SameTypeSameSize(op, elem, target.dims))
      BY <1>2, <2>3, CommonElementResult
    <3> QED  BY <3>1, SameSizeResult
  <2>4. r.value = Array("boolean", <<>>)
    BY <2>1, <2>2, <2>3 DEF r
  <2> QED  BY <2>4 DEF r
<1> QED  BY <1>1, <1>3, <1>4

LEMMA BooleanIsDescribed ==
  Described(Boolean, Array("boolean", <<>>))
<1>1. FlatArray(Array("boolean", <<>>)) /\ Array("boolean", <<>>).elem = "boolean"
      /\ Array("boolean", <<>>).dims = <<>>
  <2>1. "boolean" \in Elements /\ <<>> \in Seq(Nat) /\ Len(<<>>) \in 0 .. 2
    BY DEF Elements, BasicElements
  <2> QED  BY <2>1, PlainArray
<1>2. "boolean" \in BasicElements
  BY DEF BasicElements
<1>3. FieldDescribed(Id("boolean", Len(<<>>)), Array("boolean", <<>>))
  BY <1>1, <1>2, PlainIsDescribed
<1> QED  BY <1>3 DEF Described, Boolean

LEMMA ByGivesVector ==
  ASSUME NEW a, Value(a), NEW b, Value(b), NEW size \in Nat \ {0}, Ok(Binary("by", a, b, size))
  PROVE  Described(Id("integer", 1), Binary("by", a, b, size).value)
<1> DEFINE p == First(a, b).value
           q == Second(a, b).value
           r == Binary("by", a, b, size)
<1>1. r = SpecTypes("by", p, q, size)
  BY DEF Binary, Prepared, First, Second, Ok
<1>2. Ok(r) /\ FlatValue(r.value)
  BY BinaryGivesValue
<1> HIDE DEF r, p, q
<1>3. \E n : r = Fine(Array("integer", <<n>>))
  BY <1>1, <1>2 DEF SpecTypes, Fail, Ok
<1>4. PICK n : r.value = Array("integer", <<n>>)
  BY <1>3 DEF Fine
<1>5. r.value.elem = "integer" /\ r.value.kind = "array" /\ r.value.dims = <<n>>
  BY <1>4 DEF Array, Record
<1>6. FlatArray(r.value) /\ Len(r.value.dims) = 1 /\ r.value.elem \in BasicElements
  BY <1>2, <1>5, IntervalFields DEF FlatValue, BasicElements
<1>7. FieldDescribed(Id("integer", 1), r.value)
  BY <1>5, <1>6, PlainIsDescribed
<1> QED  BY <1>7 DEF Described, r

LEMMA RangeGivesInterval ==
  ASSUME NEW a, NEW b, NEW size, Ok(Binary("range", a, b, size))
  PROVE  Described(IntegerInterval, Binary("range", a, b, size).value)
<1> DEFINE p == First(a, b).value
           q == Second(a, b).value
           r == Binary("range", a, b, size)
<1>1. r = SpecTypes("range", p, q, size) /\ Ok(r)
  BY DEF Binary, Prepared, First, Second, Ok
<1> HIDE DEF r, p, q
<1>2. r = Fine(Interval(size))
  BY <1>1 DEF SpecTypes, Fail, Ok
<1>3. r.value.kind = "interval"
  BY <1>2, PlainInterval DEF Fine
<1> QED  BY <1>3 DEF Described, FieldDescribed, r

LEMMA ConcreteArray ==
  ASSUME NEW t, t.base \in Bases, NEW v, Value(v), Described(t, v), Ok(Concrete(v))
  PROVE  LET w == Concrete(v).value IN
         /\ FlatArray(w) /\ w.kind = "array" /\ w.elem = t.base /\ Len(w.dims) = t.dim
         /\ w.dims \in Seq(Nat) /\ w.dims = v.dims /\ t.dim \in 0 .. 2 /\ t = Id(t.base, t.dim)
<1> DEFINE w == Concrete(v).value
<1>1. Described(t, w) /\ Value(w) /\ ~IsMixed(w) /\ w.dims = v.dims
  BY ConcreteIsDescribed
<1> HIDE DEF w
<1>2. ArrayDescribed(t, w)
  BY <1>1, DescribedByBase
<1>3. w.kind = "array" /\ w.elem = t.base /\ Len(w.dims) = t.dim
  BY <1>1, <1>2 DEF ArrayDescribed, IsMixed
<1>4. FlatArray(w)
  BY <1>1, <1>3, ValueFields DEF LiteralArray, IsMixed
<1>5. w.dims \in Seq(Nat)
  BY <1>4, FlatArrayFields
<1> QED  BY <1>1, <1>2, <1>3, <1>4, <1>5 DEF w, ArrayDescribed, IsArrayType

LEMMA LargerOfTwo ==
  ASSUME NEW l, NEW r, l.dim \in 0 .. 2, r.dim \in 0 .. 2
  PROVE  Larger(l, r) = (IF l.dim > r.dim THEN l.dim ELSE r.dim) /\ Larger(l, r) \in 0 .. 2
<1>1. l.dim \in Int /\ r.dim \in Int
  OBVIOUS
<1>2. Larger(l, r) = IF l.dim >= r.dim THEN l.dim ELSE r.dim
  BY <1>1, MaxOfTwo DEF Larger
<1> QED  BY <1>1, <1>2

\* Two arrays of known types: the operator works on a common element type and
\* the dimensions of the larger.
LEMMA ArraysGiveArray ==
  ASSUME NEW op \in TableNames, NEW l, l.base \in Bases, NEW r, r.base \in Bases,
         NEW a, Value(a), Described(l, a), NEW b, Value(b), Described(r, b),
         NEW size, Ok(Binary(op, a, b, size))
  PROVE  \E elem \in PromotedBetween(l.base, r.base), dims \in Seq(Nat) :
           /\ Len(dims) = Larger(l, r) /\ Larger(l, r) \in 0 .. 2
           /\ Binary(op, a, b, size) = SameTypeSameSize(op, elem, dims)
           /\ Ok(SameTypeSameSize(op, elem, dims))
<1> DEFINE p == Concrete(a).value
           q == Concrete(b).value
           larger == IF NDim(p) > NDim(q) THEN p ELSE q
           result == Binary(op, a, b, size)
<1>0. op \notin {"range", "by", "dot"}
  BY DEF TableNames, LogicalOps, ArithmeticOps, RelationalOps, EqualityOps
<1>1. a.elem \notin NullOrIdentity /\ b.elem \notin NullOrIdentity
  BY DescribedKinds, TypeBases DEF Bases, Numbers
<1>2. Ok(Concrete(a)) /\ Ok(Concrete(b))
  BY <1>1, OperandsAsTheyAre
<1>3. /\ p.kind = "array" /\ p.elem = l.base /\ Len(p.dims) = l.dim /\ p.dims \in Seq(Nat)
      /\ q.kind = "array" /\ q.elem = r.base /\ Len(q.dims) = r.dim /\ q.dims \in Seq(Nat)
      /\ l.dim \in 0 .. 2 /\ r.dim \in 0 .. 2
  BY <1>2, ConcreteArray
<1>4. result = SpecTypes(op, p, q, size)
  BY <1>0, <1>1, <1>2, <1>3, OperandsAsTheyAre
<1>5. Ok(result)
  OBVIOUS
<1> HIDE DEF p, q, result
<1>6. result = WithCommonElement(op, p, q, larger, p.elem, q.elem)
  BY <1>0, <1>3, <1>4, ArraysTogether
<1>7. larger.dims \in Seq(Nat) /\ Len(larger.dims) = Larger(l, r) /\ Larger(l, r) \in 0 .. 2
  BY <1>3, LargerOfTwo DEF NDim
<1> HIDE DEF larger
<1>8. PICK elem \in PromotedBetween(p.elem, q.elem) :
        /\ result = SameTypeSameSize(op, elem, larger.dims)
        /\ Ok(SameTypeSameSize(op, elem, larger.dims))
  BY <1>5, <1>6, CommonElementResult
<1> QED  BY <1>3, <1>7, <1>8 DEF result

LEMMA ArrayOfIsDescribed ==
  ASSUME NEW elem \in Bases, NEW dims \in Seq(Nat), Len(dims) \in 0 .. 2
  PROVE  Described(Id(elem, Len(dims)), Array(elem, dims))
<1>1. elem \in Elements /\ elem \in BasicElements
  BY DEF Bases, Numbers, Elements, BasicElements
<1>2. FlatArray(Array(elem, dims)) /\ Array(elem, dims).elem = elem /\ Array(elem, dims).dims = dims
  BY <1>1, PlainArray
<1>3. FieldDescribed(Id(elem, Len(dims)), Array(elem, dims))
  BY <1>1, <1>2, PlainIsDescribed
<1> QED  BY <1>3 DEF Described

LEMMA LogicalIsDescribed ==
  ASSUME NEW op \in LogicalOps, NEW l, NEW r, NEW a, Value(a), Described(l, a),
         NEW b, Value(b), Described(r, b), NEW size, Ok(Binary(op, a, b, size)),
         NEW type \in Logical(l, r)
  PROVE  Described(type, Binary(op, a, b, size).value)
<1>1. l.base = "boolean" /\ r.base = "boolean" /\ type = Id("boolean", Larger(l, r))
  BY DEF Logical, Entry
<1>2. "boolean" \in Bases
  BY DEF Bases
<1>3. op \in TableNames
  BY DEF TableNames
<1>4. PICK elem \in PromotedBetween(l.base, r.base), dims \in Seq(Nat) :
           /\ Len(dims) = Larger(l, r) /\ Larger(l, r) \in 0 .. 2
           /\ Binary(op, a, b, size) = SameTypeSameSize(op, elem, dims)
           /\ Ok(SameTypeSameSize(op, elem, dims))
  BY <1>1, <1>2, <1>3, ArraysGiveArray
<1>5. Binary(op, a, b, size).value = Array("boolean", dims)
  BY <1>4, SameSizeResult
<1> QED  BY <1>1, <1>2, <1>4, <1>5, ArrayOfIsDescribed

LEMMA RelationalIsDescribed ==
  ASSUME NEW op \in RelationalOps, NEW l, NEW r, NEW a, Value(a), Described(l, a),
         NEW b, Value(b), Described(r, b), NEW size, Ok(Binary(op, a, b, size)),
         NEW type \in Relational(l, r)
  PROVE  Described(type, Binary(op, a, b, size).value)
<1>1. l \in {Integer, Real} /\ r \in {Integer, Real} /\ type = Boolean
  BY DEF Relational, Entry
<1>2. l.base \in Bases /\ r.base \in Bases /\ l.dim = 0 /\ r.dim = 0
  BY <1>1, TypeBases DEF Bases, Numbers
<1>3. op \in TableNames
  BY DEF TableNames
<1>4. PICK elem \in PromotedBetween(l.base, r.base), dims \in Seq(Nat) :
           /\ Len(dims) = Larger(l, r) /\ Larger(l, r) \in 0 .. 2
           /\ Binary(op, a, b, size) = SameTypeSameSize(op, elem, dims)
           /\ Ok(SameTypeSameSize(op, elem, dims))
  BY <1>2, <1>3, ArraysGiveArray
<1>5. Binary(op, a, b, size).value = Array("boolean", dims)
  BY <1>4, SameSizeResult
<1>6. Len(dims) = 0
  BY <1>2, <1>4, LargerOfTwo
<1>7. dims = <<>>
  BY <1>6
<1> QED  BY <1>1, <1>5, <1>7, BooleanIsDescribed

\* The element type both tables find: the wider one.
LEMMA WiderIsCommon ==
  ASSUME NEW l, NEW r, l.base \in Bases, r.base \in Bases,
         l.base = r.base \/ {l.base, r.base} \subseteq Numbers
  PROVE  PromotedBetween(l.base, r.base) = {Wider(l, r)} /\ Wider(l, r) \in Bases
         /\ ({l.base, r.base} \subseteq Numbers => Wider(l, r) \in Numbers)
<1>1. Wider(l, r) = IF "real" \in {l.base, r.base} THEN "real" ELSE l.base
  BY DEF Wider
<1>2. CASE l.base = r.base
  BY <1>1, <1>2, CommonBase
<1>3. CASE l.base # r.base
  <2>1. {l.base, r.base} = Numbers
    BY <1>3 DEF Numbers
  <2>2. Wider(l, r) = "real" /\ "real" \in Numbers /\ "real" \in Bases
    BY <1>1, <2>1 DEF Numbers, Bases
  <2> QED  BY <1>3, <2>1, <2>2, CommonBase
<1> QED  BY <1>2, <1>3

LEMMA NumbersAreDescribed ==
  ASSUME NEW op \in ArithmeticOps, NEW l, l.base \in Numbers, NEW r, r.base \in Numbers,
         NEW a, Value(a), Described(l, a),
         NEW b, Value(b), Described(r, b), NEW size, Ok(Binary(op, a, b, size))
  PROVE  Described(Id(Wider(l, r), Larger(l, r)), Binary(op, a, b, size).value)
<1>1. l.base \in Bases /\ r.base \in Bases /\ op \in TableNames
  BY DEF Bases, TableNames
<1>2. PICK elem \in PromotedBetween(l.base, r.base), dims \in Seq(Nat) :
           /\ Len(dims) = Larger(l, r) /\ Larger(l, r) \in 0 .. 2
           /\ Binary(op, a, b, size) = SameTypeSameSize(op, elem, dims)
           /\ Ok(SameTypeSameSize(op, elem, dims))
  BY <1>1, ArraysGiveArray
<1>3. elem = Wider(l, r) /\ Wider(l, r) \in Bases
  BY <1>1, WiderIsCommon
<1>4. Binary(op, a, b, size).value = Array(elem, dims)
  BY <1>2, SameSizeResult
<1> QED  BY <1>2, <1>3, <1>4, ArrayOfIsDescribed

\* The interval rows: with a vector of numbers, which keeps its type, or never.
LEMMA IntervalRowIsDescribed ==
  ASSUME NEW op \in ArithmeticOps, NEW l, NEW r, NEW a, Value(a), Described(l, a),
         NEW b, Value(b), Described(r, b), NEW size, Ok(Binary(op, a, b, size)),
         NEW type \in IntervalRow(l, r)
  PROVE  Described(type, Binary(op, a, b, size).value)
<1> DEFINE p == Concrete(a).value
           q == Concrete(b).value
           vector == IF IsArray(p) THEN p ELSE q
           result == Binary(op, a, b, size)
           Vectors == {Integer, Id("integer", 1), Id("real", 1)}
<1>0. op \in TableNames /\ op \notin {"range", "by", "dot"}
  BY DEF TableNames, ArithmeticOps
<1>1. \/ l = IntegerInterval /\ r \in Vectors /\ type = Id(r.base, 1)
      \/ r = IntegerInterval /\ l \in Vectors /\ type = Id(l.base, 1)
  <2>1. PICK pair \in {<<l, r>>, <<r, l>>} :
          pair[1] = IntegerInterval /\ pair[2] \in Vectors /\ type = Id(pair[2].base, 1)
    BY DEF IntervalRow, Entry
  <2> QED  BY <2>1
<1>2. \A t \in Vectors : t.base \in Numbers /\ t.base \in Bases /\ t.dim \in 0 .. 1
                         /\ (t.dim = 0 => t = Integer)
  BY TypeBases, IdFields DEF Numbers, Bases
<1>3. /\ l \notin {Unknown, Invalid, IdentityNull} /\ r \notin {Unknown, Invalid, IdentityNull}
  BY <1>1, <1>2, TypeBases DEF Numbers
<1>4. a.elem \notin NullOrIdentity /\ b.elem \notin NullOrIdentity
  BY <1>3, DescribedKinds
<1>5. Ok(Concrete(a)) /\ Ok(Concrete(b)) /\ Ok(result)
  BY <1>4, OperandsAsTheyAre
<1>6. Described(l, p) /\ Described(r, q) /\ Value(p) /\ Value(q)
  BY <1>5, ConcreteIsDescribed
<1>7. ASSUME NEW t \in Vectors, NEW v, Value(v), Described(t, v), Ok(Concrete(v))
      PROVE  LET w == Concrete(v).value IN
             /\ w.kind = "array" /\ w.elem = t.base /\ Len(w.dims) = t.dim /\ w.dims \in Seq(Nat)
  BY <1>2, <1>7, ConcreteArray
<1>8. ASSUME NEW t, t = IntegerInterval, NEW v, Described(t, v)
      PROVE  v.kind = "interval"
  BY <1>8, DescribedByBase, TypeBases
<1>9. \/ /\ p.kind = "interval" /\ r \in Vectors /\ type = Id(r.base, 1)
         /\ q.kind = "array" /\ q.elem = r.base /\ Len(q.dims) = r.dim /\ q.dims \in Seq(Nat)
      \/ /\ q.kind = "interval" /\ l \in Vectors /\ type = Id(l.base, 1)
         /\ p.kind = "array" /\ p.elem = l.base /\ Len(p.dims) = l.dim /\ p.dims \in Seq(Nat)
  BY <1>1, <1>5, <1>6, <1>7, <1>8
<1>10. result = SpecTypes(op, p, q, size)
  BY <1>0, <1>4, <1>5, <1>9, OperandsAsTheyAre
<1> HIDE DEF p, q, result, Vectors
<1>11. CASE ~(IsVector(p) \/ IsVector(q))
  <2>1. result = WithInterval(op, p, q, size)
    BY <1>0, <1>9, <1>10, <1>11 DEF SpecTypes
  <2>2. PICK w \in {p, q} : w.kind = "array" /\ w.elem \in Numbers
    BY <1>2, <1>9
  <2>3. Ok(ConvertFlat(Promotion, Interval(1), w))
    BY <1>5, <2>1, <2>2 DEF WithInterval
  <2>4. Interval(1).kind = "interval" /\ Value(w)
    BY <1>6, PlainInterval
  <2>5. w.elem \in NullOrIdentity \/ w.kind = "interval"
    BY <2>3, <2>4, ToInterval
  <2> QED  BY <2>2, <2>5 DEF Numbers, NullOrIdentity
<1>12. CASE IsVector(p) \/ IsVector(q)
  <2>1. result = WithCommonElement(op, p, q, vector, "integer", vector.elem)
    BY <1>0, <1>9, <1>10, <1>12 DEF SpecTypes
  <2>2. /\ type = Id(vector.elem, 1) /\ vector.elem \in Numbers /\ Len(vector.dims) = 1
        /\ vector.dims \in Seq(Nat)
    BY <1>2, <1>9, <1>12 DEF IsVector, IsArray
  <2> HIDE DEF vector
  <2>3. PICK elem \in PromotedBetween("integer", vector.elem) :
          /\ result = SameTypeSameSize(op, elem, vector.dims)
          /\ Ok(SameTypeSameSize(op, elem, vector.dims))
    BY <1>5, <2>1, CommonElementResult
  <2>4. PromotedBetween("integer", vector.elem) = {vector.elem}
    <3>1. vector.elem = "integer" \/ vector.elem = "real"
      BY <2>2 DEF Numbers
    <3>2. "integer" \in Bases /\ "real" \in Bases /\ {"integer", "real"} = Numbers
      BY DEF Numbers, Bases
    <3> QED  BY <3>1, <3>2, CommonBase
  <2>5. result.value = Array(vector.elem, vector.dims) /\ vector.elem \in Bases
    BY <2>2, <2>3, <2>4, SameSizeResult DEF Bases
  <2>6. Described(Id(vector.elem, 1), Array(vector.elem, vector.dims))
    <3>1. Len(vector.dims) \in 0 .. 2
      BY <2>2
    <3>2. Described(Id(vector.elem, Len(vector.dims)), Array(vector.elem, vector.dims))
      BY <2>2, <2>5, <3>1, ArrayOfIsDescribed
    <3> QED  BY <2>2, <3>2
  <2> QED  BY <2>2, <2>5, <2>6 DEF result
<1> QED  BY <1>11, <1>12

LEMMA ArithmeticIsDescribed ==
  ASSUME NEW op \in ArithmeticOps, NEW l, NEW r, NEW a, Value(a), Described(l, a),
         NEW b, Value(b), Described(r, b), NEW size \in Nat \ {0}, Ok(Binary(op, a, b, size)),
         NEW type \in Arithmetic(l, r)
  PROVE  Described(type, Binary(op, a, b, size).value)
<1> DEFINE result == Binary(op, a, b, size)
<1>1. CASE l.base \in Numbers /\ r.base \in Numbers /\ type = Id(Wider(l, r), Larger(l, r))
  BY <1>1, NumbersAreDescribed
<1>2. CASE type \in IntervalRow(l, r)
  BY <1>2, IntervalRowIsDescribed
<1>3. CASE l = IntegerInterval /\ r = l /\ type = l
  <2>1. a.kind = "interval" /\ b.kind = "interval"
    BY <1>3, DescribedByBase, TypeBases
  <2>2. a.elem = "none" /\ b.elem = "none"
    BY <2>1, ValueFields, IntervalFields
  <2>3. Concrete(a) = Fine(a) /\ Concrete(b) = Fine(b) /\ Ok(Concrete(a)) /\ Ok(Concrete(b))
        /\ Concrete(a).value = a /\ Concrete(b).value = b
    BY <2>1 DEF Concrete, IsMixed, Fine, Ok
  <2>4. result = SpecTypes(op, a, b, size)
    BY <2>1, <2>2, <2>3, OperandsAsTheyAre DEF NullOrIdentity
  <2>5. Ok(result)
    OBVIOUS
  <2> HIDE DEF result
  <2>6. result = WithInterval(op, a, b, size)
    BY <2>1, <2>4 DEF SpecTypes, IsVector, ArithmeticOps
  <2> DEFINE left == ConvertFlat(Promotion, Interval(1), a)
             right == ConvertFlat(Promotion, Interval(1), b)
  <2>7. result = IntervalBinary(op, left.value, right.value, size)
    BY <2>5, <2>6 DEF WithInterval
  <2> HIDE DEF left, right
  <2>8. \E n : result = Fine(Interval(n))
    BY <2>5, <2>7 DEF IntervalBinary, ArithmeticOps, Comparisons, Ok, Fail
  <2>9. result.value.kind = "interval"
    BY <2>8, PlainInterval DEF Fine
  <2> QED  BY <1>3, <2>9 DEF Described, FieldDescribed, result
<1> QED  BY <1>1, <1>2, <1>3 DEF Arithmetic, Entry

\* The type of a binary operation describes its value, where it is no matrix.
LEMMA BinaryIsDescribed ==
  ASSUME NEW op \in Operators, NEW l, NEW r, NEW a, Value(a), Described(l, a),
         NEW b, Value(b), Described(r, b), NEW size \in Nat \ {0}, Ok(Binary(op, a, b, size)),
         IsType(BinaryOpType(op, l, r)), IdentityNull \notin {l, r},
         \A id \in Table(op, l, r) : id.dim # 2
  PROVE  Described(BinaryOpType(op, l, r), Binary(op, a, b, size).value)
<1> DEFINE type == BinaryOpType(op, l, r)
           result == Binary(op, a, b, size)
<1>1. CASE op = "by"
  <2>1. type = Id("integer", 1)
    BY <1>1 DEF BinaryOpType
  <2> QED  BY <1>1, <2>1, ByGivesVector
<1>2. CASE op \in EqualityOps \cup LogicalOps \cup ArithmeticOps \cup RelationalOps
           /\ Unknown \notin {l, r}
  <2>1. ASSUME NEW entry, Table(op, l, r) = entry, type = ResultType(entry, l, r)
        PROVE  type \in entry
    <3>1. {Unknown, IdentityNull} \cap {l, r} = {}
      BY <1>2
    <3> QED  BY <2>1, <3>1, TypedByEntry
  <2>2. CASE op \in EqualityOps
    <3>1. type \in Equality(l, r)
      BY <1>2, <2>1, <2>2, OperatorTables
    <3>2. type = Boolean
      BY <3>1 DEF Equality, Entry
    <3> QED  BY <2>2, <3>2, EqualityGivesBoolean, BooleanIsDescribed
  <2>3. CASE op \in LogicalOps
    <3>1. type \in Logical(l, r)
      BY <1>2, <2>1, <2>3, OperatorTables
    <3> QED  BY <2>3, <3>1, LogicalIsDescribed
  <2>4. CASE op \in ArithmeticOps
    <3>1. type \in Arithmetic(l, r)
      BY <1>2, <2>1, <2>4, OperatorTables
    <3> QED  BY <2>4, <3>1, ArithmeticIsDescribed
  <2>5. CASE op \in RelationalOps
    <3>1. type \in Relational(l, r)
      BY <1>2, <2>1, <2>5, OperatorTables
    <3> QED  BY <2>5, <3>1, RelationalIsDescribed
  <2> QED  BY <1>2, <2>2, <2>3, <2>4, <2>5
<1>3. CASE op = "dot" \/ (Unknown \in {l, r} /\ op # "by")
  <2>1. type = Unknown
    BY <1>3 DEF BinaryOpType, ResultType, LogicalOps, ArithmeticOps, RelationalOps, EqualityOps
  <2> QED  BY <2>1 DEF Described, FieldDescribed
<1> QED  BY <1>1, <1>2, <1>3, OperatorsAssumption

(***************************************************************************)
(* Concatenation.                                                          *)
(***************************************************************************)
LEMMA ConcatenatedArrays ==
  ASSUME NEW p, p.kind = "array", NEW q, q.kind = "array", Ok(Concatenated(p, q))
  PROVE  \E elem \in PromotedBetween(p.elem, q.elem) : \E n :
           LET w == Concatenated(p, q).value IN
           w.kind = "array" /\ w.elem = elem /\ w.dims = <<n>>
<1> DEFINE elem == CHOOSE e \in PromotedBetween(p.elem, q.elem) : TRUE
           n == TotalLength(p) + TotalLength(q)
           made == [Array(elem, <<n>>) EXCEPT !.str = p.str \/ q.str]
           r == Concatenated(p, q)
<1>1. PromotedBetween(p.elem, q.elem) # {} /\ r = Fine(made)
  <2> HIDE DEF elem
  <2> QED  BY DEF Concatenated, Fail, Ok, elem
<1>2. elem \in PromotedBetween(p.elem, q.elem)
  BY <1>1
<1> HIDE DEF elem, n, r
<1>3. \A s : LET w == [Array(elem, <<n>>) EXCEPT !.str = s] IN
             w.kind = "array" /\ w.elem = elem /\ w.dims = <<n>>
  BY DEF Array, Record
<1>4. made.kind = "array" /\ made.elem = elem /\ made.dims = <<n>>
  BY Zenon, <1>3
<1> HIDE DEF made
<1>5. r.value = made
  BY <1>1 DEF Fine
<1> QED  BY <1>2, <1>4, <1>5 DEF r

LEMMA ConcatenationEntries ==
  ASSUME NEW l, NEW r, NEW type \in Concatenation(l, r), type.dim # 2
  PROVE  \/ /\ Larger(l, r) = 1 /\ type = Id(Wider(l, r), 1)
            /\ l.base \in Bases /\ r.base \in Bases
            /\ l.base = r.base \/ {l.base, r.base} \subseteq Numbers
         \/ /\ type = String
            /\ l = String /\ r \in {Character, String, Id("character", 1)}
         \/ /\ type = String
            /\ r = String /\ l \in {Character, Id("character", 1)}
         \/ /\ l = IntegerInterval
            /\ r \in {Integer, IntegerInterval, Id("integer", 1), Id("real", 1)}
         \/ r = IntegerInterval /\ l \in {Id("integer", 1), Id("real", 1)}
<1>1. Id(Wider(l, r), 2).dim = 2
  BY IdFields
<1> QED  BY <1>1 DEF Concatenation, Entry, Numbers, Bases

LEMMA ConcatIsDescribed ==
  ASSUME NEW l, NEW r, NEW a, Value(a), Described(l, a), NEW b, Value(b), Described(r, b),
         Ok(Concat(a, b)), IsType(ConcatenationType(l, r)), IdentityNull \notin {l, r},
         \A id \in Table("concat", l, r) : id.dim # 2
  PROVE  Described(ConcatenationType(l, r), Concat(a, b).value)
<1> DEFINE type == ConcatenationType(l, r)
           p == Concrete(a).value
           q == Concrete(b).value
           w == Concat(a, b).value
<1>1. CASE Unknown \in {l, r}
  BY <1>1 DEF ConcatenationType, ResultType, Described, FieldDescribed
<1>2. CASE Unknown \notin {l, r}
  <2> SUFFICES Described(type, w)
    OBVIOUS
  <2>0. Table("concat", l, r) = Concatenation(l, r)
    BY <1>2 DEF Table, LogicalOps, ArithmeticOps, RelationalOps, EqualityOps
  <2>1. type \in Concatenation(l, r) /\ Invalid \notin {l, r} /\ type.dim # 2
    <3>1. {Unknown, IdentityNull} \cap {l, r} = {} /\ type = ResultType(Concatenation(l, r), l, r)
      BY <1>2 DEF ConcatenationType
    <3> HIDE DEF type
    <3>2. IsType(ResultType(Concatenation(l, r), l, r))
      BY <3>1 DEF type
    <3> QED  BY <2>0, <3>1, <3>2, TypedByEntry
  <2>2. Ok(Concrete(a)) /\ Ok(Concrete(b)) /\ Concat(a, b) = Concatenated(p, q)
    BY DEF Concat
  <2>3. Described(l, p) /\ Described(r, q) /\ Value(p) /\ Value(q)
    BY <2>2, ConcreteIsDescribed
  <2>4. Ok(Concatenated(p, q)) /\ w = Concatenated(p, q).value /\ Value(w)
    BY <2>2, ConcatGivesValue
  <2>5. p.kind # "empty" /\ q.kind # "empty"
    BY <1>2, <2>3, DescribedKinds, ValueFields
  <2> HIDE DEF p, q, w, type
  <2>6. IsArray(p) /\ IsArray(q)
    BY <2>4, <2>5 DEF Concatenated, Ok, Fail
  <2>7. p.kind = "array" /\ q.kind = "array"
    BY <2>5, <2>6 DEF IsArray
  <2>8. PICK elem \in PromotedBetween(p.elem, q.elem) :
          \E n : w.kind = "array" /\ w.elem = elem /\ w.dims = <<n>>
    BY <2>4, <2>7, ConcatenatedArrays
  <2>9. l # IntegerInterval /\ r # IntegerInterval
    BY <2>3, <2>7, DescribedByBase, TypeBases
  <2>10. ASSUME elem \in BasicElements
         PROVE  /\ Described(Id(elem, 1), w)
                /\ elem = "character" => Described(String, w)
    <3>1. FlatArray(w)
      BY <2>4, <2>8, <2>10, ValueFields DEF LiteralArray, BasicElements
    <3>2. Len(w.dims) = 1 /\ w.elem = elem
      BY <2>8
    <3> QED  BY <2>10, <3>1, <3>2, PlainIsDescribed DEF Described
  <2>11. CASE /\ type = Id(Wider(l, r), 1)
              /\ l.base \in Bases /\ r.base \in Bases
              /\ l.base = r.base \/ {l.base, r.base} \subseteq Numbers
    <3>1. p.elem = l.base /\ q.elem = r.base
      <4>1. ArrayDescribed(l, p) /\ ArrayDescribed(r, q)
        BY <2>3, <2>11, DescribedByBase
      <4>2. ~IsMixed(p) /\ ~IsMixed(q)
        BY <2>2, ConcreteIsDescribed DEF p, q
      <4> QED  BY <2>7, <4>1, <4>2 DEF ArrayDescribed, IsMixed
    <3>2. PromotedBetween(p.elem, q.elem) = {Wider(l, r)} /\ Wider(l, r) \in Bases
      BY <2>11, <3>1, WiderIsCommon
    <3>3. elem = Wider(l, r) /\ elem \in BasicElements
      BY <2>8, <3>2 DEF Bases, Numbers, BasicElements
    <3> QED  BY <2>10, <2>11, <3>3
  <2>12. CASE type = String /\ l \in {String, Character, Id("character", 1)}
              /\ r \in {String, Character, Id("character", 1)}
    <3>1. ASSUME NEW t \in {String, Character, Id("character", 1)}, NEW v, Described(t, v),
                 v.kind = "array", ~IsMixed(v)
          PROVE  v.elem = "character"
      <4>1. t = String \/ t.base = "character"
        BY TypeBases, IdFields
      <4>2. CASE t = String
        BY <3>1, <4>2, DescribedByBase, TypeBases
      <4>3. CASE t.base = "character"
        <5>1. ArrayDescribed(t, v)
          BY <3>1, <4>3, DescribedByBase DEF Bases
        <5> QED  BY <3>1, <4>3, <5>1 DEF ArrayDescribed, IsMixed
      <4> QED  BY <4>1, <4>2, <4>3
    <3>2. ~IsMixed(p) /\ ~IsMixed(q)
      BY <2>2, ConcreteIsDescribed DEF p, q
    <3>3. p.elem = "character" /\ q.elem = "character"
      BY <2>3, <2>7, <2>12, <3>1, <3>2
    <3>4. elem = "character" /\ elem \in BasicElements
      BY <2>8, <3>3, PromotedIsOneOfTwo DEF BasicElements
    <3> QED  BY <2>10, <2>12, <3>4
  <2> QED  BY <2>1, <2>9, <2>11, <2>12, ConcatenationEntries
<1> QED  BY <1>1, <1>2

(***************************************************************************)
(* Indexing.                                                               *)
(***************************************************************************)

\* What the walk says of how many elements an index picks.
LEMMA IndexLength ==
  ASSUME NEW t, NEW index, Value(index), Described(t, index), Ok(IndexValue(index)),
         t \in Scalars \/ PicksSeveral(t)
  PROVE  Len(IndexValue(index).value.dims) = IF PicksSeveral(t) THEN 1 ELSE 0
<1>1. Id("integer", 1).base = "integer" /\ Id("integer", 1).dim = 1
  BY IdFields
<1>2. CASE t = IntegerInterval
  <2>1. index.kind = "interval"
    BY <1>2, DescribedByBase, TypeBases
  <2> QED  BY <1>2, <2>1, IndexGivesVector DEF PicksSeveral
<1>3. CASE t = Id("integer", 1)
  <2>1. ArrayDescribed(t, index)
    BY <1>1, <1>3, DescribedByBase DEF Bases, Numbers
  <2>2. IsVector(index)
    BY <1>1, <1>3, <2>1 DEF ArrayDescribed, IsVector
  <2> QED  BY <1>3, <2>2, IndexGivesVector DEF PicksSeveral
<1>4. CASE t \in Scalars
  <2>1. t.dim = 0 /\ ~PicksSeveral(t)
    BY <1>1, <1>4, TypeBases DEF Scalars, PicksSeveral
  <2>2. index.kind = "array" /\ Len(index.dims) = 0
    <3>1. CASE t = IdentityNull
      <4>1. IsScalar(index)
        BY <3>1, DescribedByBase, TypeBases
      <4> QED  BY <4>1 DEF IsScalar
    <3>2. CASE t # IdentityNull
      <4>1. t.base \in Bases
        BY <1>4, <3>2, TypeBases DEF Scalars, Bases, Numbers
      <4>2. ArrayDescribed(t, index)
        BY <4>1, DescribedByBase
      <4> QED  BY <2>1, <4>2 DEF ArrayDescribed
    <3> QED  BY <3>1, <3>2
  <2>3. ~(index.kind \in {"empty", "interval"} \/ IsVector(index))
    BY <2>2 DEF IsVector
  <2> QED  BY <2>1, <2>3, IndexGivesVector
<1> QED  BY <1>2, <1>3, <1>4 DEF PicksSeveral

\* How many of one index or of two pick several elements.
LEMMA SeveralOfTwo ==
  ASSUME NEW f
  PROVE  Cardinality({i \in {1, 2} : PicksSeveral(f[i])}) =
           (IF PicksSeveral(f[1]) THEN 1 ELSE 0) + (IF PicksSeveral(f[2]) THEN 1 ELSE 0)
<1> DEFINE P(i) == PicksSeveral(f[i])
           S == {i \in {1, 2} : P(i)}
<1>0. IsFiniteSet({}) /\ Cardinality({}) = 0
  BY FS_EmptySet
<1>1. IsFiniteSet({1}) /\ Cardinality({1}) = 1 /\ Cardinality({2}) = 1
  BY FS_Singleton
<1>2. Cardinality({1} \cup {2}) = 2
  <2>1. 2 \notin {1} /\ 1 + 1 = 2
    OBVIOUS
  <2>2. Cardinality({1} \cup {2}) = IF 2 \in {1} THEN Cardinality({1}) ELSE Cardinality({1}) + 1
    BY <1>1, FS_AddElement
  <2> QED  BY <1>1, <2>1, <2>2
<1>3. CASE P(1) /\ P(2)
  <2>1. S = {1} \cup {2}
    BY <1>3
  <2> QED  BY <1>2, <1>3, <2>1
<1>4. CASE P(1) /\ ~P(2)
  <2>1. S = {1}
    BY <1>4
  <2> QED  BY <1>1, <1>4, <2>1
<1>5. CASE ~P(1) /\ P(2)
  <2>1. S = {2}
    BY <1>5
  <2> QED  BY <1>1, <1>5, <2>1
<1>6. CASE ~P(1) /\ ~P(2)
  <2>1. S = {}
    BY <1>6
  <2> QED  BY <1>0, <1>6, <2>1
<1> QED  BY <1>3, <1>4, <1>5, <1>6

LEMMA IndexIsDescribed ==
  ASSUME NEW t, NEW base, Value(base), Described(t, base),
         NEW n \in 1 .. 2, NEW indices, Elementwise(indices, n), Ok(Indexed(base, indices)),
         NEW types, DOMAIN types = 1 .. n, Len(types) = n,
         \A i \in 1 .. n : Described(types[i], indices[i]), ~BlindIndices(t, types)
  PROVE  Described(IndexType(t, types), Indexed(base, indices).value)
<1> DEFINE w == Indexed(base, indices).value
           length(i) == Len(IndexValue(indices[i]).value.dims)
           several(i) == IF PicksSeveral(types[i]) THEN 1 ELSE 0
<1> SUFFICES Described(IndexType(t, types), w)
  OBVIOUS
<1>0. \A i \in 1 .. n : Value(indices[i])
  BY DEF Elementwise
<1>1. CASE ~(t.base \in Bases /\ t.dim \in {1, 2}) /\ t # String
  <2>1. IndexType(t, types) = Unknown
    BY <1>1 DEF IndexType
  <2> QED  BY <2>1 DEF Described, FieldDescribed
<1>2. CASE (t.base \in Bases /\ t.dim \in {1, 2}) \/ t = String
  <2>1. base.kind = "array" /\ Ok(Concrete(base)) =>
          Concrete(base).value.elem = IF t = String THEN "character" ELSE t.base
    <3>1. CASE t = String
      <4>1. IsVector(base) /\ base.elem = "character"
        BY <3>1, DescribedByBase, TypeBases
      <4> QED  BY <3>1, <4>1 DEF Concrete, IsMixed, Fine
    <3>2. CASE t # String
      BY <1>2, <3>2, ConcreteArray
    <3> QED  BY <3>1, <3>2
  <2>2. base.kind = "array" /\ Len(base.dims) = IF t = String THEN 1 ELSE t.dim
    <3>1. CASE t = String
      BY <3>1, DescribedByBase, TypeBases DEF IsVector
    <3>2. CASE t # String
      BY <1>2, <3>2, DescribedByBase DEF ArrayDescribed
    <3> QED  BY <3>1, <3>2
  <2>3. /\ Len(base.dims) = n /\ FlatArray(w)
        /\ Ok(Concrete(base)) /\ w.elem = Concrete(base).value.elem
        /\ \A i \in 1 .. n : Ok(IndexValue(indices[i]))
        /\ Len(w.dims) = IF n = 1 THEN length(1) ELSE length(1) + length(2)
    BY <2>2, IndexedGivesValue DEF Concrete
  <2>4. \A i \in 1 .. n : types[i] \in Scalars \/ PicksSeveral(types[i])
    BY DEF BlindIndices
  <2>5. \A i \in 1 .. n : length(i) = several(i)
    BY <1>0, <2>3, <2>4, IndexLength
  <2> HIDE DEF w, length
  <2>6. w.elem = (IF t = String THEN "character" ELSE t.base) /\ w.elem \in BasicElements
    BY <1>2, <2>1, <2>2, <2>3 DEF Bases, Numbers, BasicElements
  <2>7. /\ Described(Id(w.elem, Len(w.dims)), w)
        /\ w.elem = "character" /\ Len(w.dims) = 1 => Described(String, w)
    BY <2>3, <2>6, PlainIsDescribed DEF Described
  <2>8. CASE n = 1
    <3>1. Len(w.dims) = several(1)
      <4>1. 1 \in 1 .. n
        OBVIOUS
      <4>2. length(1) = several(1)
        BY <2>5, <4>1
      <4> QED  BY <2>3, <2>8, <4>2
    <3>2. CASE t = String
      <4>1. IndexType(t, types) = IF PicksSeveral(types[1]) THEN String ELSE Character
        BY <3>2, TypeBases DEF IndexType, VectorIndexType, Bases, Numbers
      <4>2. w.elem = "character"
        BY <2>6, <3>2
      <4>3. Character = Id("character", 0)
        BY DEF Character
      <4> QED  BY <2>7, <3>1, <4>1, <4>2, <4>3
    <3>3. CASE t # String
      <4>1. t.base \in Bases /\ t.dim = 1
        BY <1>2, <2>2, <2>3, <2>8, <3>3
      <4>2. IndexType(t, types) = Id(t.base, several(1))
        BY <3>3, <4>1 DEF IndexType, VectorIndexType
      <4>3. w.elem = t.base
        BY <2>6, <3>3
      <4> QED  BY <2>7, <3>1, <4>2, <4>3
    <3> QED  BY <3>2, <3>3
  <2>9. CASE n = 2
    <3>1. Len(w.dims) = several(1) + several(2)
      <4>1. 1 \in 1 .. n /\ 2 \in 1 .. n
        BY <2>9
      <4>2. length(1) = several(1) /\ length(2) = several(2)
        BY <2>5, <4>1
      <4> QED  BY <2>3, <2>9, <4>2
    <3>2. t # String /\ t.base \in Bases /\ t.dim = 2
      <4>1. Len(base.dims) = 2 /\ (t = String => Len(base.dims) = 1)
        BY <2>2, <2>3, <2>9
      <4>2. t # String
        BY <4>1
      <4> QED  BY <1>2, <2>2, <4>1, <4>2
    <3>3. Unknown \notin {types[1], types[2]}
      <4>1. \A u : u \in Scalars \/ PicksSeveral(u) => u # Unknown
        <5>1. \A u : u \in Scalars \/ PicksSeveral(u) => u.base # "unknown"
          BY TypeBases, IdFields DEF Scalars, PicksSeveral
        <5> QED  BY <5>1, TypeBases
      <4> QED  BY <2>4, <2>9, <4>1
    <3> DEFINE pair == <<types[1], types[2]>>
               picked == Cardinality({i \in {1, 2} : PicksSeveral(pair[i])})
    <3>4. picked = several(1) + several(2)
      <4>1. picked = (IF PicksSeveral(pair[1]) THEN 1 ELSE 0) + (IF PicksSeveral(pair[2]) THEN 1 ELSE 0)
        BY SeveralOfTwo
      <4>2. pair[1] = types[1] /\ pair[2] = types[2]
        OBVIOUS
      <4> HIDE DEF pair, picked
      <4> QED  BY <4>1, <4>2
    <3>5. picked # 2
      <4>1. Cardinality({i \in {1, 2} : PicksSeveral(types[i])}) # 2
        <5>1. DOMAIN types = {1, 2}
          BY <2>9
        <5> QED  BY <5>1 DEF BlindIndices
      <4>2. Cardinality({i \in {1, 2} : PicksSeveral(types[i])}) = several(1) + several(2)
        BY SeveralOfTwo
      <4> HIDE DEF picked
      <4> QED  BY <3>4, <4>1, <4>2
    <3>6. IndexType(t, types) = GetType(Id(t.base, picked))
      <4>1. IndexType(t, types) = MatrixIndexType(t, types[1], types[2])
        BY <2>9, <3>2 DEF IndexType
      <4> QED  BY <3>3, <4>1 DEF MatrixIndexType
    <3> HIDE DEF picked
    <3>7. GetType(Id(t.base, picked)) = Id(t.base, picked)
      BY <3>5, IdFields DEF GetType
    <3>8. w.elem = t.base
      BY <2>6, <3>2
    <3> QED  BY <2>7, <3>1, <3>4, <3>6, <3>7, <3>8
  <2>10. n = 1 \/ n = 2
    OBVIOUS
  <2> QED  BY <2>8, <2>9, <2>10
<1> QED  BY <1>1, <1>2

(***************************************************************************)
(* Array literals.                                                         *)
(***************************************************************************)

\* The base of a literal, after one more element.
Widened(so, next) ==
  IF next = Unknown \/ so = Wild THEN so
  ELSE IF so \in {Unknown, Invalid} THEN next
  ELSE IF next = Invalid THEN Wild
  ELSE IF PromotesTo(so, next) THEN next ELSE so

LEMMA LiteralBaseUnfolds ==
  ASSUME NEW types, Len(types) \in 1 .. 2
  PROVE  LiteralBase(types) =
           IF Len(types) = 1 THEN Widened(Unknown, types[1])
           ELSE Widened(Widened(Unknown, types[1]), types[2])
<1> DEFINE m == Len(types)
           Bs(f) == [i \in 0 .. m |-> IF i = 0 THEN Unknown ELSE Widened(f[i - 1], types[i])]
           Fixed == CHOOSE f : f = Bs(f)
           one == Widened(Unknown, types[1])
           g == [i \in 0 .. m |-> IF i = 0 THEN Unknown ELSE IF i = 1 THEN one
                                  ELSE Widened(one, types[2])]
<1>1. LiteralBase(types) = Fixed[m]
  BY Zenon DEF LiteralBase, Widened
<1>2. g = Bs(g)
  <2>1. \A i \in 0 .. m : g[i] = Bs(g)[i]
    <3> SUFFICES ASSUME NEW i \in 0 .. m PROVE g[i] = Bs(g)[i]
      OBVIOUS
    <3>1. i = 0 \/ i = 1 \/ i = 2
      <4>1. m = 1 \/ m = 2
        OBVIOUS
      <4> HIDE DEF m
      <4> QED  BY <4>1
    <3>2. 0 \in 0 .. m /\ 1 \in 0 .. m
      OBVIOUS
    <3>3. g[0] = Unknown /\ g[1] = one
      BY <3>2
    <3>4. CASE i = 0
      BY <3>4
    <3>5. CASE i = 1
      <4>1. Bs(g)[i] = Widened(g[0], types[1])
        <5> HIDE DEF g
        <5> QED  BY <3>5
      <4> QED  BY <3>3, <3>5, <4>1
    <3>6. CASE i = 2
      <4>1. Bs(g)[i] = Widened(g[1], types[2])
        <5> HIDE DEF g
        <5> QED  BY <3>6
      <4>2. g[2] = Widened(one, types[2])
        <5> HIDE DEF one
        <5> QED  BY <3>6
      <4> QED  BY <3>3, <3>6, <4>1, <4>2
    <3> QED  BY <3>1, <3>4, <3>5, <3>6
  <2> QED  BY <2>1
<1>3. Fixed = Bs(Fixed)
  <2> HIDE DEF g
  <2> QED  BY <1>2
<1> HIDE DEF Fixed
<1>4. Fixed[0] = Unknown
  <2>1. 0 \in 0 .. m
    OBVIOUS
  <2> QED  BY <1>3, <2>1
<1>5. Fixed[1] = one
  <2>1. 1 \in 0 .. m /\ 1 # 0 /\ 1 - 1 = 0
    OBVIOUS
  <2>2. Bs(Fixed)[1] = Widened(Fixed[0], types[1])
    BY <2>1
  <2> QED  BY Zenon, <1>3, <1>4, <2>2
<1>6. m = 2 => Fixed[2] = Widened(one, types[2])
  <2> SUFFICES ASSUME m = 2 PROVE Fixed[2] = Widened(one, types[2])
    OBVIOUS
  <2>1. 2 \in 0 .. m /\ 2 # 0 /\ 2 - 1 = 1
    OBVIOUS
  <2>2. Bs(Fixed)[2] = Widened(Fixed[1], types[2])
    BY <2>1
  <2> QED  BY Zenon, <1>3, <1>5, <2>2
<1>7. m = 1 \/ m = 2
  OBVIOUS
<1> HIDE DEF one
<1> QED  BY <1>1, <1>5, <1>6, <1>7 DEF one

\* One item among the others.
Has(items, e) == \E i \in 1 .. Len(items) : items[i] = e

LEMMA BecomesByItem ==
  ASSUME NEW items, NEW b,
         \A e : Has(items, e) /\ (\A f : Has(items, f) => Promotes(e, f)) => e = b
  PROVE  Becomes(items, b)
BY DEF Has, Becomes

LEMMA BecomesItem ==
  ASSUME NEW items, NEW b, Becomes(items, b), NEW e, Has(items, e),
         \A f : Has(items, f) => Promotes(e, f)
  PROVE  e = b
BY DEF Has, Becomes

LEMMA HasJoined ==
  ASSUME NEW S, NEW u \in Seq(S), NEW v \in Seq(S), NEW e
  PROVE  Has(u \o v, e) <=> Has(u, e) \/ Has(v, e)
<1>1. /\ Len(u) \in Nat /\ Len(v) \in Nat /\ Len(u \o v) = Len(u) + Len(v)
      /\ \A i \in 1 .. Len(u) + Len(v) :
           (u \o v)[i] = IF i <= Len(u) THEN u[i] ELSE v[i - Len(u)]
  OBVIOUS
<1>2. ASSUME Has(u \o v, e) PROVE Has(u, e) \/ Has(v, e)
  <2>1. PICK i \in 1 .. Len(u) + Len(v) : (u \o v)[i] = e
    BY <1>1, <1>2 DEF Has
  <2>2. CASE i <= Len(u)
    <3>1. i \in 1 .. Len(u) /\ u[i] = e
      BY <1>1, <2>1, <2>2
    <3> QED  BY <3>1 DEF Has
  <2>3. CASE ~(i <= Len(u))
    <3>1. i - Len(u) \in 1 .. Len(v) /\ v[i - Len(u)] = e
      BY <1>1, <2>1, <2>3
    <3> QED  BY <3>1 DEF Has
  <2> QED  BY <2>2, <2>3
<1>3. ASSUME Has(u, e) PROVE Has(u \o v, e)
  <2>1. PICK i \in 1 .. Len(u) : u[i] = e
    BY <1>3 DEF Has
  <2>2. i \in 1 .. Len(u) + Len(v) /\ (u \o v)[i] = e
    BY <1>1, <2>1
  <2> QED  BY <1>1, <2>2 DEF Has
<1>4. ASSUME Has(v, e) PROVE Has(u \o v, e)
  <2>1. PICK i \in 1 .. Len(v) : v[i] = e
    BY <1>4 DEF Has
  <2>2. Len(u) + i \in 1 .. Len(u) + Len(v) /\ ~(Len(u) + i <= Len(u)) /\ Len(u) + i - Len(u) = i
    BY <1>1, <2>1
  <2>3. (u \o v)[Len(u) + i] = e
    BY <1>1, <2>1, <2>2
  <2> QED  BY <1>1, <2>2, <2>3 DEF Has
<1> QED  BY <1>2, <1>3, <1>4

\* A row that will have one type, which one of its items has; and one that has
\* none yet.
RowOf(own, b) ==
  /\ b \in Bases /\ Has(own, b)
  /\ \A e : Has(own, e) /\ (\A f : Has(own, f) => Promotes(e, f)) => e = b

NullRow(own) == (\E e : Has(own, e)) /\ \A e : Has(own, e) => e \in NullOrIdentity

LEMMA UniformHas ==
  ASSUME NEW n \in Nat \ {0}, NEW e, NEW s, s = [i \in 1 .. n |-> e]
  PROVE  \A f : Has(s, f) <=> f = e
<1>1. Len(s) = n /\ 1 \in 1 .. n /\ \A i \in 1 .. n : s[i] = e
  OBVIOUS
<1> QED  BY <1>1 DEF Has

LEMMA RowIsDescribed ==
  ASSUME NEW t, NEW v, Value(v), Described(t, v), v.kind # "tuple", TotalLength(v) # 0
  PROVE  /\ t.dim = 1 => /\ t.base \in Bases /\ t = Id(t.base, 1) /\ IsVector(v)
                         /\ RowOf(Own(v), t.base)
         /\ t = IntegerInterval => v.kind = "interval" /\ RowOf(Own(v), "integer")
         /\ t = Invalid /\ IsMixed(v) /\ IsVector(v) => NullRow(Own(v))
<1>1. ASSUME t.dim = 1
      PROVE  t.base \in Bases /\ t = Id(t.base, 1) /\ IsVector(v) /\ RowOf(Own(v), t.base)
  <2>1. t.base \in Bases
    <3>1. TupleDescribed(t, v) => t.dim = 0
      BY TupleIdFields DEF TupleDescribed
    <3> QED  BY <1>1, <3>1, DescribedByBase, TypeBases
  <2>2. ArrayDescribed(t, v)
    BY <2>1, DescribedByBase
  <2>3. t = Id(t.base, 1) /\ v.kind = "array" /\ Len(v.dims) = 1
    BY <1>1, <2>2 DEF ArrayDescribed, IsArrayType
  <2>4. CASE v.elem = "mixed"
    <3>1. Own(v) = v.items
      BY <2>3, <2>4 DEF Own, ElementsOf, IsMixed
    <3>2. Becomes(v.items, t.base) /\ \E i \in 1 .. Len(v.items) : v.items[i] = t.base
      BY <1>1, <2>2, <2>4 DEF ArrayDescribed
    <3>3. Has(v.items, t.base)
      BY <3>2 DEF Has
    <3>4. \A e : Has(v.items, e) /\ (\A f : Has(v.items, f) => Promotes(e, f)) => e = t.base
      BY <3>2, BecomesItem
    <3> QED  BY <2>1, <2>3, <3>1, <3>3, <3>4 DEF RowOf, IsVector
  <2>5. CASE v.elem # "mixed"
    <3>1. v.elem = t.base
      BY <2>2, <2>5 DEF ArrayDescribed
    <3>2. Own(v) = [i \in 1 .. TotalLength(v) |-> v.elem]
      BY <2>3, <2>5 DEF Own, ElementsOf, IsMixed
    <3>3. TotalLength(v) \in Nat \ {0}
      BY <2>3, ValueFields, TotalLengthIsNatural
    <3>5. \A f : Has(Own(v), f) <=> f = v.elem
      BY <3>2, <3>3, UniformHas
    <3>4. \A f : Has(Own(v), f) <=> f = t.base
      BY <3>1, <3>5
    <3> QED  BY <2>1, <2>3, <3>4 DEF RowOf, IsVector
  <2> QED  BY <2>4, <2>5
<1>2. ASSUME t = IntegerInterval PROVE v.kind = "interval" /\ RowOf(Own(v), "integer")
  <2>1. v.kind = "interval"
    BY <1>2, DescribedByBase, TypeBases
  <2>2. v.dims[1] \in Nat \ {0} /\ Own(v) = [j \in 1 .. v.dims[1] |-> "integer"]
    BY <2>1, ValueFields DEF IsInterval, Own
  <2>3. \A f : Has(Own(v), f) <=> f = "integer"
    BY <2>2, UniformHas
  <2> QED  BY <2>1, <2>3 DEF RowOf, Bases, Numbers
<1>3. ASSUME t = Invalid, IsMixed(v), IsVector(v) PROVE NullRow(Own(v))
  <2>1. Own(v) = v.items
    BY <1>3 DEF Own, ElementsOf, IsMixed
  <2>2. \A i \in 1 .. Len(v.items) : v.items[i] \in NullOrIdentity
    BY <1>3, DescribedByBase, TypeBases
  <2>3. LiteralArray(v)
    BY <1>3, ValueFields, FlatArrayFields DEF IsMixed
  <2>4. Len(v.items) # 0 /\ Len(v.items) \in Nat
    BY <2>3 DEF LiteralArray
  <2>5. Has(v.items, v.items[1])
    <3>1. 1 \in 1 .. Len(v.items)
      BY <2>4
    <3> QED  BY <3>1 DEF Has
  <2> QED  BY <2>1, <2>2, <2>5 DEF NullRow, Has
<1> QED  BY <1>1, <1>2, <1>3

\* The rows of a matrix, and the nulls that fill them up, become what the
\* first row becomes, or wider.
LEMMA RowsBecome ==
  ASSUME NEW s, NEW u, NEW w, NEW c, RowOf(w, c),
         \A e : Has(u, e) \/ Has(w, e) => Has(s, e),
         \A e : Has(s, e) => Has(u, e) \/ Has(w, e) \/ e = "null"
  PROVE  /\ NullRow(u) => Becomes(s, c)
         /\ \A b : RowOf(u, b) => Becomes(s, IF b = "integer" /\ c = "real" THEN "real" ELSE b)
<1>0. \A f \in Bases : /\ f \notin NullOrIdentity
                       /\ \A e : Promotes(e, f) => e = f \/ (e = "real" /\ f = "integer")
  BY DEF Bases, Numbers, NullOrIdentity, Promotes
<1>1. "null" \notin Bases
  BY DEF Bases, Numbers
<1>2. ASSUME NullRow(u) PROVE Becomes(s, c)
  <2> SUFFICES ASSUME NEW e, Has(s, e), \A f : Has(s, f) => Promotes(e, f) PROVE e = c
    BY BecomesByItem
  <2>1. Promotes(e, c) /\ c \in Bases
    BY DEF RowOf
  <2>2. Has(w, e)
    <3>1. e \notin NullOrIdentity /\ "null" \in NullOrIdentity
      <4>1. e = c \/ e = "real"
        BY <1>0, <2>1
      <4> QED  BY <1>0, <2>1, <4>1 DEF NullOrIdentity
    <3> QED  BY <1>2, <3>1 DEF NullRow
  <2>3. \A f : Has(w, f) => Promotes(e, f)
    OBVIOUS
  <2> QED  BY <2>2, <2>3 DEF RowOf
<1>3. ASSUME NEW b, RowOf(u, b)
      PROVE  Becomes(s, IF b = "integer" /\ c = "real" THEN "real" ELSE b)
  <2> SUFFICES ASSUME NEW e, Has(s, e), \A f : Has(s, f) => Promotes(e, f)
               PROVE  e = IF b = "integer" /\ c = "real" THEN "real" ELSE b
    BY BecomesByItem
  <2>1. Promotes(e, b) /\ b \in Bases /\ Promotes(e, c) /\ c \in Bases
    BY <1>3 DEF RowOf
  <2>2. (e = b \/ (e = "real" /\ b = "integer")) /\ (e = c \/ (e = "real" /\ c = "integer"))
    BY <1>0, <2>1
  <2>3. e # "null"
    BY <1>1, <2>1, <2>2
  <2>4. Has(u, e) => e = b
    BY <1>3 DEF RowOf
  <2>5. Has(w, e) => e = c
    BY DEF RowOf
  <2> QED  BY <2>2, <2>3, <2>4, <2>5
<1> QED  BY <1>2, <1>3

LEMMA ScalarTypes ==
  ASSUME NEW t \in Scalars, NEW v, Value(v), Described(t, v)
  PROVE  /\ IsScalar(v)
         /\ t = IdentityNull => v.elem \in NullOrIdentity
         /\ t # IdentityNull => t.base \in Bases /\ v.elem = t.base
         /\ t = Id(t.base, 0) /\ t.dim = 0
<1>0. t = Id(t.base, 0) /\ t.dim = 0
  BY TypeBases DEF Scalars
<1>1. CASE t = IdentityNull
  BY <1>0, <1>1, DescribedByBase, TypeBases
<1>2. CASE t # IdentityNull
  <2>1. t.base \in Bases
    BY <1>2, TypeBases DEF Scalars, Bases, Numbers
  <2>2. ArrayDescribed(t, v)
    BY <2>1, DescribedByBase
  <2>3. v.kind = "array" /\ Len(v.dims) = 0
    BY <1>0, <2>2 DEF ArrayDescribed
  <2>4. IsScalar(v)
    BY <2>3, ValueFields DEF IsScalar
  <2>5. v.elem # "mixed"
    BY <2>4, ScalarFields, FlatArrayFields
  <2> QED  BY <1>0, <1>2, <2>1, <2>2, <2>4, <2>5 DEF ArrayDescribed
<1> QED  BY <1>1, <1>2

\* The base of one scalar or two: the null type or a base that the others fit.
LEMMA ScalarBase ==
  ASSUME NEW n \in 1 .. 2, NEW types, Len(types) = n, \A i \in 1 .. n : types[i] \in Scalars
  PROVE  LET base == LiteralBase(types) IN
         /\ base \in Scalars
         /\ base = IdentityNull => \A i \in 1 .. n : types[i] = IdentityNull
         /\ base # IdentityNull =>
              /\ \E i \in 1 .. n : types[i] = base
              /\ \A i \in 1 .. n : \/ types[i] \in {base, IdentityNull}
                                   \/ types[i] = Integer /\ base = Real
                                   \/ ~Promotes(types[i].base, base.base)
<1> DEFINE base == LiteralBase(types)
<1>0. \A t \in Scalars : /\ t \notin {Unknown, Invalid, Wild} /\ t = Id(t.base, 0) /\ t.dim = 0
                         /\ t # IdentityNull => t.base \in Bases
  BY TypeBases DEF Scalars, Bases, Numbers
<1>1. 1 \in 1 .. n /\ types[1] \in Scalars /\ (n = 2 => 2 \in 1 .. n /\ types[2] \in Scalars)
  OBVIOUS
<1>2. base = IF n = 1 THEN types[1]
             ELSE IF PromotesTo(types[1], types[2]) THEN types[2] ELSE types[1]
  <2>1. Widened(Unknown, types[1]) = types[1]
    BY <1>0, <1>1, TypeBases DEF Widened
  <2>2. n = 2 => Widened(types[1], types[2]) =
                   IF PromotesTo(types[1], types[2]) THEN types[2] ELSE types[1]
    BY <1>0, <1>1 DEF Widened
  <2>3. n = 1 \/ n = 2
    OBVIOUS
  <2> QED  BY <2>1, <2>2, <2>3, LiteralBaseUnfolds
<1> HIDE DEF base
<1>3. ASSUME NEW s \in Scalars, NEW t \in Scalars
      PROVE  /\ s = IdentityNull /\ t # IdentityNull => PromotesTo(s, t)
             /\ PromotesTo(s, t) => (s = IdentityNull /\ t # IdentityNull) \/ (s = Integer /\ t = Real)
             /\ t = IdentityNull => ~PromotesTo(s, t)
             /\ s = Integer /\ t = Real => PromotesTo(s, t)
             /\ s # IdentityNull /\ t # IdentityNull /\ s # t /\ ~PromotesTo(s, t) =>
                  ~Promotes(t.base, s.base)
  <2>1. s = Id(s.base, 0) /\ t = Id(t.base, 0) /\ s.dim = 0 /\ t.dim = 0
    BY <1>0
  <2>2. s = IdentityNull /\ t # IdentityNull => PromotesTo(s, t)
    BY TypeBases DEF PromotesTo, Scalars
  <2>3. PromotesTo(s, t) => (s = IdentityNull /\ t # IdentityNull) \/ (s = Integer /\ t = Real)
    BY <2>1, TypeBases, IdFields DEF PromotesTo, Scalars
  <2>4. s = Integer /\ t = Real => PromotesTo(s, t)
    BY <2>1, TypeBases DEF PromotesTo
  <2>5. s # IdentityNull /\ t # IdentityNull /\ s # t /\ ~PromotesTo(s, t) =>
                  ~Promotes(t.base, s.base)
    <3> SUFFICES ASSUME s # IdentityNull, t # IdentityNull, s # t, Promotes(t.base, s.base)
                 PROVE  PromotesTo(s, t)
      OBVIOUS
    <3>1. s.base \in Bases /\ t.base \in Bases /\ s.base # t.base
      BY <1>0, <2>1
    <3>2. s.base = "integer" /\ t.base = "real"
      BY <3>1 DEF Promotes, Bases, Numbers, NullOrIdentity
    <3>3. s = Integer /\ t = Real
      BY <2>1, <3>2 DEF Integer, Real
    <3> QED  BY <2>4, <3>3
  <2> QED  BY <2>2, <2>3, <2>4, <2>5, TypeBases
<1>4. CASE n = 1
  <2>1. base = types[1] /\ \A i \in 1 .. n : i = 1
    BY <1>2, <1>4
  <2> QED  BY <1>1, <2>1 DEF base
<1>5. CASE n = 2
  <2>1. \A i \in 1 .. n : i = 1 \/ i = 2
    BY <1>5
  <2>2. CASE PromotesTo(types[1], types[2])
    <3>1. base = types[2]
      BY <1>2, <1>5, <2>2
    <3>2. types[1] = IdentityNull \/ (types[1] = Integer /\ types[2] = Real)
      BY <1>1, <1>3, <1>5, <2>2
    <3> QED  BY <1>1, <1>3, <1>5, <2>1, <2>2, <3>1, <3>2 DEF base
  <2>3. CASE ~PromotesTo(types[1], types[2])
    <3>1. base = types[1]
      BY <1>2, <1>5, <2>3
    <3>2. types[1] = IdentityNull => types[2] = IdentityNull
      BY <1>1, <1>3, <1>5, <2>3
    <3>3. types[1] # IdentityNull =>
            types[2] \in {types[1], IdentityNull} \/ ~Promotes(types[2].base, types[1].base)
      BY <1>1, <1>3, <1>5, <2>3
    <3> QED  BY <1>1, <1>5, <2>1, <3>1, <3>2, <3>3 DEF base
  <2> QED  BY <2>2, <2>3
<1>6. n = 1 \/ n = 2
  OBVIOUS
<1> QED  BY <1>4, <1>5, <1>6

LEMMA VectorIsDescribed ==
  ASSUME NEW n \in 1 .. 2, NEW elements, Elementwise(elements, n), Ok(VectorLiteral(elements)),
         NEW types, Len(types) = n,
         \A i \in 1 .. n : types[i] \in Scalars /\ Described(types[i], elements[i])
  PROVE  Described(VectorLiteralType(types, FALSE), VectorLiteral(elements).value)
<1> DEFINE s == [i \in 1 .. n |-> elements[i].elem]
           w == Mixed(<<n>>, s)
           base == LiteralBase(types)
           type == VectorLiteralType(types, FALSE)
<1>0. n \in Nat \ {0} /\ \A i \in 1 .. n : Value(elements[i])
  BY DEF Elementwise
<1>1. \A i \in 1 .. n : /\ IsScalar(elements[i])
                        /\ types[i] = IdentityNull => elements[i].elem \in NullOrIdentity
                        /\ types[i] # IdentityNull =>
                             types[i].base \in Bases /\ elements[i].elem = types[i].base
  BY <1>0, ScalarTypes
<1>2. VectorLiteral(elements).value = w
  BY <1>0, <1>1, VectorLiteralGivesValue
<1>3. /\ w.kind = "array" /\ w.elem = "mixed" /\ w.dims = <<n>> /\ w.items = s
      /\ Len(s) = n /\ \A i \in 1 .. n : s[i] = elements[i].elem
  <2>1. Len(s) = n /\ \A i \in 1 .. n : s[i] = elements[i].elem
    OBVIOUS
  <2> HIDE DEF s
  <2>2. w.kind = "array" /\ w.elem = "mixed" /\ w.dims = <<n>> /\ w.items = s
    <3>1. \A d, u : LET v == Mixed(d, u) IN
                    v.kind = "array" /\ v.elem = "mixed" /\ v.dims = d /\ v.items = u
      BY DEF Mixed, Record
    <3> QED  BY Zenon, <3>1
  <2> HIDE DEF w
  <2> QED  BY <2>1, <2>2
<1>4. /\ base \in Scalars
      /\ base = IdentityNull => \A i \in 1 .. n : types[i] = IdentityNull
      /\ base # IdentityNull =>
           /\ \E i \in 1 .. n : types[i] = base
           /\ \A i \in 1 .. n : \/ types[i] \in {base, IdentityNull}
                                \/ types[i] = Integer /\ base = Real
                                \/ ~Promotes(types[i].base, base.base)
  BY ScalarBase
<1> HIDE DEF base, s, w
<1>5. base \notin {Unknown, Invalid, Wild} /\ base.base # "tuple" /\ base # String /\ base.dim = 0
  BY <1>4, TypeBases DEF Scalars
<1>6. type = MatrixType(base, 1)
  BY <1>5 DEF VectorLiteralType, base
<1> HIDE DEF type
<1>7. CASE base = IdentityNull
  <2>1. type = Invalid
    BY <1>5, <1>6, <1>7, TypeBases DEF MatrixType, Bases, Numbers
  <2>2. \A i \in 1 .. n : s[i] \in NullOrIdentity
    BY <1>1, <1>3, <1>4, <1>7
  <2>3. FieldDescribed(Invalid, w)
    BY <1>3, <2>2 DEF FieldDescribed
  <2> QED  BY <1>2, <2>1, <2>3 DEF Described, type
<1>8. CASE base # IdentityNull
  <2>1. base.base \in Bases
    BY <1>4, <1>8, TypeBases DEF Scalars, Bases, Numbers
  <2>2. type = Id(base.base, 1)
    BY <1>5, <1>6, <2>1 DEF MatrixType
  <2>3. type.base = base.base /\ type.dim = 1 /\ IsArrayType(type)
    <3>1. type.base = base.base /\ type.dim = 1 /\ 1 \in 0 .. 2
      BY <2>2, IdFields
    <3> QED  BY <2>1, <2>2, <3>1 DEF IsArrayType
  <2>4. PICK k \in 1 .. n : s[k] = base.base
    BY <1>1, <1>3, <1>4, <1>8
  <2>5. Becomes(s, base.base)
    <3> SUFFICES ASSUME NEW i \in 1 .. n, \A j \in 1 .. n : Promotes(s[i], s[j])
                 PROVE  s[i] = base.base
      BY <1>3 DEF Becomes
    <3>1. Promotes(s[i], base.base)
      BY <2>4
    <3>2. s[i] \notin NullOrIdentity
      BY <2>1, <3>1 DEF Promotes, NullOrIdentity, BasicElements, Bases, Numbers
    <3>3. types[i] # IdentityNull /\ s[i] = types[i].base
      BY <1>1, <1>3, <3>2
    <3>4. CASE types[i] = Integer /\ base = Real
      <4>1. s[i] = "integer" /\ base.base = "real"
        BY <3>3, <3>4, TypeBases
      <4>2. ~Promotes("integer", "real")
        BY DEF Promotes, NullOrIdentity, BasicElements
      <4> QED  BY <3>1, <4>1, <4>2
    <3>5. CASE types[i] = base
      BY <3>3, <3>5
    <3> QED  BY <1>4, <1>8, <3>1, <3>3, <3>4, <3>5
  <2>6. ArrayDescribed(type, w)
    <3>1. w.elem # type.base
      BY <1>3, <2>1, <2>3 DEF Bases, Numbers
    <3>2. Len(w.dims) = 1 /\ Len(w.items) # 0
      BY <1>0, <1>3
    <3>3. \E i \in 1 .. Len(w.items) : w.items[i] = type.base
      BY <1>3, <2>3, <2>4
    <3> QED  BY <1>3, <2>3, <2>5, <3>2, <3>3 DEF ArrayDescribed
  <2> QED  BY <1>2, <2>6 DEF Described, FieldDescribed, type
<1> QED  BY <1>7, <1>8

\* The items of a matrix: those of its rows, and nulls.
LEMMA MatrixItems ==
  ASSUME NEW n \in 1 .. 2, NEW elements, Elementwise(elements, n), Ok(MatrixLiteral(elements)),
         \A i \in 1 .. n : ~IsScalar(elements[i])
  PROVE  LET w == MatrixLiteral(elements).value IN
         /\ w.kind = "array" /\ w.elem = "mixed" /\ Len(w.dims) = 2
         /\ \A i \in 1 .. n : elements[i].kind # "tuple"
         /\ \A e : /\ \A i \in 1 .. n : Has(Own(elements[i]), e) => Has(w.items, e)
                   /\ Has(w.items, e) => e = "null" \/ \E i \in 1 .. n : Has(Own(elements[i]), e)
<1> DEFINE w == MatrixLiteral(elements).value
<1>0. n \in Nat \ {0} /\ \A i \in 1 .. n : Value(elements[i])
  BY DEF Elementwise
<1>1. /\ LiteralArray(w) /\ Len(w.dims) = 2
      /\ \A i \in 1 .. n : elements[i].kind # "tuple"
      /\ \E rows : /\ w.items = FlattenSeq(rows) /\ Len(rows) = n
                   /\ \A i \in 1 .. n :
                        /\ rows[i] \in Seq(Elements)
                        /\ IsScalar(elements[i]) \/ Padded(rows[i], Own(elements[i]))
  BY <1>0, MatrixLiteralGivesValue
<1> HIDE DEF w
<1>2. PICK rows : /\ w.items = FlattenSeq(rows) /\ Len(rows) = n
                  /\ \A i \in 1 .. n : rows[i] \in Seq(Elements) /\ Padded(rows[i], Own(elements[i]))
  BY <1>1
<1>3. ASSUME NEW i \in 1 .. n, NEW e
      PROVE  /\ Has(Own(elements[i]), e) => Has(rows[i], e)
             /\ Has(rows[i], e) => Has(Own(elements[i]), e) \/ e = "null"
  <2>1. Own(elements[i]) \in Seq(Elements)
    BY <1>0, <1>1, OwnElements
  <2>2. PICK rest \in Seq({"null"}) : rows[i] = Own(elements[i]) \o rest
    BY <1>2 DEF Padded
  <2>3. rest \in Seq(Elements) /\ \A j \in 1 .. Len(rest) : rest[j] = "null"
    BY <2>2 DEF Elements, NullOrIdentity
  <2>4. Has(rest, e) => e = "null"
    BY <2>3 DEF Has
  <2>5. Has(rows[i], e) <=> Has(Own(elements[i]), e) \/ Has(rest, e)
    BY <2>1, <2>2, <2>3, HasJoined
  <2> QED  BY <2>4, <2>5
<1>4. ASSUME NEW e PROVE Has(w.items, e) <=> \E i \in 1 .. n : Has(rows[i], e)
  <2>1. CASE n = 1
    <3>1. w.items = rows[1]
      BY <1>2, <2>1, Flattened
    <3> QED  BY <2>1, <3>1
  <2>2. CASE n = 2
    <3>1. w.items = rows[1] \o rows[2]
      <4>1. Len(rows) = 2 /\ Len(rows) \in 1 .. 2 /\ Len(rows) # 1
        BY <1>2, <2>2
      <4>2. FlattenSeq(rows) = IF Len(rows) = 1 THEN rows[1] ELSE rows[1] \o rows[2]
        BY <4>1, Flattened
      <4> QED  BY Zenon, <1>2, <4>1, <4>2
    <3>2. rows[1] \in Seq(Elements) /\ rows[2] \in Seq(Elements)
      BY <1>2, <2>2
    <3>3. Has(w.items, e) <=> Has(rows[1], e) \/ Has(rows[2], e)
      BY <3>1, <3>2, HasJoined
    <3>4. \A i \in 1 .. n : i = 1 \/ i = 2
      BY <2>2
    <3> QED  BY <2>2, <3>3, <3>4
  <2>3. n = 1 \/ n = 2
    OBVIOUS
  <2> QED  BY <2>1, <2>2, <2>3
<1>5. \A e : /\ \A i \in 1 .. n : Has(Own(elements[i]), e) => Has(w.items, e)
             /\ Has(w.items, e) => e = "null" \/ \E i \in 1 .. n : Has(Own(elements[i]), e)
  BY <1>3, <1>4
<1> QED  BY <1>1, <1>5 DEF w, LiteralArray

\* A row as BlindLiteral has it, and the walk knows what it is.
IsRowType(t) == t.dim = 1 \/ t \in {IntegerInterval, Invalid}

\* Two rows of known types make a matrix of the wider base.
LEMMA MatrixTypes ==
  ASSUME NEW first, NEW next, first = Invalid \/ (first.base \in Bases /\ first = Id(first.base, 1)),
         \/ next \in {IntegerInterval, Invalid}
         \/ next.base \in Bases /\ next = Id(next.base, 1)
  PROVE  LET base == Widened(first, next) IN
         /\ Widened(Unknown, first) = first
         /\ first = Invalid => base = next
         /\ first # Invalid /\ next = Invalid => base = Wild
         /\ first # Invalid /\ next = IntegerInterval => base = first
         /\ first # Invalid /\ next.base \in Bases =>
              base = Id(IF first.base = "integer" /\ next.base = "real" THEN "real" ELSE first.base, 1)
<1>0. first \notin {Unknown, Wild} /\ next \notin {Unknown, Wild}
  BY TypeBases, IdFields DEF Bases, Numbers
<1>1. /\ Widened(Unknown, first) = first
      /\ first = Invalid => Widened(first, next) = next
      /\ first # Invalid /\ next = Invalid => Widened(first, next) = Wild
      /\ first # Invalid /\ next # Invalid =>
           Widened(first, next) = IF PromotesTo(first, next) THEN next ELSE first
  BY <1>0, TypeBases DEF Widened
<1>2. ASSUME first # Invalid, next = IntegerInterval PROVE ~PromotesTo(first, next)
  BY <1>2, TypeBases, IdFields DEF PromotesTo, Bases, Numbers
<1>3. ASSUME first # Invalid, next.base \in Bases
      PROVE  PromotesTo(first, next) <=> first.base = "integer" /\ next.base = "real"
  <2>1. first.dim = 1 /\ next.dim = 1 /\ next = Id(next.base, 1) /\ first = Id(first.base, 1)
    BY <1>3, TypeBases, IdFields DEF Bases, Numbers
  <2>2. first \notin {IdentityNull, Character, String, IntegerInterval}
        /\ next \notin {String, Id("boolean", 2)}
    BY <2>1, TypeBases, IdFields
  <2>3. PromotesTo(first, next) <=> first.base = "integer" /\ next.base = "real"
    BY <2>1, <2>2 DEF PromotesTo
  <2> QED  BY <2>3
<1>4. next.base \in Bases => next # Invalid /\ next = Id(next.base, 1)
  BY TypeBases DEF Bases, Numbers
<1>5. IntegerInterval # Invalid
  BY TypeBases
<1> QED  BY <1>1, <1>2, <1>3, <1>4, <1>5

LEMMA MatrixIsDescribed ==
  ASSUME NEW n \in 1 .. 2, NEW elements, Elementwise(elements, n), Ok(VectorLiteral(elements)),
         NEW types, Len(types) = n, IsType(VectorLiteralType(types, TRUE)),
         IsMixed(elements[1]),
         \A i \in 1 .. n : /\ Described(types[i], elements[i])
                           /\ IsRowType(types[i]) /\ TotalLength(elements[i]) # 0
  PROVE  Described(VectorLiteralType(types, TRUE), VectorLiteral(elements).value)
<1> DEFINE w == VectorLiteral(elements).value
           base == LiteralBase(types)
           type == VectorLiteralType(types, TRUE)
           first == elements[1]
<1>0. n \in Nat \ {0} /\ 1 \in 1 .. n /\ \A i \in 1 .. n : Value(elements[i])
  BY DEF Elementwise
<1>1. /\ first.kind = "array" /\ first.elem = "mixed" /\ ~IsScalar(first)
  BY <1>0, ScalarFields, FlatArrayFields DEF IsMixed
<1>2. VectorLiteral(elements) = MatrixLiteral(elements) /\ IsVector(first)
  BY <1>0, <1>1, VectorLiteralGivesValue
<1>3. \A i \in 1 .. n : elements[i].kind # "tuple"
  BY <1>0, <1>2, MatrixLiteralGivesValue

\* The first row.
<1>4. \/ types[1] = Invalid /\ NullRow(Own(first))
      \/ /\ types[1].base \in Bases /\ types[1] = Id(types[1].base, 1)
         /\ RowOf(Own(first), types[1].base)
  <2>1. types[1] # IntegerInterval
    BY <1>0, <1>1, DescribedByBase, TypeBases
  <2>2. Value(first) /\ Described(types[1], first) /\ first.kind # "tuple" /\ TotalLength(first) # 0
        /\ IsRowType(types[1]) /\ IsMixed(first)
    BY <1>0, <1>3
  <2> HIDE DEF first
  <2> QED  BY <1>2, <2>1, <2>2, RowIsDescribed DEF IsRowType
<1>5. ASSUME n = 2
      PROVE  \/ types[2] = Invalid
             \/ types[2] = IntegerInterval /\ RowOf(Own(elements[2]), "integer") /\ ~IsScalar(elements[2])
             \/ /\ types[2].base \in Bases /\ types[2] = Id(types[2].base, 1)
                /\ RowOf(Own(elements[2]), types[2].base) /\ ~IsScalar(elements[2])
  <2> DEFINE v == elements[2]
             t == types[2]
  <2>1. 2 \in 1 .. n
    BY <1>5
  <2>2. Value(v) /\ Described(t, v) /\ v.kind # "tuple" /\ TotalLength(v) # 0 /\ IsRowType(t)
    BY <1>0, <1>3, <2>1
  <2> HIDE DEF v, t
  <2>3. t = IntegerInterval => RowOf(Own(v), "integer") /\ ~IsScalar(v)
    BY <2>2, RowIsDescribed DEF IsScalar
  <2>4. t.dim = 1 => /\ t.base \in Bases /\ t = Id(t.base, 1) /\ RowOf(Own(v), t.base)
                     /\ ~IsScalar(v)
    <3>1. Len(<<>>) = 0
      OBVIOUS
    <3>2. IsVector(v) => ~IsScalar(v)
      <4>1. v.dims = <<>> => Len(v.dims) = 0
        BY Zenon, <3>1
      <4>2. v.dims = <<>> => Len(v.dims) # 1
        BY <4>1
      <4> QED  BY Zenon, <4>2 DEF IsScalar, IsVector
    <3> QED  BY <2>2, <3>2, RowIsDescribed
  <2> QED  BY <2>2, <2>3, <2>4 DEF IsRowType, v, t
<1>6. base = IF n = 1 THEN Widened(Unknown, types[1])
             ELSE Widened(Widened(Unknown, types[1]), types[2])
  BY LiteralBaseUnfolds
<1>7. type = IF base \in {Unknown, Invalid} THEN Unknown
             ELSE IF base = Wild \/ base.base = "tuple" THEN Wild
             ELSE IF base.dim = 1 THEN MatrixType(Id(base.base, 0), 2) ELSE MatrixType(base, 2)
  BY DEF VectorLiteralType
<1>8. n = 1 \/ n = 2
  OBVIOUS
<1> HIDE DEF base, type
<1>9. CASE type \in {Unknown, Invalid}
  <2>1. w.kind = "array" /\ Len(w.dims) = 2
    <3>1. LiteralArray(MatrixLiteral(elements).value) /\ Len(MatrixLiteral(elements).value.dims) = 2
      BY <1>0, <1>2, MatrixLiteralGivesValue
    <3> QED  BY <1>2, <3>1 DEF LiteralArray
  <2>2. FieldDescribed(type, w)
    BY <1>9, <2>1 DEF FieldDescribed, IsVector
  <2> QED  BY <2>2 DEF Described, type
<1>10. ASSUME NEW d \in Bases, base = Id(d, 1),
              \A i \in 1 .. n : ~IsScalar(elements[i]), Becomes(w.items, d)
       PROVE  Described(type, w)
  <2>1. base.base = d /\ base.dim = 1 /\ base \notin {Unknown, Invalid, Wild} /\ d # "tuple"
    BY <1>10, TypeBases, IdFields DEF Bases, Numbers
  <2>2. type = MatrixType(Id(d, 0), 2)
    BY <1>7, <2>1
  <2>3. type = Id(d, 2)
    BY <1>10, <2>2, IdFields DEF MatrixType
  <2>4. type.base = d /\ type.dim = 2 /\ type = Id(type.base, type.dim)
    BY <2>3, IdFields
  <2>5. /\ w.kind = "array" /\ w.elem = "mixed" /\ Len(w.dims) = 2
        /\ \A e : Has(Own(first), e) => Has(w.items, e)
    BY <1>0, <1>2, <1>10, MatrixItems
  <2>6. \E e : Has(Own(first), e)
    BY <1>4 DEF RowOf, NullRow
  <2>7. Len(w.items) # 0
    <3>1. PICK e : Has(w.items, e)
      BY <2>5, <2>6
    <3> QED  BY <3>1 DEF Has
  <2>8. ArrayDescribed(type, w)
    BY <1>10, <2>4, <2>5, <2>7 DEF ArrayDescribed, IsArrayType
  <2> QED  BY <2>8 DEF Described, FieldDescribed
<1>11. CASE n = 1
  <2>1. base = types[1]
    BY <1>4, <1>6, <1>11, MatrixTypes
  <2>2. CASE types[1] = Invalid
    <3>1. type = Unknown
      BY <1>7, <2>1, <2>2
    <3> QED  BY <1>9, <3>1
  <2>3. CASE types[1] # Invalid
    <3>1. types[1].base \in Bases /\ types[1] = Id(types[1].base, 1)
          /\ RowOf(Own(first), types[1].base)
      BY <1>4, <2>3
    <3>2. \A i \in 1 .. n : i = 1
      BY <1>11
    <3>3. \A i \in 1 .. n : ~IsScalar(elements[i])
      BY <1>1, <3>2
    <3>4. \A e : /\ Has(Own(first), e) => Has(w.items, e)
                 /\ Has(w.items, e) => e = "null" \/ Has(Own(first), e)
      BY <1>0, <1>2, <3>2, <3>3, MatrixItems
    <3> HIDE DEF w, first
    <3>5. Becomes(w.items, types[1].base)
      <4>1. "integer" # "real"
        OBVIOUS
      <4>2. Becomes(w.items, IF types[1].base = "integer" /\ types[1].base = "real" THEN "real"
                             ELSE types[1].base)
        BY <3>1, <3>4, RowsBecome
      <4> QED  BY <4>1, <4>2
    <3>6. Described(type, w)
      BY <1>10, <2>1, <3>1, <3>3, <3>5
    <3> QED  BY <3>6 DEF w, type
  <2> QED  BY <2>2, <2>3
<1>12. CASE n = 2
  <2> DEFINE second == elements[2]
  <2>0. /\ first = elements[1] /\ second = elements[2] /\ 2 \in 1 .. n
        /\ \A i \in 1 .. n : i = 1 \/ i = 2
    BY <1>12
  <2>1. base = Widened(types[1], types[2])
    BY <1>4, <1>5, <1>6, <1>12, MatrixTypes
  <2>2. CASE types[2] = Invalid
    <3>1. base \in {Invalid, Wild}
      BY <1>4, <2>1, <2>2, MatrixTypes
    <3>2. type # Wild
      BY TypeBases DEF IsType, type
    <3>3. type = Unknown
      BY <1>7, <3>1, <3>2, TypeBases
    <3> QED  BY <1>9, <3>3
  <2>3. CASE types[1] = Invalid /\ types[2] = IntegerInterval
    <3>1. base = IntegerInterval
      BY <1>4, <2>1, <2>3, MatrixTypes
    <3>2. type = Invalid
      BY <1>7, <3>1, TypeBases DEF MatrixType, Bases, Numbers
    <3> QED  BY <1>9, <3>2
  <2>4. CASE types[2] # Invalid /\ ~(types[1] = Invalid /\ types[2] = IntegerInterval)
    <3>1. PICK c \in Bases : /\ RowOf(Own(second), c) /\ ~IsScalar(second)
                             /\ \/ types[2] = IntegerInterval /\ c = "integer"
                                \/ types[2].base = c /\ types[2] = Id(c, 1)
      <4>1. "integer" \in Bases
        BY DEF Bases, Numbers
      <4> QED  BY <1>5, <1>12, <2>4, <4>1
    <3>2. \A i \in 1 .. n : ~IsScalar(elements[i])
      BY <1>1, <2>0, <3>1
    <3>3. \A e : /\ Has(Own(first), e) \/ Has(Own(second), e) => Has(w.items, e)
                 /\ Has(w.items, e) => \/ Has(Own(first), e) \/ Has(Own(second), e)
                                       \/ e = "null"
      BY <1>0, <1>2, <2>0, <3>2, MatrixItems
    <3> HIDE DEF w, first, second
    <3>4. /\ NullRow(Own(first)) => Becomes(w.items, c)
          /\ \A b : RowOf(Own(first), b) =>
                      Becomes(w.items, IF b = "integer" /\ c = "real" THEN "real" ELSE b)
      BY <3>1, <3>3, RowsBecome
    <3>5. CASE types[1] = Invalid
      <4>1. base = Id(c, 1) /\ NullRow(Own(first))
        <5>1. types[1].base \notin Bases
          BY <3>5, TypeBases DEF Bases, Numbers
        <5> QED  BY <1>4, <2>1, <2>4, <3>1, <3>5, <5>1, MatrixTypes
      <4>2. Described(type, w)
        BY <1>10, <3>2, <3>4, <4>1
      <4> QED  BY <4>2 DEF w, type
    <3>6. CASE types[1] # Invalid
      <4> DEFINE b == types[1].base
                 d == IF b = "integer" /\ c = "real" THEN "real" ELSE b
      <4>1. b \in Bases /\ types[1] = Id(b, 1) /\ RowOf(Own(first), b)
        BY <1>4, <3>6
      <4>2. base = Id(d, 1)
        <5>1. CASE types[2] = IntegerInterval /\ c = "integer"
          <6>1. base = types[1] /\ d = b
            BY <2>1, <3>6, <4>1, <5>1, MatrixTypes
          <6> QED  BY <4>1, <6>1
        <5>2. CASE types[2].base = c /\ types[2] = Id(c, 1)
          BY <2>1, <3>1, <3>6, <4>1, <5>2, MatrixTypes
        <5> QED  BY <3>1, <5>1, <5>2
      <4>3. d \in Bases /\ Becomes(w.items, d)
        BY <3>1, <3>4, <4>1
      <4> HIDE DEF d
      <4>4. Described(type, w)
        BY <1>10, <3>2, <4>2, <4>3
      <4> QED  BY <4>4 DEF w, type
    <3> QED  BY <3>5, <3>6
  <2> QED  BY <2>2, <2>3, <2>4
<1> QED  BY <1>8, <1>11, <1>12

(***************************************************************************)
(* The inductive invariant: unless the walk has run into one of its blind  *)
(* spots, the type of an expression describes its value.                   *)
(***************************************************************************)
Explained(e) ==
  /\ ~e.vague => Described(e.type, e.value)
  /\ e.literal => e.value = EmptyArray \/ IsMixed(e.value)

DescribedInv == TypingInv /\ Explained(node) /\ Explained(x)

LEMMA UnknownIsDescribed ==
  ASSUME NEW v
  PROVE  Described(Unknown, v)
BY DEF Described, FieldDescribed

LEMMA ExpressionIsExplained ==
  ASSUME NEW type, NEW value, NEW vague, NEW literal,
         ~vague => Described(type, value),
         literal => value = EmptyArray \/ IsMixed(value)
  PROVE  Explained(Expression(type, value, vague, literal))
<1> DEFINE e == Expression(type, value, vague, literal)
<1>1. e.type = type /\ e.value = value /\ e.vague = (vague /\ type # Unknown) /\ e.literal = literal
  BY DEF Expression
<1> HIDE DEF e
<1>2. ~e.vague => Described(type, value)
  BY <1>1, UnknownIsDescribed
<1>3. e.literal => value = EmptyArray \/ IsMixed(value)
  BY <1>1
<1>4. Explained(e)
  BY <1>1, <1>2, <1>3 DEF Explained
<1> QED  BY <1>4 DEF e

LEMMA ConstantsAreExplained ==
  ASSUME NEW e \in Constants
  PROVE  Explained(e) /\ ~e.vague
<1>1. \A elem \in Bases : Described(Id(elem, 0), Array(elem, <<>>))
  <2> SUFFICES ASSUME NEW elem \in Bases PROVE Described(Id(elem, 0), Array(elem, <<>>))
    OBVIOUS
  <2>1. <<>> \in Seq(Nat) /\ Len(<<>>) = 0 /\ 0 \in 0 .. 2
    OBVIOUS
  <2> QED  BY <2>1, ArrayOfIsDescribed
<1>2. \A elem \in NullOrIdentity : Described(IdentityNull, Array(elem, <<>>))
  BY DEF Described, FieldDescribed, IsScalar, Array, Record
<1>3. Described(String, StringOf(MaxDim))
  <2>1. \A s : LET w == [Array("character", <<MaxDim>>) EXCEPT !.str = s] IN
               IsVector(w) /\ w.elem = "character"
    BY DEF Array, Record, IsVector
  <2>2. IsVector(StringOf(MaxDim)) /\ StringOf(MaxDim).elem = "character"
    BY Zenon, <2>1 DEF StringOf
  <2> QED  BY <2>2 DEF Described, FieldDescribed
<1>4. \A type, value : Described(type, value) =>
        LET f == Expression(type, value, FALSE, FALSE) IN Explained(f) /\ ~f.vague
  <2> SUFFICES ASSUME NEW type, NEW value, Described(type, value)
               PROVE  LET f == Expression(type, value, FALSE, FALSE) IN Explained(f) /\ ~f.vague
    OBVIOUS
  <2>1. Explained(Expression(type, value, FALSE, FALSE))
    BY ExpressionIsExplained
  <2>2. ~Expression(type, value, FALSE, FALSE).vague
    BY DEF Expression
  <2> QED  BY <2>1, <2>2
<1>5. LET f == Expression(Unknown, EmptyArray, FALSE, TRUE) IN Explained(f) /\ ~f.vague
  <2>1. Explained(Expression(Unknown, EmptyArray, FALSE, TRUE))
    BY ExpressionIsExplained, UnknownIsDescribed
  <2>2. ~Expression(Unknown, EmptyArray, FALSE, TRUE).vague
    BY DEF Expression
  <2> QED  BY <2>1, <2>2
<1>6. PICK name \in {"boolean", "character", "integer", "real", "string", "null", "identity", "empty"} :
        e = Leaf[name]
  BY LeavesAssumption DEF Constants, Leaf
<1>7. \/ e \in {Expression(Id(elem, 0), Array(elem, <<>>), FALSE, FALSE) : elem \in Bases}
      \/ e \in {Expression(IdentityNull, Array(elem, <<>>), FALSE, FALSE) : elem \in NullOrIdentity}
      \/ e = Expression(String, StringOf(MaxDim), FALSE, FALSE)
      \/ e = Expression(Unknown, EmptyArray, FALSE, TRUE)
  <2>1. {"boolean", "character", "integer", "real"} \subseteq Bases
        /\ {"null", "identity"} \subseteq NullOrIdentity
    BY DEF Bases, Numbers, NullOrIdentity
  <2>2. \/ name \in Bases /\ e = Expression(Id(name, 0), Array(name, <<>>), FALSE, FALSE)
        \/ name \in NullOrIdentity /\ e = Expression(IdentityNull, Array(name, <<>>), FALSE, FALSE)
        \/ e = Expression(String, StringOf(MaxDim), FALSE, FALSE)
        \/ e = Expression(Unknown, EmptyArray, FALSE, TRUE)
    <3>1. /\ Leaf["boolean"] = Expression(Id("boolean", 0), Array("boolean", <<>>), FALSE, FALSE)
          /\ Leaf["character"] = Expression(Id("character", 0), Array("character", <<>>), FALSE, FALSE)
          /\ Leaf["integer"] = Expression(Id("integer", 0), Array("integer", <<>>), FALSE, FALSE)
          /\ Leaf["real"] = Expression(Id("real", 0), Array("real", <<>>), FALSE, FALSE)
      BY DEF Leaf, Boolean, Character, Integer, Real
    <3>2. /\ Leaf["null"] = Expression(IdentityNull, Array("null", <<>>), FALSE, FALSE)
          /\ Leaf["identity"] = Expression(IdentityNull, Array("identity", <<>>), FALSE, FALSE)
          /\ Leaf["string"] = Expression(String, StringOf(MaxDim), FALSE, FALSE)
          /\ Leaf["empty"] = Expression(Unknown, EmptyArray, FALSE, TRUE)
      BY DEF Leaf
    <3> QED  BY Zenon, <1>6, <2>1, <3>1, <3>2
  <2> QED  BY <2>2
<1> QED  BY <1>1, <1>2, <1>3, <1>4, <1>5, <1>7

LEMMA NothingIsExplained == Explained(None)
BY ExpressionIsExplained, UnknownIsDescribed DEF None

LEMMA OperandsAreExplained ==
  ASSUME DescribedInv, NEW e \in Operands
  PROVE  Explained(e)
<1>1. CASE x = None
  BY <1>1, ConstantsAreExplained DEF Operands
<1>2. CASE x # None
  BY <1>2 DEF Operands, DescribedInv
<1> QED  BY <1>1, <1>2

LEMMA PairsAreExplained ==
  ASSUME DescribedInv, NEW p \in Pairs
  PROVE  Explained(p[1]) /\ Explained(p[2])
<1>1. PICK e \in Operands : p \in {<<node, e>>, <<e, node>>}
  BY DEF Pairs
<1>2. Explained(e) /\ Explained(node)
  BY OperandsAreExplained DEF DescribedInv
<1> QED  BY <1>1, <1>2

LEMMA EvaluateExplains ==
  ASSUME DescribedInv, NEW form, NEW type, NEW result, NEW vague, NEW literal, NEW operands,
         Evaluate(form, type, result, vague, literal, operands),
         IsType(type) /\ Ok(result) /\ ~vague => Described(type, result.value),
         Ok(result) /\ literal => result.value = EmptyArray \/ IsMixed(result.value)
  PROVE  Explained(node') /\ Explained(x')
<1>1. CASE Ends(type, result, form, operands)
  <2>1. node' = None /\ x' = None
    BY <1>1 DEF Ends, Stop
  <2> QED  BY <2>1, NothingIsExplained
<1>2. CASE /\ IsType(type) /\ Ok(result) /\ Small(result.value)
           /\ node' = Expression(type, result.value, vague, literal)
           /\ UNCHANGED <<x, fault>>
  <2>1. Explained(Expression(type, result.value, vague, literal))
    BY <1>2, ExpressionIsExplained
  <2>2. x' = x
    BY <1>2
  <2>3. Explained(x)
    BY DEF DescribedInv
  <2> QED  BY <1>2, <2>1, <2>2, <2>3
<1> QED  BY <1>1, <1>2 DEF Evaluate

LEMMA StoreExplains ==
  ASSUME DescribedInv, NEW form, NEW type, NEW result, NEW vague,
         Store(form, type, result, vague),
         IsType(type) /\ Ok(result) /\ ~vague => Described(type, result.value)
  PROVE  Explained(node') /\ Explained(x')
<1>1. CASE Ends(type, result, form, <<node>>)
  <2>1. node' = None /\ x' = None
    BY <1>1 DEF Ends, Stop
  <2> QED  BY <2>1, NothingIsExplained
<1>2. CASE /\ IsType(type) /\ Ok(result)
           /\ x' = Expression(type, result.value, vague, FALSE)
           /\ node' = None /\ UNCHANGED fault
  <2>1. Explained(Expression(type, result.value, vague, FALSE))
    BY <1>2, ExpressionIsExplained
  <2> QED  BY <1>2, <2>1, NothingIsExplained
<1> QED  BY <1>1, <1>2 DEF Store

LEMMA TypedReturn ==
  ASSUME NEW d, NEW type
  PROVE  /\ ReturnType(d, type) \in {d, Wild, Rejected}
         /\ DeclarationType(d, type) \in {d, Wild, Rejected}
         /\ AssignmentType(d, type) \in {d, Wild, Rejected}
BY DEF ReturnType, DeclarationType, AssignmentType, FieldsAreRead

LEMMA TypedIsNeither ==
  ASSUME NEW type, IsType(type)
  PROVE  type # Wild /\ type # Rejected
BY TypeBases DEF IsType

LEMMA NoneVague ==
  ASSUME NEW a, NEW b, ~AnyVague(<<a, b>>)
  PROVE  ~a.vague /\ ~b.vague
<1> DEFINE s == <<a, b>>
<1>1. 1 \in DOMAIN s /\ 2 \in DOMAIN s /\ s[1] = a /\ s[2] = b
  OBVIOUS
<1> HIDE DEF s
<1>2. ~s[1].vague /\ ~s[2].vague
  BY <1>1 DEF AnyVague, s
<1> QED  BY <1>1, <1>2

LEMMA UnaryIsDescribed ==
  ASSUME NEW t, NEW op, NEW v, Described(t, v), Ok(Unary(op, v))
  PROVE  Described(t, Unary(op, v).value)
BY DEF Unary, Ok, Fine, Fail

LEMMA FieldIsDescribed ==
  ASSUME NEW t, NEW v, Value(v), Described(t, v), NEW position, Ok(Field(v, position)),
         IsType(AccessType(t, position))
  PROVE  Described(AccessType(t, position), Field(v, position).value)
<1>1. v.kind = "tuple" /\ position \in DOMAIN v.fields /\ Field(v, position).value = v.fields[position]
  BY DEF Field, Fine, Fail, Ok
<1>2. CASE t.base # "tuple"
  BY <1>2, UnknownIsDescribed DEF AccessType
<1>3. CASE t.base = "tuple"
  <2>1. TupleDescribed(t, v)
    BY <1>3, DescribedByBase
  <2>2. DOMAIN v.fields = 1 .. Len(v.fields)
    BY <1>1, ValueFields DEF TupleOfFlat
  <2>3. position \in DOMAIN t.fields /\ FieldDescribed(t.fields[position], v.fields[position])
    BY <1>1, <2>1, <2>2 DEF TupleDescribed
  <2> QED  BY <1>1, <1>3, <2>3 DEF AccessType, Described
<1> QED  BY <1>2, <1>3

LEMMA PairIsDescribed ==
  ASSUME NEW l, NEW r, NEW a, IsScalar(a), Value(a), NEW b, IsScalar(b), Value(b),
         Described(l, a), Described(r, b)
  PROVE  Described(TupleId(<<l, r>>), TupleValue(<<a, b>>))
<1> DEFINE f == <<l, r>>
           g == <<a, b>>
<1>1. /\ DOMAIN f = 1 .. 2 /\ Len(f) = 2 /\ Len(g) = 2
      /\ f[1] = l /\ f[2] = r /\ g[1] = a /\ g[2] = b
  OBVIOUS
<1>2. FieldDescribed(l, a) /\ FieldDescribed(r, b)
  BY DEF Described, TupleDescribed, IsScalar
<1> HIDE DEF f, g
<1>3. \A i \in 1 .. 2 : i \in DOMAIN f /\ FieldDescribed(f[i], g[i])
  BY <1>1, <1>2
<1>4. /\ TupleId(f).fields = f /\ TupleValue(g).fields = g /\ TupleValue(g).kind = "tuple"
  BY TupleIdFields DEF TupleValue, Record
<1>5. TupleDescribed(TupleId(f), TupleValue(g))
  BY <1>1, <1>3, <1>4 DEF TupleDescribed
<1> QED  BY <1>5 DEF f, g, Described

LEMMA LiteralIsDescribed ==
  ASSUME NEW n \in 1 .. 2, NEW elements, DOMAIN elements = 1 .. n, Len(elements) = n,
         \A i \in 1 .. n : Value(elements[i].value) /\ Explained(elements[i]),
         ~BlindLiteral(elements),
         NEW types, types = [i \in 1 .. n |-> elements[i].type],
         NEW values, values = [i \in 1 .. n |-> elements[i].value],
         Ok(VectorLiteral(values)), IsType(VectorLiteralType(types, elements[1].literal))
  PROVE  Described(VectorLiteralType(types, elements[1].literal), VectorLiteral(values).value)
<1>1. /\ DOMAIN types = 1 .. n /\ Len(types) = n /\ Elementwise(values, n)
      /\ \A i \in 1 .. n : types[i] = elements[i].type /\ values[i] = elements[i].value
      /\ 1 \in 1 .. n
  BY DEF Elementwise
<1>2. \A i \in 1 .. n : ~elements[i].vague
  BY DEF BlindLiteral, AnyVague
<1>3. \A i \in 1 .. n : Described(types[i], values[i])
  BY <1>1, <1>2 DEF Explained
<1>4. CASE elements[1].literal
  <2>1. \A i \in 1 .. n : IsRowType(types[i]) /\ TotalLength(values[i]) # 0
    BY <1>1, <1>4 DEF BlindLiteral, IsRowType
  <2>2. values[1] # EmptyArray
    <3>1. TotalLength(EmptyArray) = 0
      BY EmptyFields DEF TotalLength
    <3> QED  BY <1>1, <2>1, <3>1
  <2>3. IsMixed(values[1])
    BY <1>1, <1>4, <2>2 DEF Explained
  <2>4. \A b : b => VectorLiteralType(types, b) = VectorLiteralType(types, TRUE)
    BY DEF VectorLiteralType
  <2>5. VectorLiteralType(types, elements[1].literal) = VectorLiteralType(types, TRUE)
    BY <1>4, <2>4
  <2> QED  BY <1>1, <1>3, <2>1, <2>3, <2>5, MatrixIsDescribed
<1>5. CASE ~elements[1].literal
  <2>1. \A i \in 1 .. n : types[i] \in Scalars
    BY <1>1, <1>5 DEF BlindLiteral
  <2>2. \A b : ~b => VectorLiteralType(types, b) = VectorLiteralType(types, FALSE)
    BY DEF VectorLiteralType
  <2>3. VectorLiteralType(types, elements[1].literal) = VectorLiteralType(types, FALSE)
    BY <1>5, <2>2
  <2> QED  BY <1>1, <1>3, <2>1, <2>3, VectorIsDescribed
<1> QED  BY <1>4, <1>5

\* An indexing of explained operands, by n indices.
IndexingOf(a, n) ==
  /\ Value(a[1].value) /\ Explained(a[1])
  /\ Len(a[2]) = n /\ DOMAIN a[2] = 1 .. n
  /\ DOMAIN (<<a[1]>> \o a[2]) = 1 .. n + 1
  /\ (<<a[1]>> \o a[2])[1] = a[1]
  /\ \A i \in 1 .. n : /\ Value(a[2][i].value) /\ Explained(a[2][i])
                       /\ (<<a[1]>> \o a[2])[i + 1] = a[2][i]

LEMMA FirstAndRest ==
  ASSUME NEW S, NEW e \in S, NEW s \in Seq(S)
  PROVE  /\ DOMAIN (<<e>> \o s) = 1 .. Len(s) + 1 /\ (<<e>> \o s)[1] = e
         /\ \A i \in 1 .. Len(s) : (<<e>> \o s)[i + 1] = s[i]
<1>1. <<e>> \in Seq(S) /\ Len(<<e>>) = 1 /\ <<e>>[1] = e
  OBVIOUS
<1>2. \A u, v \in Seq(S) :
        /\ DOMAIN (u \o v) = 1 .. Len(u) + Len(v)
        /\ \A i \in 1 .. Len(u) : (u \o v)[i] = u[i]
        /\ \A i \in 1 .. Len(v) : (u \o v)[i + Len(u)] = v[i]
  OBVIOUS
<1> DEFINE u == <<e>>
<1>3. u \in Seq(S) /\ Len(u) = 1 /\ u[1] = e
  BY <1>1
<1> HIDE DEF u
<1>4. /\ DOMAIN (u \o s) = 1 .. Len(s) + 1 /\ (u \o s)[1] = e
      /\ \A i \in 1 .. Len(s) : (u \o s)[i + 1] = s[i]
  <2>1. Len(s) \in Nat /\ Len(u) + Len(s) = Len(s) + 1 /\ 1 \in 1 .. Len(u)
    BY <1>3
  <2>2. /\ DOMAIN (u \o s) = 1 .. Len(u) + Len(s)
        /\ \A i \in 1 .. Len(u) : (u \o s)[i] = u[i]
        /\ \A i \in 1 .. Len(s) : (u \o s)[i + Len(u)] = s[i]
    BY Zenon, <1>2, <1>3
  <2> QED  BY Zenon, <1>3, <2>1, <2>2
<1> QED  BY <1>4 DEF u

LEMMA OneIndex ==
  ASSUME NEW f, NEW g, Value(f.value), Value(g.value), Explained(f), Explained(g)
  PROVE  1 \in 1 .. 2 /\ IndexingOf(<<f, <<g>>>>, 1)
<1> DEFINE s == <<g>>
<1>1. /\ <<f, s>>[1] = f /\ <<f, s>>[2] = s /\ 1 \in 1 .. 2
      /\ s \in Seq({f, g}) /\ Len(s) = 1 /\ DOMAIN s = 1 .. 1 /\ \A i \in 1 .. 1 : s[i] = g
  OBVIOUS
<1> HIDE DEF s
<1>2. /\ DOMAIN (<<f>> \o s) = 1 .. 1 + 1 /\ (<<f>> \o s)[1] = f
      /\ \A i \in 1 .. 1 : (<<f>> \o s)[i + 1] = s[i]
  <2> DEFINE T == {f, g}
  <2>1. f \in T /\ s \in Seq(T)
    BY <1>1
  <2> HIDE DEF T
  <2>2. /\ DOMAIN (<<f>> \o s) = 1 .. Len(s) + 1 /\ (<<f>> \o s)[1] = f
        /\ \A i \in 1 .. Len(s) : (<<f>> \o s)[i + 1] = s[i]
    BY <2>1, FirstAndRest
  <2> QED  BY Zenon, <1>1, <2>2
<1> DEFINE a == <<f, s>>
<1>3. a[1] = f /\ a[2] = s
  OBVIOUS
<1> HIDE DEF a
<1>4. IndexingOf(a, 1)
  BY Zenon, <1>1, <1>2, <1>3 DEF IndexingOf
<1> QED  BY <1>1, <1>4 DEF s, a

LEMMA TwoIndices ==
  ASSUME NEW e, NEW f, NEW g, Value(e.value), Value(f.value), Value(g.value),
         Explained(e), Explained(f), Explained(g)
  PROVE  2 \in 1 .. 2 /\ IndexingOf(<<e, <<f, g>>>>, 2)
<1> DEFINE s == <<f, g>>
<1>1. /\ <<e, s>>[1] = e /\ <<e, s>>[2] = s /\ 2 \in 1 .. 2
      /\ s \in Seq({e, f, g}) /\ Len(s) = 2 /\ DOMAIN s = 1 .. 2
      /\ \A i \in 1 .. 2 : s[i] = f \/ s[i] = g
  OBVIOUS
<1> HIDE DEF s
<1>2. \A i \in 1 .. 2 : Value(s[i].value) /\ Explained(s[i])
  BY <1>1
<1>3. /\ DOMAIN (<<e>> \o s) = 1 .. 2 + 1 /\ (<<e>> \o s)[1] = e
      /\ \A i \in 1 .. 2 : (<<e>> \o s)[i + 1] = s[i]
  <2> DEFINE S == {e, f, g}
  <2>1. e \in S /\ s \in Seq(S)
    BY <1>1
  <2> HIDE DEF S
  <2>2. /\ DOMAIN (<<e>> \o s) = 1 .. Len(s) + 1 /\ (<<e>> \o s)[1] = e
        /\ \A i \in 1 .. Len(s) : (<<e>> \o s)[i + 1] = s[i]
    BY <2>1, FirstAndRest
  <2> QED  BY Zenon, <1>1, <2>2
<1> DEFINE a == <<e, s>>
<1>4. a[1] = e /\ a[2] = s
  OBVIOUS
<1> HIDE DEF a
<1>5. IndexingOf(a, 2)
  BY Zenon, <1>1, <1>2, <1>3, <1>4 DEF IndexingOf
<1> QED  BY <1>1, <1>5 DEF s, a

LEMMA IndexingIsDescribed ==
  ASSUME NEW a, NEW n \in 1 .. 2, IndexingOf(a, n),
         LET types == [i \in DOMAIN a[2] |-> a[2][i].type] IN
           ~(AnyVague(<<a[1]>> \o a[2]) \/ BlindIndices(a[1].type, types)),
         Ok(Indexed(a[1].value, [i \in DOMAIN a[2] |-> a[2][i].value]))
  PROVE  Described(IndexType(a[1].type, [i \in DOMAIN a[2] |-> a[2][i].type]),
                   Indexed(a[1].value, [i \in DOMAIN a[2] |-> a[2][i].value]).value)
<1> DEFINE types == [i \in DOMAIN a[2] |-> a[2][i].type]
           indices == [i \in DOMAIN a[2] |-> a[2][i].value]
           all == <<a[1]>> \o a[2]
<1>1. /\ Value(a[1].value) /\ Explained(a[1]) /\ DOMAIN a[2] = 1 .. n
      /\ DOMAIN all = 1 .. n + 1 /\ all[1] = a[1]
      /\ \A i \in 1 .. n : Value(a[2][i].value) /\ Explained(a[2][i]) /\ all[i + 1] = a[2][i]
  BY DEF IndexingOf
<1> HIDE DEF all
<1>2. \A i \in 1 .. n + 1 : ~all[i].vague
  BY <1>1 DEF AnyVague, all
<1>3. Described(a[1].type, a[1].value)
  <2>1. 1 \in 1 .. n + 1
    OBVIOUS
  <2> QED  BY <1>1, <1>2, <2>1 DEF Explained
<1>4. \A i \in 1 .. n : Described(a[2][i].type, a[2][i].value)
  <2>1. \A i \in 1 .. n : i + 1 \in 1 .. n + 1
    OBVIOUS
  <2> QED  BY <1>1, <1>2, <2>1 DEF Explained
<1>5. /\ DOMAIN types = 1 .. n /\ Len(types) = n /\ Elementwise(indices, n)
      /\ \A i \in 1 .. n : types[i] = a[2][i].type /\ indices[i] = a[2][i].value
  BY <1>1 DEF Elementwise
<1>6. ~BlindIndices(a[1].type, types)
  OBVIOUS
<1>7. Ok(Indexed(a[1].value, indices))
  OBVIOUS
<1> HIDE DEF types, indices
<1>8. \A i \in 1 .. n : Described(types[i], indices[i])
  BY <1>4, <1>5
<1>9. Described(IndexType(a[1].type, types), Indexed(a[1].value, indices).value)
  BY <1>1, <1>3, <1>5, <1>6, <1>7, <1>8, IndexIsDescribed
<1> QED  BY <1>9 DEF types, indices

LEMMA StepExplains ==
  ASSUME DescribedInv, Next
  PROVE  Explained(node') /\ Explained(x')
<1>a. node # None => Value(node.value) /\ Expressed(node)
  BY DEF DescribedInv, TypingInv, Expressed
<1>b. x # None => Settled(x.value)
  BY DEF DescribedInv, TypingInv, Stored
<1>c. \A p \in Pairs : node # None => /\ p = <<p[1], p[2]>> /\ Len(p) = 2 /\ DOMAIN p = 1 .. 2
                                      /\ Value(p[1].value) /\ Value(p[2].value)
                                      /\ Explained(p[1]) /\ Explained(p[2])
                                      /\ ~AnyVague(p) =>
                                           /\ Described(p[1].type, p[1].value)
                                           /\ Described(p[2].type, p[2].value)
  <2> SUFFICES ASSUME NEW p \in Pairs, node # None
               PROVE  /\ p = <<p[1], p[2]>> /\ Len(p) = 2 /\ DOMAIN p = 1 .. 2
                      /\ Value(p[1].value) /\ Value(p[2].value)
                      /\ Explained(p[1]) /\ Explained(p[2])
                      /\ ~AnyVague(p) => /\ Described(p[1].type, p[1].value)
                                         /\ Described(p[2].type, p[2].value)
    OBVIOUS
  <2>1. p = <<p[1], p[2]>> /\ Len(p) = 2 /\ Value(p[1].value) /\ Value(p[2].value)
    BY PairsAreExpressed DEF Expressed, DescribedInv
  <2>2. Explained(p[1]) /\ Explained(p[2])
    BY PairsAreExplained
  <2>3. ~AnyVague(p) => ~p[1].vague /\ ~p[2].vague
    BY <2>1, NoneVague
  <2>4. DOMAIN p = 1 .. 2
    BY <2>1
  <2> QED  BY <2>1, <2>2, <2>3, <2>4 DEF Explained
<1>d. \A size \in Sizes : size \in Nat \ {0}
  BY MaxDimAssumption DEF Sizes
<1>e. node # None /\ ~node.vague => Described(node.type, node.value)
  BY DEF DescribedInv, Explained
<1>1. CASE Constant
  <2>1. PICK e \in Constants \union ({x} \ {None}) : node' = e
    BY <1>1 DEF Constant
  <2>2. Explained(e) /\ Explained(x) /\ x' = x
    BY <1>1, <2>1, ConstantsAreExplained DEF DescribedInv, Constant
  <2> QED  BY <2>1, <2>2
<1>2. CASE UnaryOperation
  <2>1. PICK op : Evaluate("unary", node.type, Unary(op, node.value), node.vague, FALSE, <<node>>)
    BY <1>2 DEF UnaryOperation
  <2>2. Described(node.type, node.value)
    BY <1>e, <2>1 DEF Evaluate
  <2> DEFINE result == Unary(op, node.value)
  <2>3. Ok(result) => Described(node.type, result.value)
    BY <2>2, UnaryIsDescribed
  <2> HIDE DEF result
  <2> QED  BY <2>1, <2>3, EvaluateExplains DEF result
<1>3. CASE BinaryOperation
  <2>1. PICK op \in Operators, p \in Pairs, size \in Sizes :
          Evaluate(op, BinaryOpType(op, p[1].type, p[2].type),
                   Binary(op, p[1].value, p[2].value, size),
                   BlindSpot(Table(op, p[1].type, p[2].type), p[1], p[2]), FALSE, p)
    BY <1>3 DEF BinaryOperation
  <2> DEFINE result == Binary(op, p[1].value, p[2].value, size)
             type == BinaryOpType(op, p[1].type, p[2].type)
             blind == BlindSpot(Table(op, p[1].type, p[2].type), p[1], p[2])
  <2>2. /\ Value(p[1].value) /\ Value(p[2].value) /\ size \in Nat \ {0} /\ p = <<p[1], p[2]>>
        /\ ~AnyVague(p) => Described(p[1].type, p[1].value) /\ Described(p[2].type, p[2].value)
    BY <1>c, <1>d, <2>1 DEF Evaluate
  <2>3. ASSUME IsType(type), Ok(result), ~blind PROVE Described(type, result.value)
    <3>1. /\ ~AnyVague(p) /\ IdentityNull \notin {p[1].type, p[2].type}
          /\ \A id \in Table(op, p[1].type, p[2].type) : id.dim # 2
      BY <2>2, <2>3 DEF BlindSpot
    <3> QED  BY <2>2, <2>3, <3>1, BinaryIsDescribed
  <2> HIDE DEF result, type, blind
  <2> QED  BY <2>1, <2>3, EvaluateExplains DEF result, type, blind
<1>4. CASE RangeOperation
  <2>1. PICK p \in Pairs, size \in Sizes :
          Evaluate("range", IntegerInterval, Binary("range", p[1].value, p[2].value, size),
                   FALSE, FALSE, p)
    BY <1>4 DEF RangeOperation
  <2> DEFINE result == Binary("range", p[1].value, p[2].value, size)
  <2>2. Ok(result) => Described(IntegerInterval, result.value)
    BY RangeGivesInterval
  <2> HIDE DEF result
  <2> QED  BY <2>1, <2>2, EvaluateExplains DEF result
<1>5. CASE ConcatenationOperation
  <2>1. PICK p \in Pairs :
          Evaluate("concat", ConcatenationType(p[1].type, p[2].type),
                   Concat(p[1].value, p[2].value),
                   BlindSpot(Table("concat", p[1].type, p[2].type), p[1], p[2]), FALSE, p)
    BY <1>5 DEF ConcatenationOperation
  <2> DEFINE result == Concat(p[1].value, p[2].value)
             type == ConcatenationType(p[1].type, p[2].type)
             blind == BlindSpot(Table("concat", p[1].type, p[2].type), p[1], p[2])
  <2>2. /\ Value(p[1].value) /\ Value(p[2].value) /\ p = <<p[1], p[2]>>
        /\ ~AnyVague(p) => Described(p[1].type, p[1].value) /\ Described(p[2].type, p[2].value)
    BY <1>c, <2>1 DEF Evaluate
  <2>3. ASSUME IsType(type), Ok(result), ~blind PROVE Described(type, result.value)
    <3>1. /\ ~AnyVague(p) /\ IdentityNull \notin {p[1].type, p[2].type}
          /\ \A id \in Table("concat", p[1].type, p[2].type) : id.dim # 2
      BY <2>2, <2>3 DEF BlindSpot
    <3> QED  BY <2>2, <2>3, <3>1, ConcatIsDescribed
  <2> HIDE DEF result, type, blind
  <2> QED  BY <2>1, <2>3, EvaluateExplains DEF result, type, blind
<1>6. CASE Indexing
  <2>1. PICK a \in Indexings :
          LET types == [i \in DOMAIN a[2] |-> a[2][i].type]
          IN  Evaluate("index", IndexType(a[1].type, types),
                       Indexed(a[1].value, [i \in DOMAIN a[2] |-> a[2][i].value]),
                       AnyVague(<<a[1]>> \o a[2]) \/ BlindIndices(a[1].type, types), FALSE,
                       <<a[1]>> \o a[2])
    BY <1>6 DEF Indexing
  <2>2. Value(node.value) /\ Explained(node)
    BY <1>a, <2>1 DEF Evaluate, DescribedInv
  <2>3. \A e \in Operands : Value(e.value) /\ Explained(e)
    BY OperandsAreExpressed, OperandsAreExplained DEF DescribedInv, Expressed
  <2>4. PICK n \in 1 .. 2 : IndexingOf(a, n)
    <3>1. CASE a \in {<<node, <<e>>>> : e \in Operands} \cup {<<e, <<node>>>> : e \in Operands}
      <4>1. PICK f, g : /\ a = <<f, <<g>>>> /\ Value(f.value) /\ Value(g.value)
                        /\ Explained(f) /\ Explained(g)
        BY <2>2, <2>3, <3>1
      <4> QED  BY <4>1, OneIndex
    <3>2. CASE a \in {<<node, i>> : i \in Operands \X Operands}
      <4>1. PICK f \in Operands, g \in Operands : a = <<node, <<f, g>>>>
        BY <3>2
      <4> QED  BY <2>2, <2>3, <4>1, TwoIndices
    <3> QED  BY <2>1, <3>1, <3>2 DEF Indexings, Indices
  <2> DEFINE types == [i \in DOMAIN a[2] |-> a[2][i].type]
             indices == [i \in DOMAIN a[2] |-> a[2][i].value]
             result == Indexed(a[1].value, indices)
             type == IndexType(a[1].type, types)
             blind == AnyVague(<<a[1]>> \o a[2]) \/ BlindIndices(a[1].type, types)
  <2>5. ASSUME Ok(result), ~blind PROVE Described(type, result.value)
    BY <2>4, <2>5, IndexingIsDescribed
  <2> HIDE DEF result, type, blind
  <2> QED  BY <2>1, <2>5, EvaluateExplains DEF result, type, blind
<1>7. CASE Literal
  <2>1. PICK elements \in {<<node>>} \cup Pairs :
          LET types == [i \in DOMAIN elements |-> elements[i].type]
          IN  Evaluate("literal", VectorLiteralType(types, elements[1].literal),
                       VectorLiteral([i \in DOMAIN elements |-> elements[i].value]),
                       BlindLiteral(elements), TRUE, elements)
    BY <1>7 DEF Literal
  <2>2. Value(node.value) /\ node # None /\ Explained(node)
    BY <1>a, <2>1 DEF Evaluate, DescribedInv
  <2> DEFINE types == [i \in DOMAIN elements |-> elements[i].type]
             values == [i \in DOMAIN elements |-> elements[i].value]
             result == VectorLiteral(values)
             type == VectorLiteralType(types, elements[1].literal)
             blind == BlindLiteral(elements)
  <2>3. PICK n \in 1 .. 2 : /\ DOMAIN elements = 1 .. n /\ Len(elements) = n
                            /\ \A i \in 1 .. n : Value(elements[i].value) /\ Explained(elements[i])
    <3>1. CASE elements = <<node>>
      <4>1. DOMAIN <<node>> = 1 .. 1 /\ Len(<<node>>) = 1 /\ \A i \in 1 .. 1 : <<node>>[i] = node
            /\ 1 \in 1 .. 2
        OBVIOUS
      <4> QED  BY <2>2, <3>1, <4>1
    <3>2. CASE elements \in Pairs
      <4>1. elements = <<elements[1], elements[2]>> /\ Value(elements[1].value)
            /\ Value(elements[2].value) /\ Explained(elements[1]) /\ Explained(elements[2])
            /\ Len(elements) = 2 /\ DOMAIN elements = 1 .. 2
        BY <1>c, <2>2, <3>2
      <4>2. 2 \in 1 .. 2 /\ \A i \in 1 .. 2 : i = 1 \/ i = 2
        OBVIOUS
      <4> QED  BY <4>1, <4>2
    <3> QED  BY <3>1, <3>2
  <2>4. types = [i \in 1 .. n |-> elements[i].type] /\ values = [i \in 1 .. n |-> elements[i].value]
    BY <2>3
  <2>5. Elementwise(values, n) /\ n \in Nat /\ n # 0
    BY <2>3, <2>4 DEF Elementwise
  <2> HIDE DEF types, values
  <2>6. ASSUME IsType(type), Ok(result), ~blind PROVE Described(type, result.value)
    BY <2>3, <2>4, <2>6, LiteralIsDescribed
  <2>7. Ok(result) => IsMixed(result.value)
    BY <2>5, VectorLiteralGivesValue DEF LiteralArray, IsMixed
  <2> HIDE DEF result, type, blind
  <2> QED  BY <2>1, <2>6, <2>7, EvaluateExplains DEF result, type, blind, types, values
<1>8. CASE TupleLiteral
  <2>1. PICK p \in Pairs :
          /\ \A i \in {1, 2} : IsScalar(p[i].value)
          /\ Evaluate("tuple", TupleId(<<p[1].type, p[2].type>>),
                      Fine(TupleValue(<<p[1].value, p[2].value>>)), AnyVague(p), FALSE, p)
    BY <1>8 DEF TupleLiteral
  <2>2. /\ Value(p[1].value) /\ Value(p[2].value)
        /\ ~AnyVague(p) => Described(p[1].type, p[1].value) /\ Described(p[2].type, p[2].value)
    BY <1>c, <2>1 DEF Evaluate
  <2> DEFINE type == TupleId(<<p[1].type, p[2].type>>)
             result == Fine(TupleValue(<<p[1].value, p[2].value>>))
  <2>3. ~AnyVague(p) => Described(type, TupleValue(<<p[1].value, p[2].value>>))
    BY <2>1, <2>2, PairIsDescribed
  <2>4. result.value = TupleValue(<<p[1].value, p[2].value>>)
    BY DEF Fine
  <2> HIDE DEF type, result
  <2> QED  BY <2>1, <2>3, <2>4, EvaluateExplains DEF type, result
<1>9. CASE Access
  <2>1. PICK position : Evaluate("access", AccessType(node.type, position),
                                 Field(node.value, position), node.vague, FALSE, <<node>>)
    BY <1>9 DEF Access
  <2>2. Value(node.value) /\ Described(node.type, node.value)
    BY <1>a, <1>e, <2>1 DEF Evaluate
  <2> DEFINE type == AccessType(node.type, position)
             result == Field(node.value, position)
  <2>3. IsType(type) /\ Ok(result) => Described(type, result.value)
    BY <2>2, FieldIsDescribed
  <2> HIDE DEF type, result
  <2> QED  BY <2>1, <2>3, EvaluateExplains DEF type, result
<1>f. ASSUME NEW d \in DeclaredTypes, NEW config, node # None
      PROVE  LET r == Convert(config, d.target, node.value) IN Ok(r) => Described(d.type, r.value)
  BY <1>a, <1>f, DeclaredIsDescribed
<1>10. CASE CastExpression
  <2>1. PICK d \in DeclaredTypes :
          Evaluate("cast", d.type, Convert(Cast, d.target, node.value), FALSE, FALSE, <<node>>)
    BY <1>10 DEF CastExpression
  <2> DEFINE result == Convert(Cast, d.target, node.value)
  <2>2. Ok(result) => Described(d.type, result.value)
    BY <1>f, <2>1 DEF Evaluate
  <2> HIDE DEF result
  <2> QED  BY <2>1, <2>2, EvaluateExplains DEF result
<1>11. CASE Pass
  <2>1. PICK d \in DeclaredTypes :
          Evaluate("pass", d.type, Convert(Parameter, d.target, node.value), FALSE, FALSE, <<node>>)
    BY <1>11 DEF Pass
  <2> DEFINE result == Convert(Parameter, d.target, node.value)
  <2>2. Ok(result) => Described(d.type, result.value)
    BY <1>f, <2>1 DEF Evaluate
  <2> HIDE DEF result
  <2> QED  BY <2>1, <2>2, EvaluateExplains DEF result
<1>12. CASE Return
  <2>1. PICK d \in DeclaredTypes :
          Evaluate("return", ReturnType(d.type, node.type),
                   Convert(Declaration, d.target, node.value), FALSE, FALSE, <<node>>)
    BY <1>12 DEF Return
  <2> DEFINE type == ReturnType(d.type, node.type)
             result == Convert(Declaration, d.target, node.value)
  <2>2. Ok(result) => Described(d.type, result.value)
    BY <1>f, <2>1 DEF Evaluate
  <2>3. IsType(type) => type = d.type
    BY TypedReturn, TypedIsNeither
  <2> HIDE DEF type, result
  <2> QED  BY <2>1, <2>2, <2>3, EvaluateExplains DEF type, result
<1>13. CASE Generate
  <2>1. PICK n \in 0 .. MaxDim :
          Evaluate("generator", Unknown, Generated(n, node.value), FALSE, FALSE, <<node>>)
    BY <1>13 DEF Generate
  <2> QED  BY <2>1, UnknownIsDescribed, EvaluateExplains
<1>14. CASE DeclareInferred
  <2> DEFINE result == Convert(Declaration, UnknownType, node.value)
  <2>1. x = None /\ Store("inferred", node.type, result, node.vague)
    BY <1>14 DEF DeclareInferred
  <2>2. Value(node.value) /\ Described(node.type, node.value)
    BY <1>a, <1>e, <2>1 DEF Store
  <2>3. Ok(result) => Described(node.type, result.value)
    BY <2>2, InferredIsDescribed
  <2> HIDE DEF result
  <2> QED  BY <2>1, <2>3, StoreExplains
<1>15. CASE Declare
  <2>1. PICK d \in DeclaredTypes :
          /\ x = None
          /\ Store("declare", DeclarationType(d.type, node.type),
                   Convert(Declaration, d.target, node.value), FALSE)
    BY <1>15 DEF Declare
  <2> DEFINE type == DeclarationType(d.type, node.type)
             result == Convert(Declaration, d.target, node.value)
  <2>2. Ok(result) => Described(d.type, result.value)
    BY <1>f, <2>1 DEF Store
  <2>3. IsType(type) => type = d.type
    BY TypedReturn, TypedIsNeither
  <2> HIDE DEF type, result
  <2> QED  BY <2>1, <2>2, <2>3, StoreExplains DEF type, result
<1>16. CASE Assign
  <2> DEFINE type == AssignmentType(x.type, node.type)
             result == Convert(Assignment, x.value, node.value)
  <2>1. x # None /\ Store("assign", type, result, x.vague)
    BY <1>16 DEF Assign
  <2>2. Value(node.value) /\ Settled(x.value) /\ Explained(x)
    BY <1>a, <1>b, <2>1 DEF Store, DescribedInv
  <2>3. ~x.vague /\ Ok(result) => Described(x.type, result.value)
    BY <2>2, AssignedIsDescribed DEF Explained
  <2>4. IsType(type) => type = x.type
    BY TypedReturn, TypedIsNeither
  <2> HIDE DEF type, result
  <2> QED  BY <2>1, <2>3, <2>4, StoreExplains
<1> QED  BY <1>1, <1>2, <1>3, <1>4, <1>5, <1>6, <1>7, <1>8, <1>9, <1>10, <1>11, <1>12, <1>13,
            <1>14, <1>15, <1>16 DEF Next

LEMMA DescribedInvSteps ==
  ASSUME DescribedInv, [Next]_vars
  PROVE  DescribedInv'
<1>1. TypingInv'
  BY TypingInvSteps DEF DescribedInv
<1>2. CASE Next
  BY <1>1, <1>2, StepExplains DEF DescribedInv, Explained
<1>3. CASE UNCHANGED vars
  BY <1>1, <1>3 DEF vars, DescribedInv, Explained
<1> QED  BY <1>2, <1>3

LEMMA DescribedInvAlways == Spec => []DescribedInv
<1>1. Init => DescribedInv
  BY TypingInvInitially, NothingIsExplained DEF Init, DescribedInv
<1>2. DescribedInv /\ [Next]_vars => DescribedInv'
  BY DescribedInvSteps
<1> QED  BY <1>1, <1>2, PTL DEF Spec

LEMMA FieldDescribes ==
  ASSUME NEW type, NEW v, Value(v), FieldDescribed(type, v)
  PROVE  DescribesField(type, v)
<1>1. CASE ArrayDescribed(type, v)
  <2>1. /\ type.base \in Bases /\ v.kind = "array" /\ IsArray(v) /\ NDim(v) = type.dim
        /\ Described(type, v)
    BY <1>1 DEF ArrayDescribed, IsArrayType, IsArray, NDim, Described
  <2>2. Ok(Concrete(v)) => Concrete(v).value.elem = type.base
    BY <2>1, ConcreteArray
  <2>3. DescribesArray(type, v)
    BY <2>1, <2>2 DEF DescribesArray
  <2>4. type \notin {Unknown, Invalid, IdentityNull, String, IntegerInterval}
    BY <2>1, TypeBases DEF Bases, Numbers
  <2> QED  BY <2>3, <2>4 DEF DescribesField
<1>2. CASE type \in {Unknown, Invalid}
  <2>1. type \notin {IdentityNull, String, IntegerInterval}
    BY <1>2, TypeBases
  <2> QED  BY <1>2, <2>1 DEF DescribesField
<1>3. CASE type = IdentityNull /\ IsScalar(v) /\ v.elem \in NullOrIdentity
  <2>1. type \notin {Unknown, Invalid, String, IntegerInterval}
    BY <1>3, TypeBases
  <2> QED  BY <1>3, <2>1 DEF DescribesField
<1>4. CASE type = String /\ IsVector(v) /\ v.elem = "character"
  <2>1. type \notin {Unknown, Invalid, IdentityNull, IntegerInterval}
    BY <1>4, TypeBases
  <2> QED  BY <1>4, <2>1 DEF DescribesField
<1>5. CASE type = IntegerInterval /\ v.kind = "interval"
  <2>1. type \notin {Unknown, Invalid, IdentityNull, String}
    BY <1>5, TypeBases
  <2> QED  BY <1>5, <2>1 DEF DescribesField
<1> QED  BY <1>1, <1>2, <1>3, <1>4, <1>5 DEF FieldDescribed

LEMMA DescribedDescribes ==
  ASSUME NEW type, NEW v, Value(v), Described(type, v)
  PROVE  Describes(type, v)
<1>1. CASE type.base = "tuple"
  <2>1. TupleDescribed(type, v)
    BY <1>1, DescribedByBase
  <2>2. TupleOfFlat(v)
    BY <2>1, ValueFields DEF TupleDescribed
  <2>3. \A i \in DOMAIN v.fields : DescribesField(type.fields[i], v.fields[i])
    BY <2>1, <2>2, FieldDescribes DEF TupleDescribed, TupleOfFlat, Value, Settled
  <2> QED  BY <1>1, <2>1, <2>3 DEF Describes, TupleDescribed
<1>2. CASE type.base # "tuple"
  <2>1. FieldDescribed(type, v)
    BY <1>2, TupleIdFields DEF Described, TupleDescribed
  <2> QED  BY <1>2, <2>1, FieldDescribes DEF Describes
<1> QED  BY <1>1, <1>2

\* The evalType of an expression is the type of the value the runtime makes of
\* it, wherever the walk knows one and has not run into a blind spot: the
\* promotion tables, the typing rules and the conversions of the runtime agree
\* for every operator, every declared type, every form and every bound on the
\* lengths.
THEOREM WalkTypesDescribeRuntimeValues == Spec => []StaticTypesDescribeValues
<1>1. DescribedInv => StaticTypesDescribeValues
  <2> SUFFICES ASSUME DescribedInv, NEW e \in {node, x} \ {None}, ~e.vague
               PROVE  Describes(e.type, e.value)
    BY DEF StaticTypesDescribeValues
  <2>1. Value(e.value)
    BY StoredIsExpressed DEF DescribedInv, TypingInv, Expressed
  <2>2. Described(e.type, e.value)
    BY DEF DescribedInv, Explained
  <2> QED  BY <2>1, <2>2, DescribedDescribes
<1> QED  BY <1>1, DescribedInvAlways, PTL

(***************************************************************************)
(* Where a tuple is taken to have met a tuple: nowhere but in the operators *)
(* that compare two.                                                       *)
(***************************************************************************)
Paired(r) == r.why # "undefined:not-both-tuples"

LEMMA FinePaired ==
  ASSUME NEW v
  PROVE  Paired(Fine(v))
BY DEF Paired, Fine

LEMMA MixedPaired ==
  ASSUME NEW v
  PROVE  Paired(MixedToSameType(v)) /\ Paired(Concrete(v))
BY DEF Paired, Fine, Fail, MixedToSameType, Concrete

LEMMA FlatPaired ==
  ASSUME NEW config, NEW target, NEW rhs
  PROVE  Paired(ConvertFlat(config, target, rhs)) /\ Paired(FromNullFlat(target))
<1>1. Paired(FromNullFlat(target))
  <2>1. CASE target.kind = "array"
    BY <2>1 DEF Paired, Fine, Fail, FromNullFlat
  <2>2. CASE target.kind = "interval"
    BY <2>2 DEF Paired, Fine, Fail, FromNullFlat
  <2>3. CASE target.kind \notin {"array", "interval"}
    BY <2>3 DEF Paired, Fine, Fail, FromNullFlat
  <2> QED  BY <2>1, <2>2, <2>3
<1>2. Paired(FromInterval(config, target, rhs))
  BY DEF Paired, Fine, Fail, FromInterval
<1>3. Paired(FromEmpty(config, target))
  BY DEF Paired, Fine, Fail, FromEmpty
<1>4. Paired(FromArray(config, target, rhs))
  BY DEF Paired, Fine, Fail, FromArray
<1>5. \A why \in {"invalid-target", "unknown-size", "no-interval", "unknown-type", "no-tuple"} :
        Paired(Fail(why))
  BY DEF Paired, Fail
<1> QED  BY <1>1, <1>2, <1>3, <1>4, <1>5, MixedPaired, FinePaired DEF ConvertFlat

LEMMA FieldwisePaired ==
  ASSUME NEW fields, NEW n \in Nat, DOMAIN fields = 1 .. n, \A i \in 1 .. n : Paired(fields[i])
  PROVE  Paired(Fieldwise(fields))
<1> DEFINE bad == {i \in DOMAIN fields : ~Ok(fields[i])}
<1>1. CASE bad = {}
  BY <1>1, FinePaired DEF Fieldwise
<1>2. CASE bad # {}
  <2>1. Fieldwise(fields) = fields[Min(bad)]
    BY <1>2 DEF Fieldwise
  <2>2. bad \in SUBSET Nat
    OBVIOUS
  <2>3. Min(bad) \in bad
    <3> HIDE DEF bad
    <3> QED  BY <1>2, <2>2, SmallestOf
  <2> QED  BY <2>1, <2>3
<1> QED  BY <1>1, <1>2

LEMMA ConvertPaired ==
  ASSUME NEW config, NEW target, NEW rhs,
         target.kind = "tuple" => /\ Len(target.fields) \in Nat
                                  /\ DOMAIN target.fields = 1 .. Len(target.fields)
  PROVE  Paired(Convert(config, target, rhs))
<1>1. CASE target.kind # "tuple"
  BY <1>1, FlatPaired DEF Convert
<1>2. CASE target.kind = "tuple"
  <2> DEFINE n == Len(target.fields)
             f == [i \in DOMAIN target.fields |->
                     ConvertFlat(config, target.fields[i], rhs.fields[i])]
             g == [i \in DOMAIN target.fields |-> FromNullFlat(target.fields[i])]
  <2>1. n \in Nat /\ DOMAIN f = 1 .. n /\ DOMAIN g = 1 .. n
    BY <1>2
  <2>2. \A i \in 1 .. n : Paired(f[i]) /\ Paired(g[i])
    BY <1>2, FlatPaired
  <2>3. \/ Convert(config, target, rhs) \in {Fail("tuple-of-another-size"), Fieldwise(f), Fieldwise(g)}
        \/ Convert(config, target, rhs) = ConvertFlat(config, target, rhs)
    BY DEF Convert
  <2> HIDE DEF n, f, g
  <2>4. Paired(Fieldwise(f)) /\ Paired(Fieldwise(g)) /\ Paired(Fail("tuple-of-another-size"))
    BY <2>1, <2>2, FieldwisePaired DEF Fail, Paired
  <2> QED  BY <2>3, <2>4, FlatPaired
<1> QED  BY <1>1, <1>2

LEMMA UnaryPaired ==
  ASSUME NEW op, NEW v
  PROVE  Paired(Unary(op, v))
BY DEF Paired, Unary, Fine, Fail

LEMMA SameSizePaired ==
  ASSUME NEW op, NEW elem, NEW dims
  PROVE  Paired(SameTypeSameSize(op, elem, dims))
<1>1. Paired(Fail("no-such-operator"))
  BY DEF Paired, Fail
<1> QED  BY <1>1, FinePaired DEF SameTypeSameSize

LEMMA CommonPaired ==
  ASSUME NEW op, NEW p, NEW q, NEW target, NEW b, NEW c
  PROVE  Paired(WithCommonElement(op, p, q, target, b, c))
<1>1. Paired(Fail("no-common-element-type"))
  BY DEF Paired, Fail
<1> QED  BY <1>1, SameSizePaired, FlatPaired DEF WithCommonElement, Promoted

LEMMA SpecTypesPaired ==
  ASSUME NEW op, NEW p, NEW q, NEW size
  PROVE  Paired(SpecTypes(op, p, q, size))
<1>1. \A why \in {"empty-array-operand", "no-such-interval-operator", "product-with-no-matrix",
                  "no-common-element-type", "product-of-other-sizes", "product-of-non-numbers"} :
        Paired(Fail(why))
  BY DEF Paired, Fail
<1>2. \A u, v : Paired(IntervalBinary(op, u, v, size))
  BY <1>1, FinePaired DEF IntervalBinary
<1>3. Paired(WithInterval(op, p, q, size))
  BY <1>2, FlatPaired DEF WithInterval
<1>4. Paired(MatrixProduct(p, q))
  BY <1>1, FinePaired, FlatPaired DEF MatrixProduct
<1>5. CASE op = "range"
  BY <1>1, <1>5, FinePaired, FlatPaired DEF SpecTypes
<1>6. CASE op = "by"
  BY <1>1, <1>6, FinePaired, FlatPaired DEF SpecTypes
<1>7. CASE op \notin {"range", "by"}
  BY <1>1, <1>3, <1>4, <1>7, CommonPaired DEF SpecTypes
<1> QED  BY <1>5, <1>6, <1>7

LEMMA ConcatPaired ==
  ASSUME NEW a, NEW b
  PROVE  Paired(Concat(a, b))
<1>1. \A why \in {"concatenation-of-no-vector", "undefined:not-both-arrays",
                  "concatenation-of-scalars", "no-common-element-type",
                  "element-of-another-type", "no-such-operator"} : Paired(Fail(why))
  BY DEF Paired, Fail
<1>2. \A p, q : Paired(Concatenated(p, q))
  BY <1>1, FinePaired DEF Concatenated
<1> QED  BY <1>2, MixedPaired DEF Concat

LEMMA IndexedPaired ==
  ASSUME NEW base, NEW n \in 1 .. 2, NEW indices, DOMAIN indices = 1 .. n
  PROVE  Paired(Indexed(base, indices))
<1> DEFINE values == [i \in DOMAIN indices |-> IndexValue(indices[i])]
           bad == {i \in DOMAIN indices : ~Ok(values[i])}
<1>1. \A index : Paired(IndexValue(index))
  <2> SUFFICES ASSUME NEW index PROVE Paired(IndexValue(index))
    OBVIOUS
  <2>1. \A d : Array("integer", d).kind # "tuple"
    BY DEF Array, Record
  <2> QED  BY <2>1, ConvertPaired DEF IndexValue
<1>2. \A i \in bad : Paired(values[i])
  BY <1>1
<1>3. bad \in SUBSET Nat
  OBVIOUS
<1> HIDE DEF bad
<1>4. bad # {} => Paired(values[Min(bad)])
  BY <1>2, <1>3, SmallestOf
<1>5. \A why \in {"index-of-an-empty-array", "index-of-another-dimension",
                  "index-by-a-matrix-or-a-tuple"} : Paired(Fail(why))
  BY DEF Paired, Fail
<1> DEFINE array == IF IsMixed(base) THEN MixedToSameType(base)
                    ELSE IF base.kind = "interval" THEN Fine(Array("integer", base.dims))
                    ELSE Fine(base)
<1>6. Paired(array)
  BY MixedPaired, FinePaired
<1>7. \/ \E v : Indexed(base, indices) = Fine(v)
      \/ Indexed(base, indices) \in {Fail("index-of-an-empty-array"),
           Fail("index-of-another-dimension"), Fail("index-by-a-matrix-or-a-tuple"), array}
      \/ bad # {} /\ Indexed(base, indices) = values[Min(bad)]
  BY DEF Indexed, bad
<1> HIDE DEF values, array
<1> QED  BY <1>4, <1>5, <1>6, <1>7, FinePaired

LEMMA LiteralPaired ==
  ASSUME NEW elements
  PROVE  Paired(VectorLiteral(elements))
<1>1. Paired(Fail("tuple-in-a-literal")) /\ Paired(Fail("literal-of-matrices-or-tuples"))
  BY DEF Paired, Fail
<1>2. Paired(MatrixLiteral(elements))
  BY <1>1, FinePaired DEF MatrixLiteral
<1> QED  BY <1>1, <1>2, FinePaired DEF VectorLiteral

LEMMA FieldPaired ==
  ASSUME NEW v, NEW position
  PROVE  Paired(Field(v, position))
BY DEF Paired, Field, Fine, Fail

LEMMA GeneratedPaired ==
  ASSUME NEW n, NEW v
  PROVE  Paired(Generated(n, v))
<1>1. Paired(Fail("generator-of-matrices-or-tuples"))
  BY DEF Paired, Fail
<1> QED  BY <1>1, FinePaired, MixedPaired, LiteralPaired DEF Generated

LEMMA FirstIsValue ==
  ASSUME NEW a, Value(a), NEW b, Value(b), Ok(Concrete(a)), Ok(Concrete(b)), Ok(First(a, b))
  PROVE  Settled(First(a, b).value) \/ First(a, b).value = EmptyArray
<1>1. /\ Settled(Concrete(a).value) \/ Concrete(a).value = EmptyArray
      /\ Settled(Concrete(b).value) \/ Concrete(b).value = EmptyArray
      /\ Value(Concrete(a).value)
  BY ConcreteIsSettled DEF Value
<1>2. CASE a.elem \notin NullOrIdentity
  BY <1>1, <1>2 DEF First
<1>3. CASE a.elem \in NullOrIdentity
  <2> DEFINE t == Concrete(b).value
             rhs == Concrete(a).value
  <2>1. First(a, b) = Convert(Promotion, t, rhs) /\ Value(rhs) /\ Ok(Convert(Promotion, t, rhs))
    BY <1>1, <1>3 DEF First
  <2>2. CASE Settled(t)
    <3> HIDE DEF t, rhs
    <3> QED  BY <2>1, <2>2, SettledIsTarget, Converted
  <2>3. CASE t = EmptyArray
    <3>1. t.kind = "empty"
      BY <2>3, EmptyFields
    <3> HIDE DEF t, rhs
    <3>2. Convert(Promotion, t, rhs) = ConvertFlat(Promotion, t, rhs)
      BY <3>1 DEF Convert
    <3> QED  BY <2>1, <3>1, <3>2, ToNothing
  <2> QED  BY <1>1, <2>2, <2>3
<1> QED  BY <1>2, <1>3

LEMMA OperandsPaired ==
  ASSUME NEW a, Value(a), NEW b, Value(b), Ok(Concrete(a)), Ok(Concrete(b))
  PROVE  Paired(First(a, b)) /\ (Ok(First(a, b)) => Paired(Second(a, b)))
<1>1. \A v : Settled(v) \/ v = EmptyArray =>
        (v.kind = "tuple" => Len(v.fields) \in Nat /\ DOMAIN v.fields = 1 .. Len(v.fields))
  BY ValueFields DEF TupleOfFlat, Value
<1>2. Settled(Concrete(b).value) \/ Concrete(b).value = EmptyArray
  BY ConcreteIsSettled
<1>3. Paired(First(a, b))
  BY <1>1, <1>2, ConvertPaired, MixedPaired DEF First
<1>4. ASSUME Ok(First(a, b)) PROVE Paired(Second(a, b))
  <2>1. Settled(First(a, b).value) \/ First(a, b).value = EmptyArray
    BY <1>4, FirstIsValue
  <2> QED  BY <1>1, <2>1, ConvertPaired, MixedPaired DEF Second
<1> QED  BY <1>3, <1>4

LEMMA TuplesPaired ==
  ASSUME NEW p, TupleOfFlat(p), NEW q, TupleOfFlat(q)
  PROVE  Paired(TupleBinary(p, q))
<1> DEFINE m == Min({Len(p.fields), Len(q.fields)})
           equal == [i \in 1 .. m |-> Prepared(p.fields[i], q.fields[i],
                                               LAMBDA f, g : SpecTypes("equal", f, g, 1))]
<1>1. p.kind = "tuple" /\ q.kind = "tuple"
  BY TupleFields
<1>2. m \in Nat /\ m <= Len(p.fields) /\ m <= Len(q.fields)
  <2>1. Len(p.fields) \in Nat /\ Len(q.fields) \in Nat
    BY DEF TupleOfFlat
  <2>2. m = IF Len(p.fields) <= Len(q.fields) THEN Len(p.fields) ELSE Len(q.fields)
    BY <2>1, MinOfTwo
  <2> QED  BY <2>1, <2>2
<1>3. ASSUME NEW i \in 1 .. m PROVE Paired(equal[i])
  <2> DEFINE a == p.fields[i]
             b == q.fields[i]
  <2>1. Value(a) /\ Value(b)
    BY <1>2 DEF TupleOfFlat, Value, Settled
  <2>2. \/ equal[i] = Concrete(a)
        \/ equal[i] = Concrete(b)
        \/ Ok(Concrete(a)) /\ Ok(Concrete(b)) /\ equal[i] = First(a, b)
        \/ /\ Ok(Concrete(a)) /\ Ok(Concrete(b)) /\ Ok(First(a, b))
           /\ equal[i] = Second(a, b)
        \/ equal[i] = SpecTypes("equal", First(a, b).value, Second(a, b).value, 1)
    BY DEF Prepared, First, Second
  <2> HIDE DEF a, b, equal
  <2> QED  BY <2>1, <2>2, OperandsPaired, MixedPaired, SpecTypesPaired
<1>4. DOMAIN equal = 1 .. m
  OBVIOUS
<1>5. TupleBinary(p, q) \in {Fieldwise(equal), Fail("undefined:no-such-field"),
                             Fine(Array("boolean", <<>>))}
  BY <1>1 DEF TupleBinary
<1> HIDE DEF equal, m
<1>6. Paired(Fieldwise(equal))
  BY <1>2, <1>3, <1>4, FieldwisePaired
<1>7. Paired(Fail("undefined:no-such-field"))
  BY DEF Paired, Fail
<1> QED  BY <1>5, <1>6, <1>7, FinePaired

LEMMA BinaryUnpaired ==
  ASSUME NEW op, NEW a, Value(a), NEW b, Value(b), NEW size, ~Paired(Binary(op, a, b, size))
  PROVE  /\ op \notin {"range", "by"}
         /\ Ok(Concrete(a)) /\ Ok(Concrete(b)) /\ Ok(First(a, b)) /\ Ok(Second(a, b))
         /\ ~(First(a, b).value.kind = "tuple" <=> Second(a, b).value.kind = "tuple")
<1> DEFINE p == First(a, b).value
           q == Second(a, b).value
           r == Binary(op, a, b, size)
           meets == /\ "tuple" \in {p.kind, q.kind} /\ op \notin {"range", "by"}
                    /\ {p.kind, q.kind} \cap {"interval", "empty"} = {}
<1>1. \/ r = Concrete(a)
      \/ r = Concrete(b)
      \/ Ok(Concrete(a)) /\ Ok(Concrete(b)) /\ r = First(a, b)
      \/ Ok(Concrete(a)) /\ Ok(Concrete(b)) /\ Ok(First(a, b)) /\ r = Second(a, b)
      \/ /\ Ok(Concrete(a)) /\ Ok(Concrete(b)) /\ Ok(First(a, b)) /\ Ok(Second(a, b))
         /\ r = IF meets THEN TupleBinary(p, q) ELSE SpecTypes(op, p, q, size)
  BY DEF Binary, Prepared, First, Second
<1>2. ~Paired(r)
  OBVIOUS
<1> HIDE DEF p, q, r, meets
<1>3. /\ Ok(Concrete(a)) /\ Ok(Concrete(b)) /\ Ok(First(a, b)) /\ Ok(Second(a, b))
      /\ r = TupleBinary(p, q) /\ meets
  BY <1>1, <1>2, OperandsPaired, MixedPaired, SpecTypesPaired
<1>4. Value(p) /\ Value(q)
  BY <1>3, OperandsAreValues DEF p, q
<1>5. ~(p.kind = "tuple" /\ q.kind = "tuple")
  <2> SUFFICES ASSUME p.kind = "tuple", q.kind = "tuple" PROVE FALSE
    OBVIOUS
  <2>1. TupleOfFlat(p) /\ TupleOfFlat(q)
    BY <1>4, ValueFields
  <2> QED  BY <1>2, <1>3, <2>1, TuplesPaired
<1>6. op \notin {"range", "by"} /\ (p.kind = "tuple" \/ q.kind = "tuple")
  BY <1>3 DEF meets
<1> QED  BY <1>3, <1>5, <1>6 DEF p, q

\* Null becomes what it is promoted to.
LEMMA NullTakesKind ==
  ASSUME NEW t, Settled(t) \/ t = EmptyArray, NEW rhs, IsScalar(rhs), rhs.elem \in NullOrIdentity,
         Ok(Convert(Promotion, t, rhs))
  PROVE  Convert(Promotion, t, rhs).value.kind = "tuple" <=> t.kind = "tuple"
<1>0. rhs.kind = "array"
  BY DEF IsScalar
<1>1. CASE t.kind = "tuple"
  <2> DEFINE f == [i \in DOMAIN t.fields |-> FromNullFlat(t.fields[i])]
             n == Len(t.fields)
  <2>1. n \in Nat /\ DOMAIN f = 1 .. n
    BY <1>1, ValueFields DEF TupleOfFlat, Value
  <2>2. Convert(Promotion, t, rhs) = Fieldwise(f)
    BY <1>0, <1>1 DEF Convert
  <2> HIDE DEF f, n
  <2>3. Convert(Promotion, t, rhs).value = TupleValue([i \in 1 .. n |-> f[i].value])
    BY <2>1, <2>2, FieldsMakeTuple
  <2>4. \A g : TupleValue(g).kind = "tuple"
    BY DEF TupleValue, Record
  <2> QED  BY <1>1, <2>3, <2>4
<1>2. CASE t.kind # "tuple"
  <2>1. Convert(Promotion, t, rhs) = ConvertFlat(Promotion, t, rhs)
    BY <1>2 DEF Convert
  <2>2. ConvertFlat(Promotion, t, rhs) = FromNullFlat(t)
    BY <2>1 DEF ConvertFlat, Ok, Fail
  <2>3. FromNullFlat(t) = Fine(t) \/ FromNullFlat(t) = Fine(Interval(1))
    <3>1. CASE t.kind = "array"
      BY <2>1, <2>2, <3>1 DEF FromNullFlat, Ok, Fail
    <3>2. CASE t.kind = "interval"
      BY <2>1, <2>2, <3>2 DEF FromNullFlat, Ok, Fail
    <3>3. CASE t.kind \notin {"array", "interval"}
      BY <2>1, <2>2, <3>3 DEF FromNullFlat, Ok, Fail
    <3> QED  BY <3>1, <3>2, <3>3
  <2>4. Interval(1).kind # "tuple"
    BY DEF Interval, Record
  <2> QED  BY <1>2, <2>1, <2>2, <2>3, <2>4 DEF Fine
<1> QED  BY <1>1, <1>2

LEMMA KnownTuplesMeet ==
  ASSUME NEW op \in TableNames, NEW l, l \notin {Unknown, Invalid}, NEW r, r \notin {Unknown, Invalid},
         NEW a, Value(a), Described(l, a), NEW b, Value(b), Described(r, b), NEW size,
         BinaryOpType(op, l, r) # Rejected
  PROVE  Paired(Binary(op, a, b, size))
<1> SUFFICES ASSUME ~Paired(Binary(op, a, b, size)) PROVE FALSE
  OBVIOUS
<1> DEFINE p == First(a, b).value
           q == Second(a, b).value
<1>1. /\ Ok(Concrete(a)) /\ Ok(Concrete(b)) /\ Ok(First(a, b)) /\ Ok(Second(a, b))
      /\ ~(p.kind = "tuple" <=> q.kind = "tuple")
  BY BinaryUnpaired
<1>2. /\ a.elem \in NullOrIdentity => IsScalar(a)
      /\ b.elem \in NullOrIdentity => IsScalar(b)
      /\ a.kind = "tuple" <=> l.base = "tuple"
      /\ b.kind = "tuple" <=> r.base = "tuple"
  BY DescribedKinds, DescribedByBase, TypeBases
<1>3. \A v : v.elem \in NullOrIdentity => Concrete(v) = Fine(v)
  BY DEF Concrete, IsMixed, NullOrIdentity
<1>4. /\ Settled(Concrete(a).value) \/ Concrete(a).value = EmptyArray
      /\ Settled(Concrete(b).value) \/ Concrete(b).value = EmptyArray
      /\ Concrete(a).value.kind = a.kind /\ Concrete(b).value.kind = b.kind
      /\ Settled(p) \/ p = EmptyArray
  BY <1>1, ConcreteIsSettled, ConcreteIsDescribed, FirstIsValue
<1>5. CASE a.elem \in NullOrIdentity
  <2>1. Concrete(a).value = a /\ First(a, b) = Convert(Promotion, Concrete(b).value, Concrete(a).value)
    BY <1>3, <1>5 DEF First, Fine
  <2>2. p.kind = "tuple" <=> b.kind = "tuple"
    BY <1>1, <1>2, <1>4, <1>5, <2>1, NullTakesKind
  <2>3. CASE b.elem \in NullOrIdentity
    <3>1. Concrete(b).value = b /\ Second(a, b) = Convert(Promotion, p, Concrete(b).value)
      BY <1>3, <2>3 DEF Second, Fine
    <3> HIDE DEF p
    <3>2. q.kind = "tuple" <=> p.kind = "tuple"
      BY <1>1, <1>2, <1>4, <2>3, <3>1, NullTakesKind
    <3> QED  BY <1>1, <3>2
  <2>4. CASE b.elem \notin NullOrIdentity
    <3>1. q = Concrete(b).value
      BY <2>4 DEF Second
    <3> QED  BY <1>1, <1>4, <2>2, <3>1
  <2> QED  BY <2>3, <2>4
<1>6. CASE a.elem \notin NullOrIdentity /\ b.elem \in NullOrIdentity
  <2>1. Concrete(b).value = b /\ Second(a, b) = Convert(Promotion, p, Concrete(b).value)
    BY <1>3, <1>6 DEF Second, Fine
  <2> HIDE DEF p
  <2>2. q.kind = "tuple" <=> p.kind = "tuple"
    BY <1>1, <1>2, <1>4, <1>6, <2>1, NullTakesKind
  <2> QED  BY <1>1, <2>2
<1>7. CASE a.elem \notin NullOrIdentity /\ b.elem \notin NullOrIdentity
  <2>1. p = Concrete(a).value /\ q = Concrete(b).value
    BY <1>7 DEF First, Second
  <2>2. ~(l.base = "tuple" <=> r.base = "tuple")
    BY <1>1, <1>2, <1>4, <2>1
  <2>3. l # IdentityNull /\ r # IdentityNull
    BY <1>7, DescribedByBase, TypeBases
  <2>4. \A entry : ResultType(entry, l, r) # Rejected => entry # {}
    BY <2>3 DEF ResultType
  <2>5. \A t \in {Integer, Real, String, IntegerInterval} : t.base # "tuple"
    BY TypeBases
  <2>6. Id("integer", 1).base # "tuple" /\ Id("real", 1).base # "tuple" /\ Id("character", 1).base # "tuple"
    BY IdFields
  <2>7. Logical(l, r) = {}
    BY <2>2 DEF Logical, Entry
  <2>8. Arithmetic(l, r) = {}
    <3>1. IntervalRow(l, r) = {}
      BY <2>2, <2>5, <2>6 DEF IntervalRow, Entry
    <3>2. "tuple" \notin Numbers
      BY DEF Numbers
    <3> QED  BY <2>2, <2>5, <3>1, <3>2 DEF Arithmetic, Entry
  <2>9. Relational(l, r) = {}
    BY <2>2, <2>5 DEF Relational, Entry
  <2>10. Equality(l, r) = {}
    <3>1. ASSUME NEW u \in {l, r}, NEW v \in {l, r}, u = Integer, v.base = "real" PROVE FALSE
      <4>1. u.base = "integer"
        BY <3>1, TypeBases
      <4>2. l.base \in {"integer", "real"} /\ r.base \in {"integer", "real"}
        BY <3>1, <4>1
      <4> QED  BY <2>2, <4>2
    <3>2. {l, r} # {String, Id("character", 1)}
      BY <2>2, <2>5, <2>6
    <3>3. l.base # r.base
      BY <2>2
    <3> QED  BY <3>1, <3>2, <3>3 DEF Equality, Entry
  <2>11. \A u : u \in {Unknown} => u \notin {l, r}
    OBVIOUS
  <2> QED  BY <2>4, <2>7, <2>8, <2>9, <2>10, <2>11, OperatorTables DEF TableNames
<1> QED  BY <1>5, <1>6, <1>7

(***************************************************************************)
(* What the tables accept, the runtime computes.                           *)
(***************************************************************************)
Ordinary(t) == t.base \in Bases \cup {"string"}
ElementOf(t) == IF t.base = "string" THEN "character" ELSE t.base
DimensionOf(t) == IF t.base = "string" THEN 1 ELSE t.dim

LEMMA OrdinaryConcrete ==
  ASSUME NEW t, Ordinary(t), NEW v, Value(v), Described(t, v)
  PROVE  /\ v.elem \notin NullOrIdentity
         /\ ElementOf(t) \in Bases /\ DimensionOf(t) \in 0 .. 2
         /\ ~Ok(Concrete(v)) => Concrete(v).why = "literal-of-different-types"
         /\ Ok(Concrete(v)) =>
              LET w == Concrete(v).value IN
              FlatArray(w) /\ w.elem = ElementOf(t) /\ Len(w.dims) = DimensionOf(t)
<1>1. CASE t.base = "string"
  <2>1. IsVector(v) /\ v.elem = "character"
    BY <1>1, DescribedByBase
  <2>2. FlatArray(v)
    BY <2>1, IntervalFields, TupleFields, EmptyFields
       DEF IsVector, Value, Settled, FlatValue, LiteralArray
  <2>3. Concrete(v).value = v /\ Ok(Concrete(v))
    BY <2>1 DEF Concrete, IsMixed, Fine, Ok
  <2>4. "character" \in Bases /\ "character" \notin NullOrIdentity
    BY DEF Bases, NullOrIdentity
  <2> QED  BY <1>1, <2>1, <2>2, <2>3, <2>4 DEF ElementOf, DimensionOf, IsVector
<1>2. CASE t.base \in Bases
  <2>1. ArrayDescribed(t, v) /\ t.base # "string"
    BY <1>2, DescribedByBase DEF Bases, Numbers
  <2>2. v.elem \notin NullOrIdentity
    BY <1>2, <2>1 DEF ArrayDescribed, Bases, Numbers, NullOrIdentity
  <2>3. ASSUME ~Ok(Concrete(v)) PROVE Concrete(v).why = "literal-of-different-types"
    <3>1. IsMixed(v) /\ Concrete(v) = MixedToSameType(v)
      BY <2>3 DEF Concrete, Fine, Ok
    <3>2. LiteralArray(v)
      BY <3>1, FlatArrayFields, ValueFields DEF IsMixed
    <3>3. TotalLength(v) # 0
      BY <2>1, <3>1, <3>2 DEF ArrayDescribed, IsMixed, LiteralArray
    <3>4. \/ Concrete(v) = Fail("literal-of-different-types")
          \/ \E w : Concrete(v) = Fine(w)
      BY <3>1, <3>3 DEF MixedToSameType
    <3> QED  BY <2>3, <3>4 DEF Fine, Fail, Ok
  <2>4. t.dim \in 0 .. 2
    BY <2>1 DEF ArrayDescribed, IsArrayType
  <2>5. Ok(Concrete(v)) =>
              LET w == Concrete(v).value IN
              FlatArray(w) /\ w.elem = t.base /\ Len(w.dims) = t.dim
    BY <1>2, ConcreteArray
  <2> QED  BY <1>2, <2>1, <2>2, <2>3, <2>4, <2>5 DEF ElementOf, DimensionOf
<1> QED  BY <1>1, <1>2 DEF Ordinary

LEMMA PromotionFails ==
  ASSUME NEW t, t.kind = "array", t.elem \in Bases, t.dims \in Seq(Nat),
         NEW v, FlatArray(v), v.elem \in Bases, Promotes(t.elem, v.elem),
         ~Ok(ConvertFlat(Promotion, t, v))
  PROVE  LET why == ConvertFlat(Promotion, t, v).why IN
         \/ why = "array-of-another-size"
         \/ why = "array-of-another-element-type" /\ v.elem # t.elem
         \/ /\ why = "array-of-another-dimension"
            /\ Len(t.dims) < Len(v.dims) \/ (Len(t.dims) = 2 /\ Len(v.dims) = 1)
<1>1. /\ ~IsMixed(t) /\ t.kind \notin {"empty", "interval", "unknown", "tuple"}
      /\ v.kind = "array" /\ v.elem \notin NullOrIdentity /\ t.elem \in BasicElements
  BY FlatArrayFields DEF IsMixed, Bases, Numbers, BasicElements, NullOrIdentity
<1>2. ~HasUnknownSize(t)
  BY DEF HasUnknownSize
<1>3. ConvertFlat(Promotion, t, v) = FromArray(Promotion, t, v)
  BY <1>1, <1>2 DEF ConvertFlat
<1>4. ArrayConverts(FALSE, t.elem, v)
  <2>1. t.elem \in Elements /\ v.elem \in Elements /\ ~IsMixed(v)
    BY FlatArrayFields DEF Elements, Bases, Numbers, BasicElements, IsMixed
  <2> QED  BY <2>1, PromotesIsConverts DEF ArrayConverts
<1>5. Promotion.isCast = FALSE
  BY DEF Promotion, Config
<1> DEFINE r == FromArray(Promotion, t, v)
<1>6. \/ r = Fail("array-of-another-element-type") /\ v.elem # t.elem
      \/ /\ r = Fail("array-of-another-dimension")
         /\ Len(t.dims) < Len(v.dims) \/ (Len(t.dims) = 2 /\ Len(v.dims) = 1)
      \/ r = Fail("array-of-another-size")
      \/ \E w : r = Fine(w)
  BY <1>1, <1>2, <1>4, <1>5 DEF FromArray, NDim
<1> HIDE DEF r
<1>7. ~Ok(r) /\ ConvertFlat(Promotion, t, v) = r
  BY <1>3 DEF r
<1> QED  BY <1>6, <1>7 DEF Fine, Fail, Ok

LEMMA SameSizeFails ==
  ASSUME NEW op \in TableNames, NEW elem \in Bases, NEW dims, ~Ok(SameTypeSameSize(op, elem, dims))
  PROVE  /\ SameTypeSameSize(op, elem, dims).why = "no-such-operator"
         /\ op \in LogicalOps => elem # "boolean"
         /\ op \in ArithmeticOps \cup RelationalOps => elem \notin Numbers
         /\ op \in EqualityOps => elem = "character"
<1>1. LogicalOps = {"and", "or", "xor"} /\ ArithmeticOps = Arithmetics
      /\ RelationalOps = Orders /\ EqualityOps = Comparisons
  BY DEF LogicalOps, ArithmeticOps, RelationalOps, EqualityOps, Arithmetics, Orders, Comparisons
<1>2. \A v : Ok(Fine(v))
  BY DEF Ok, Fine
<1>3. ~(op \in Comparisons /\ elem \in {"boolean", "integer", "real"})
  BY <1>2 DEF SameTypeSameSize, Comparisons, Orders, Arithmetics
<1>4. ~(op \in {"and", "or", "xor"} /\ elem = "boolean")
  BY <1>2 DEF SameTypeSameSize, Comparisons, Orders, Arithmetics
<1>5. ~(op \in Orders /\ elem \in {"integer", "real"})
  BY <1>2 DEF SameTypeSameSize, Comparisons, Orders, Arithmetics
<1>6. ~(op \in Arithmetics /\ elem \in {"integer", "real"})
  BY <1>2 DEF SameTypeSameSize, Comparisons, Orders, Arithmetics
<1>7. op # "dot"
  BY DEF TableNames, LogicalOps, ArithmeticOps, RelationalOps, EqualityOps
<1>8. SameTypeSameSize(op, elem, dims) = Fail("no-such-operator")
  BY <1>3, <1>4, <1>5, <1>6, <1>7 DEF SameTypeSameSize
<1>9. SameTypeSameSize(op, elem, dims).why = "no-such-operator"
  BY <1>8 DEF Fail
<1> QED  BY <1>1, <1>3, <1>4, <1>5, <1>6, <1>9 DEF Bases, Numbers

LEMMA ArraysTogetherFail ==
  ASSUME NEW op \in TableNames, NEW p, FlatArray(p), p.elem \in Bases,
         NEW q, FlatArray(q), q.elem \in Bases,
         p.elem = q.elem \/ {p.elem, q.elem} = Numbers,
         NEW size, ~Ok(SpecTypes(op, p, q, size))
  PROVE  LET why == SpecTypes(op, p, q, size).why IN
         \/ why = "array-of-another-size"
         \/ why = "array-of-another-element-type" /\ {p.elem, q.elem} = Numbers
         \/ /\ why = "array-of-another-dimension"
            /\ Len(p.dims) # Len(q.dims) /\ 0 \notin {Len(p.dims), Len(q.dims)}
         \/ /\ why = "no-such-operator"
            /\ op \in LogicalOps => p.elem # "boolean" \/ q.elem # "boolean"
            /\ op \in ArithmeticOps \cup RelationalOps => ~({p.elem, q.elem} \subseteq Numbers)
            /\ op \in EqualityOps => p.elem = "character" /\ q.elem = "character"
<1> DEFINE target == IF NDim(p) > NDim(q) THEN p ELSE q
           r == SpecTypes(op, p, q, size)
<1>1. p.kind = "array" /\ q.kind = "array" /\ op \notin {"range", "by", "dot"}
  BY FlatArrayFields DEF TableNames, LogicalOps, ArithmeticOps, RelationalOps, EqualityOps
<1>2. r = WithCommonElement(op, p, q, target, p.elem, q.elem)
  BY <1>1, ArraysTogether
<1>3. PICK elem \in Bases : /\ PromotedBetween(p.elem, q.elem) = {elem}
                            /\ elem \in {p.elem, q.elem}
                            /\ p.elem = q.elem => elem = p.elem
                            /\ p.elem # q.elem => elem = "real"
  <2>1. CASE p.elem = q.elem
    BY <2>1, CommonBase
  <2>2. CASE p.elem # q.elem
    <3>1. PromotedBetween(p.elem, q.elem) = {"real"} /\ "real" \in {p.elem, q.elem}
      BY <2>2, CommonBase DEF Numbers
    <3> QED  BY <2>2, <3>1
  <2> QED  BY <2>1, <2>2
<1>4. (CHOOSE e \in PromotedBetween(p.elem, q.elem) : TRUE) = elem
  BY <1>3
<1> DEFINE t == [target EXCEPT !.elem = elem]
<1>5. /\ target.kind = "array" /\ target.dims \in Seq(Nat)
      /\ Len(p.dims) \in 0 .. 2 /\ Len(q.dims) \in 0 .. 2
      /\ Len(target.dims) = IF Len(p.dims) > Len(q.dims) THEN Len(p.dims) ELSE Len(q.dims)
  BY <1>1, FlatArrayFields DEF NDim
<1>6. t.kind = "array" /\ t.elem = elem /\ t.dims = target.dims
  <2>1. IsRecord(target)
    BY DEF FlatArray, ArrayOver
  <2> HIDE DEF target
  <2>2. \A s : IsRecord(s) => LET u == [s EXCEPT !.elem = elem] IN
                              u.kind = s.kind /\ u.elem = elem /\ u.dims = s.dims
    BY DEF IsRecord, Record
  <2>3. t.kind = target.kind /\ t.elem = elem /\ t.dims = target.dims
    BY Zenon, <2>1, <2>2
  <2> QED  BY <1>5, <2>3
<1> HIDE DEF target
<1>7. \/ r = ConvertFlat(Promotion, t, p) /\ ~Ok(ConvertFlat(Promotion, t, p))
      \/ r = ConvertFlat(Promotion, t, q) /\ ~Ok(ConvertFlat(Promotion, t, q))
      \/ r = SameTypeSameSize(op, elem, target.dims)
  BY <1>2, <1>3, <1>4 DEF WithCommonElement, Promoted
<1>8. Promotes(elem, p.elem) /\ Promotes(elem, q.elem)
  BY <1>3 DEF Promotes, Bases, Numbers, BasicElements
<1>9. ~Ok(r)
  OBVIOUS
<1> HIDE DEF t, r
<1>10. CASE r = SameTypeSameSize(op, elem, target.dims)
  <2>1. /\ r.why = "no-such-operator"
        /\ op \in LogicalOps => elem # "boolean"
        /\ op \in ArithmeticOps \cup RelationalOps => elem \notin Numbers
        /\ op \in EqualityOps => elem = "character"
    BY <1>9, <1>10, SameSizeFails
  <2>2. "real" \in Numbers /\ "real" # "character"
    BY DEF Numbers
  <2> QED  BY <1>3, <2>1, <2>2 DEF r
<1>11. ASSUME NEW v \in {p, q}, r = ConvertFlat(Promotion, t, v), ~Ok(ConvertFlat(Promotion, t, v))
       PROVE  \/ r.why = "array-of-another-size"
              \/ r.why = "array-of-another-element-type" /\ {p.elem, q.elem} = Numbers
              \/ /\ r.why = "array-of-another-dimension"
                 /\ Len(p.dims) # Len(q.dims) /\ 0 \notin {Len(p.dims), Len(q.dims)}
  <2>1. \/ r.why = "array-of-another-size"
        \/ r.why = "array-of-another-element-type" /\ v.elem # elem
        \/ /\ r.why = "array-of-another-dimension"
           /\ Len(t.dims) < Len(v.dims) \/ (Len(t.dims) = 2 /\ Len(v.dims) = 1)
    <3>1. /\ t.kind = "array" /\ t.elem \in Bases /\ t.dims \in Seq(Nat)
          /\ FlatArray(v) /\ v.elem \in Bases /\ Promotes(t.elem, v.elem)
      BY <1>5, <1>6, <1>8
    <3> QED  BY <1>6, <1>11, <3>1, PromotionFails
  <2>2. v.elem # elem => {p.elem, q.elem} = Numbers
    BY <1>3
  <2>3. ASSUME Len(t.dims) < Len(v.dims) \/ (Len(t.dims) = 2 /\ Len(v.dims) = 1)
        PROVE  Len(p.dims) # Len(q.dims) /\ 0 \notin {Len(p.dims), Len(q.dims)}
    <3>1. Len(v.dims) = Len(p.dims) \/ Len(v.dims) = Len(q.dims)
      BY <1>11
    <3>2. Len(t.dims) = IF Len(p.dims) > Len(q.dims) THEN Len(p.dims) ELSE Len(q.dims)
      BY <1>5, <1>6
    <3> DEFINE m == Len(p.dims)
               n == Len(q.dims)
               k == Len(v.dims)
               j == Len(t.dims)
    <3>3. m \in 0 .. 2 /\ n \in 0 .. 2 /\ (k = m \/ k = n) /\ j = (IF m > n THEN m ELSE n)
          /\ (j < k \/ (j = 2 /\ k = 1))
      BY <1>5, <2>3, <3>1, <3>2
    <3> HIDE DEF m, n, k, j
    <3>4. m # n /\ 0 \notin {m, n}
      BY <3>3
    <3> QED  BY <3>4 DEF m, n
  <2> QED  BY <2>1, <2>2, <2>3
<1> QED  BY <1>7, <1>10, <1>11 DEF r

\* The stops AcceptedOperationsRun allows.
MayStop(op, l, r, why) ==
  \/ why \in {"array-of-another-size", "literal-of-different-types"}
  \/ TablesAcceptMore(op, l, r, why)

LEMMA OrdinaryTypes ==
  ASSUME NEW t, Ordinary(t), NEW v, Described(t, v)
  PROVE  /\ t \notin {Unknown, Invalid, IdentityNull, IntegerInterval} /\ t.base # "tuple"
         /\ t.base = "string" => t = String /\ t.dim = 0
         /\ t.base # "string" => t.base \in Bases /\ t = Id(t.base, t.dim) /\ t.dim \in 0 .. 2
<1>1. /\ t.base \notin {"unknown", "invalid", "identitynull", "integer-interval", "tuple"}
      /\ "string" \notin Bases
  BY DEF Ordinary, Bases, Numbers
<1>2. t \notin {Unknown, Invalid, IdentityNull, IntegerInterval}
  BY <1>1, TypeBases
<1>3. t.base = "string" => t = String /\ t.dim = 0
  BY DescribedByBase, TypeBases
<1>4. t.base # "string" => t.base \in Bases /\ t = Id(t.base, t.dim) /\ t.dim \in 0 .. 2
  BY DescribedByBase DEF Ordinary, ArrayDescribed, IsArrayType
<1> QED  BY <1>1, <1>2, <1>3, <1>4

LEMMA EntryOfOrdinary ==
  ASSUME NEW entry, NEW l, NEW r, {Unknown, Invalid, IdentityNull} \cap {l, r} = {}
  PROVE  /\ ResultType(entry, l, r) # Rejected => entry # {}
         /\ (\A id \in entry : id.base \notin {"wild"}) => ResultType(entry, l, r) # Wild
<1>1. ResultType(entry, l, r) =
        IF entry = {} THEN Rejected ELSE GetType(CHOOSE id \in entry : TRUE)
  BY DEF ResultType
<1>2. \A id : id.base # "wild" => GetType(id) # Wild
  BY TypeBases, IdFields DEF GetType
<1>3. Rejected # Wild
  BY TypeBases
<1> QED  BY <1>1, <1>2, <1>3

\* Only bases of one kind meet in the tables.
LEMMA AcceptedBases ==
  ASSUME NEW op \in TableNames, NEW l, Ordinary(l), NEW r, Ordinary(r),
         NEW a, Described(l, a), NEW b, Described(r, b), BinaryOpType(op, l, r) # Rejected
  PROVE  /\ op \in LogicalOps => l.base = "boolean" /\ r.base = "boolean"
         /\ op \in ArithmeticOps \cup RelationalOps =>
              {l.base, r.base} \subseteq Numbers /\ (l.dim = r.dim \/ 0 \in {l.dim, r.dim})
         /\ op \in EqualityOps =>
              /\ ElementOf(l) = ElementOf(r) \/ {l.base, r.base} = Numbers
              /\ \/ DimensionOf(l) = DimensionOf(r) \/ 0 \in {DimensionOf(l), DimensionOf(r)}
<1>1. /\ l \notin {Unknown, Invalid, IdentityNull, IntegerInterval}
      /\ r \notin {Unknown, Invalid, IdentityNull, IntegerInterval}
  BY OrdinaryTypes
<1>2. ASSUME op \in LogicalOps PROVE l.base = "boolean" /\ r.base = "boolean"
  <2>1. Logical(l, r) # {}
    BY <1>1, <1>2, OperatorTables, EntryOfOrdinary
  <2> QED  BY <2>1 DEF Logical, Entry
<1>3. ASSUME op \in ArithmeticOps
      PROVE  {l.base, r.base} \subseteq Numbers /\ (l.dim = r.dim \/ 0 \in {l.dim, r.dim})
  <2>1. Arithmetic(l, r) # {}
    BY <1>1, <1>3, OperatorTables, EntryOfOrdinary
  <2>2. IntervalRow(l, r) = {}
    BY <1>1 DEF IntervalRow, Entry
  <2> QED  BY <1>1, <2>1, <2>2 DEF Arithmetic, Entry
<1>4. ASSUME op \in RelationalOps
      PROVE  {l.base, r.base} \subseteq Numbers /\ (l.dim = r.dim \/ 0 \in {l.dim, r.dim})
  <2>1. Relational(l, r) # {}
    BY <1>1, <1>4, OperatorTables, EntryOfOrdinary
  <2>2. {l, r} \subseteq {Integer, Real}
    BY <2>1 DEF Relational, Entry
  <2> QED  BY <2>2, TypeBases DEF Numbers
<1>5. ASSUME op \in EqualityOps
      PROVE  /\ ElementOf(l) = ElementOf(r) \/ {l.base, r.base} = Numbers
             /\ DimensionOf(l) = DimensionOf(r) \/ 0 \in {DimensionOf(l), DimensionOf(r)}
  <2>1. Equality(l, r) # {}
    BY <1>1, <1>5, OperatorTables, EntryOfOrdinary
  <2>2. \/ l.base = r.base /\ (l.dim = r.dim \/ 0 \in {l.dim, r.dim})
        \/ \E u \in {l, r}, v \in {l, r} : u = Integer /\ v.base = "real"
        \/ {l, r} = {String, Id("character", 1)}
    BY <2>1 DEF Equality, Entry
  <2>3. CASE l.base = r.base /\ (l.dim = r.dim \/ 0 \in {l.dim, r.dim})
    <3>1. ElementOf(l) = ElementOf(r)
      BY <2>3 DEF ElementOf
    <3>2. DimensionOf(l) = DimensionOf(r) \/ 0 \in {DimensionOf(l), DimensionOf(r)}
      BY <2>3 DEF DimensionOf
    <3> QED  BY <3>1, <3>2
  <2>4. CASE \E u \in {l, r}, v \in {l, r} : u = Integer /\ v.base = "real"
    <3>1. PICK u \in {l, r}, v \in {l, r} : u = Integer /\ v.base = "real"
      BY <2>4
    <3>2. u.base = "integer" /\ u.dim = 0 /\ u # v
      BY <3>1, TypeBases
    <3>3. {l.base, r.base} = Numbers
      BY <3>1, <3>2 DEF Numbers
    <3>4. DimensionOf(u) = 0
      BY <3>2 DEF DimensionOf
    <3> QED  BY <3>3, <3>4
  <2>5. CASE {l, r} = {String, Id("character", 1)}
    <3>1. \A t \in {String, Id("character", 1)} : ElementOf(t) = "character" /\ DimensionOf(t) = 1
      BY TypeBases, IdFields DEF ElementOf, DimensionOf
    <3> QED  BY <2>5, <3>1
  <2> QED  BY <2>2, <2>3, <2>4, <2>5
<1> QED  BY <1>2, <1>3, <1>4, <1>5

LEMMA BinaryMayStop ==
  ASSUME NEW op \in TableNames, NEW l, Ordinary(l), NEW r, Ordinary(r),
         NEW a, Value(a), Described(l, a), NEW b, Value(b), Described(r, b), NEW size,
         BinaryOpType(op, l, r) # Rejected, ~Ok(Binary(op, a, b, size))
  PROVE  MayStop(op, l, r, Binary(op, a, b, size).why)
<1> DEFINE p == Concrete(a).value
           q == Concrete(b).value
           x1 == Binary(op, a, b, size)
<1>1. /\ a.elem \notin NullOrIdentity /\ b.elem \notin NullOrIdentity
      /\ ~Ok(Concrete(a)) => Concrete(a).why = "literal-of-different-types"
      /\ ~Ok(Concrete(b)) => Concrete(b).why = "literal-of-different-types"
  BY OrdinaryConcrete
<1>2. CASE ~Ok(Concrete(a)) \/ ~Ok(Concrete(b))
  <2>1. \/ ~Ok(Concrete(a)) /\ x1 = Concrete(a)
        \/ ~Ok(Concrete(b)) /\ x1 = Concrete(b)
    BY <1>1, <1>2, OperandsAsTheyAre
  <2> HIDE DEF x1
  <2>2. x1.why = "literal-of-different-types"
    BY <1>1, <2>1
  <2> QED  BY <2>2 DEF MayStop, x1
<1>3. CASE Ok(Concrete(a)) /\ Ok(Concrete(b))
  <2>1. /\ FlatArray(p) /\ p.elem = ElementOf(l) /\ Len(p.dims) = DimensionOf(l)
        /\ FlatArray(q) /\ q.elem = ElementOf(r) /\ Len(q.dims) = DimensionOf(r)
        /\ ElementOf(l) \in Bases /\ ElementOf(r) \in Bases
    BY <1>3, OrdinaryConcrete
  <2>2. p.kind = "array" /\ q.kind = "array"
    BY <2>1, FlatArrayFields
  <2>3. x1 = SpecTypes(op, p, q, size)
    BY <1>1, <1>3, <2>2, OperandsAsTheyAre
  <2>4. ~Ok(x1)
    OBVIOUS
  <2>5. /\ op \in LogicalOps => l.base = "boolean" /\ r.base = "boolean"
        /\ op \in ArithmeticOps \cup RelationalOps =>
             {l.base, r.base} \subseteq Numbers /\ (l.dim = r.dim \/ 0 \in {l.dim, r.dim})
        /\ op \in EqualityOps =>
             /\ ElementOf(l) = ElementOf(r) \/ {l.base, r.base} = Numbers
             /\ \/ DimensionOf(l) = DimensionOf(r) \/ 0 \in {DimensionOf(l), DimensionOf(r)}
    BY AcceptedBases
  <2>6. /\ l.base \in Bases => ElementOf(l) = l.base /\ DimensionOf(l) = l.dim
        /\ r.base \in Bases => ElementOf(r) = r.base /\ DimensionOf(r) = r.dim
        /\ l.base \notin Bases => l.base = "string" /\ ElementOf(l) = "character"
        /\ r.base \notin Bases => r.base = "string" /\ ElementOf(r) = "character"
    BY DEF ElementOf, DimensionOf, Ordinary, Bases, Numbers
  <2>7. Numbers \subseteq Bases /\ "boolean" \in Bases /\ "character" \notin Numbers
        /\ "string" \notin Bases /\ "boolean" \notin Numbers
    BY DEF Numbers, Bases
  <2>8. \A u, v \in Bases : {u, v} \subseteq Numbers => u = v \/ {u, v} = Numbers
    BY DEF Numbers, Bases
  <2>9. p.elem = q.elem \/ {p.elem, q.elem} = Numbers
    <3>1. CASE op \in LogicalOps
      BY <2>1, <2>5, <2>6, <2>7, <3>1
    <3>2. CASE op \in ArithmeticOps \cup RelationalOps
      BY <2>1, <2>5, <2>6, <2>7, <2>8, <3>2
    <3>3. CASE op \in EqualityOps
      BY <2>1, <2>5, <2>6, <2>7, <3>3
    <3> QED  BY <3>1, <3>2, <3>3 DEF TableNames
  <2> HIDE DEF p, q, x1
  <2>10. \/ x1.why = "array-of-another-size"
         \/ x1.why = "array-of-another-element-type" /\ {p.elem, q.elem} = Numbers
         \/ /\ x1.why = "array-of-another-dimension"
            /\ Len(p.dims) # Len(q.dims) /\ 0 \notin {Len(p.dims), Len(q.dims)}
         \/ /\ x1.why = "no-such-operator"
            /\ op \in LogicalOps => p.elem # "boolean" \/ q.elem # "boolean"
            /\ op \in ArithmeticOps \cup RelationalOps => ~({p.elem, q.elem} \subseteq Numbers)
            /\ op \in EqualityOps => p.elem = "character" /\ q.elem = "character"
    BY <2>1, <2>3, <2>4, <2>9, ArraysTogetherFail
  <2>11. CASE x1.why = "array-of-another-size"
    BY <2>11 DEF MayStop, x1
  <2>12. CASE x1.why = "array-of-another-element-type" /\ {p.elem, q.elem} = Numbers
    <3>1. {l.base, r.base} = Numbers
      BY <2>1, <2>6, <2>7, <2>12
    <3> QED  BY <2>12, <3>1 DEF MayStop, TablesAcceptMore, x1
  <2>13. CASE /\ x1.why = "array-of-another-dimension"
              /\ Len(p.dims) # Len(q.dims) /\ 0 \notin {Len(p.dims), Len(q.dims)}
    <3>1. op \in LogicalOps /\ l.dim # r.dim
      BY <2>1, <2>5, <2>6, <2>7, <2>13 DEF TableNames
    <3> QED  BY <2>13, <3>1 DEF MayStop, TablesAcceptMore, x1
  <2>14. CASE /\ x1.why = "no-such-operator"
              /\ op \in LogicalOps => p.elem # "boolean" \/ q.elem # "boolean"
              /\ op \in ArithmeticOps \cup RelationalOps => ~({p.elem, q.elem} \subseteq Numbers)
              /\ op \in EqualityOps => p.elem = "character" /\ q.elem = "character"
    <3>1. op \notin LogicalOps
      BY <2>1, <2>5, <2>6, <2>7, <2>14
    <3>2. op \notin ArithmeticOps \cup RelationalOps
      BY <2>1, <2>5, <2>6, <2>7, <2>14
    <3>3. op \in EqualityOps /\ p.elem = "character" /\ q.elem = "character"
      BY <2>14, <3>1, <3>2 DEF TableNames
    <3>4. {l.base, r.base} \subseteq {"character", "string"}
      BY <2>1, <2>6, <3>3
    <3> QED  BY <2>14, <3>3, <3>4 DEF MayStop, TablesAcceptMore, x1
  <2> QED  BY <2>10, <2>11, <2>12, <2>13, <2>14
<1> QED  BY <1>2, <1>3

LEMMA OrdinaryEntries ==
  ASSUME NEW l, Ordinary(l), NEW r, Ordinary(r), NEW a, Described(l, a), NEW b, Described(r, b)
  PROVE  /\ \A op \in TableNames : BinaryOpType(op, l, r) # Wild
         /\ ConcatenationType(l, r) # Wild
<1>1. /\ l \notin {Unknown, Invalid, IdentityNull, IntegerInterval}
      /\ r \notin {Unknown, Invalid, IdentityNull, IntegerInterval}
  BY OrdinaryTypes
<1>2. Wider(l, r) # "wild" /\ String.base # "wild" /\ Boolean.base # "wild"
  BY TypeBases DEF Wider, Ordinary, Bases, Numbers
<1>3. \A bs, d : Id(bs, d).base = bs
  BY IdFields
<1>4. \A id \in Logical(l, r) : id.base # "wild"
  BY <1>3 DEF Logical, Entry
<1>5. IntervalRow(l, r) = {}
  BY <1>1 DEF IntervalRow, Entry
<1>6. \A id \in Arithmetic(l, r) : id.base # "wild"
  BY <1>1, <1>2, <1>3, <1>5 DEF Arithmetic, Entry
<1>7. \A id \in Relational(l, r) : id.base # "wild"
  BY <1>2 DEF Relational, Entry
<1>8. \A id \in Equality(l, r) : id.base # "wild"
  BY <1>2 DEF Equality, Entry
<1>9. \A id \in Concatenation(l, r) : id.base # "wild"
  BY <1>1, <1>2, <1>3 DEF Concatenation, Entry
<1>10. \A entry : (\A id \in entry : id.base # "wild") => ResultType(entry, l, r) # Wild
  BY <1>1, EntryOfOrdinary
<1>11. ConcatenationType(l, r) # Wild
  BY <1>9, <1>10 DEF ConcatenationType
<1>12. ASSUME NEW op \in TableNames PROVE BinaryOpType(op, l, r) # Wild
  BY <1>1, <1>4, <1>6, <1>7, <1>8, <1>10, OperatorTables DEF TableNames
<1> QED  BY <1>11, <1>12

\* Ordinary types that can be concatenated, and what is not a matrix.
LEMMA AcceptedConcatenation ==
  ASSUME NEW l, Ordinary(l), NEW r, Ordinary(r),
         NEW a, Described(l, a), NEW b, Described(r, b), ConcatenationType(l, r) # Rejected
  PROVE  \/ Larger(l, r) = 2
         \/ /\ ElementOf(l) = ElementOf(r) \/ {ElementOf(l), ElementOf(r)} \subseteq Numbers
            /\ DimensionOf(l) \in 0 .. 1 /\ DimensionOf(r) \in 0 .. 1
            /\ 1 \in {DimensionOf(l), DimensionOf(r)}
<1>1. /\ l \notin {Unknown, Invalid, IdentityNull, IntegerInterval}
      /\ r \notin {Unknown, Invalid, IdentityNull, IntegerInterval}
  BY OrdinaryTypes
<1>2. Concatenation(l, r) # {}
  BY <1>1, EntryOfOrdinary DEF ConcatenationType
<1>3. /\ l.dim \in 0 .. 2 /\ r.dim \in 0 .. 2
      /\ l.base = "string" => l.dim = 0
      /\ r.base = "string" => r.dim = 0
  BY OrdinaryTypes
<1>4. Larger(l, r) = (IF l.dim > r.dim THEN l.dim ELSE r.dim)
  BY <1>3, LargerOfTwo
<1>5. \/ /\ Larger(l, r) = 1
         /\ (l.base \in Numbers /\ r.base \in Numbers) \/ (l.base = r.base /\ l.base \in Bases)
      \/ l.dim = 2 /\ r.dim = 0
      \/ l = String /\ r \in {Character, String, Id("character", 1)}
      \/ r = String /\ l \in {Character, Id("character", 1)}
  BY <1>1, <1>2 DEF Concatenation, Entry
<1>6. \A t \in {Character, String, Id("character", 1)} :
        ElementOf(t) = "character" /\ DimensionOf(t) \in 0 .. 1
  BY TypeBases, IdFields DEF ElementOf, DimensionOf
<1>7. DimensionOf(String) = 1
  BY TypeBases DEF DimensionOf
<1>8. CASE /\ Larger(l, r) = 1
           /\ (l.base \in Numbers /\ r.base \in Numbers) \/ (l.base = r.base /\ l.base \in Bases)
  <2>1. l.base # "string" /\ r.base # "string"
    BY <1>8 DEF Numbers, Bases
  <2>2. ElementOf(l) = l.base /\ DimensionOf(l) = l.dim /\ ElementOf(r) = r.base /\ DimensionOf(r) = r.dim
    BY <2>1 DEF ElementOf, DimensionOf
  <2>3. l.dim \in 0 .. 1 /\ r.dim \in 0 .. 1 /\ 1 \in {l.dim, r.dim}
    BY <1>3, <1>4, <1>8
  <2> QED  BY <1>8, <2>2, <2>3
<1>9. CASE l.dim = 2 /\ r.dim = 0
  BY <1>4, <1>9
<1>10. CASE l = String /\ r \in {Character, String, Id("character", 1)}
  BY <1>6, <1>7, <1>10
<1>11. CASE r = String /\ l \in {Character, Id("character", 1)}
  BY <1>6, <1>7, <1>11
<1> QED  BY <1>5, <1>8, <1>9, <1>10, <1>11

LEMMA ConcatMayStop ==
  ASSUME NEW l, Ordinary(l), NEW r, Ordinary(r),
         NEW a, Value(a), Described(l, a), NEW b, Value(b), Described(r, b),
         ConcatenationType(l, r) # Rejected, ~Ok(Concat(a, b))
  PROVE  MayStop("concat", l, r, Concat(a, b).why)
<1> DEFINE p == Concrete(a).value
           q == Concrete(b).value
           w == Concat(a, b)
<1>1. /\ ~Ok(Concrete(a)) => Concrete(a).why = "literal-of-different-types"
      /\ ~Ok(Concrete(b)) => Concrete(b).why = "literal-of-different-types"
  BY OrdinaryConcrete
<1>2. \/ ~Ok(Concrete(a)) /\ w = Concrete(a)
      \/ ~Ok(Concrete(b)) /\ w = Concrete(b)
      \/ Ok(Concrete(a)) /\ Ok(Concrete(b)) /\ w = Concatenated(p, q)
  BY DEF Concat
<1>3. ~Ok(w)
  OBVIOUS
<1> HIDE DEF w
<1>4. CASE (~Ok(Concrete(a)) /\ w = Concrete(a)) \/ (~Ok(Concrete(b)) /\ w = Concrete(b))
  <2>1. w.why = "literal-of-different-types"
    BY <1>1, <1>4
  <2> QED  BY <2>1 DEF MayStop, w
<1>5. CASE Ok(Concrete(a)) /\ Ok(Concrete(b)) /\ w = Concatenated(p, q)
  <2>1. /\ FlatArray(p) /\ p.elem = ElementOf(l) /\ Len(p.dims) = DimensionOf(l)
        /\ FlatArray(q) /\ q.elem = ElementOf(r) /\ Len(q.dims) = DimensionOf(r)
        /\ ElementOf(l) \in Bases /\ ElementOf(r) \in Bases
    BY <1>5, OrdinaryConcrete
  <2>2. p.kind = "array" /\ q.kind = "array"
    BY <2>1, FlatArrayFields
  <2> HIDE DEF p, q
  <2>3. CASE Larger(l, r) = 2
    <3>1. l.dim = 2 \/ r.dim = 2
      <4>1. l.dim \in 0 .. 2 /\ r.dim \in 0 .. 2
        BY OrdinaryTypes
      <4> QED  BY <2>3, <4>1, LargerOfTwo
    <3>2. (l.dim = 2 => DimensionOf(l) = 2) /\ (r.dim = 2 => DimensionOf(r) = 2)
      BY OrdinaryTypes DEF DimensionOf
    <3>3. IsMatrix(p) \/ IsMatrix(q)
      BY <2>1, <2>2, <3>1, <3>2 DEF IsMatrix
    <3>4. w.why = "concatenation-of-no-vector"
      BY <1>5, <3>3 DEF Concatenated, Fail
    <3> QED  BY <2>3, <3>4 DEF MayStop, TablesAcceptMore, w
  <2>4. CASE /\ ElementOf(l) = ElementOf(r) \/ {ElementOf(l), ElementOf(r)} \subseteq Numbers
             /\ DimensionOf(l) \in 0 .. 1 /\ DimensionOf(r) \in 0 .. 1
             /\ 1 \in {DimensionOf(l), DimensionOf(r)}
    <3>1. PICK elem \in Bases : /\ PromotedBetween(p.elem, q.elem) = {elem}
                                /\ Promotes(elem, p.elem) /\ Promotes(elem, q.elem)
      <4>1. CASE p.elem = q.elem
        <5>1. PromotedBetween(p.elem, q.elem) = {p.elem}
          BY <2>1, <4>1, CommonBase
        <5> QED  BY <2>1, <4>1, <5>1 DEF Promotes
      <4>2. CASE p.elem # q.elem
        <5>1. {p.elem, q.elem} = Numbers
          BY <2>1, <2>4, <4>2 DEF Numbers
        <5>2. PromotedBetween(p.elem, q.elem) = {"real"}
          BY <2>1, <4>2, <5>1, CommonBase
        <5>3. Promotes("real", p.elem) /\ Promotes("real", q.elem) /\ "real" \in Bases
          BY <5>1 DEF Promotes, Numbers, Bases, BasicElements
        <5> QED  BY <5>2, <5>3
      <4> QED  BY <4>1, <4>2
    <3>2. (CHOOSE e \in PromotedBetween(p.elem, q.elem) : TRUE) = elem
      BY <3>1
    <3>3. /\ IsArray(p) /\ IsArray(q) /\ ~IsMatrix(p) /\ ~IsMatrix(q)
          /\ p.kind # "empty" /\ q.kind # "empty" /\ ~(IsScalar(p) /\ IsScalar(q))
      <4>1. Len(<<>>) = 0
        OBVIOUS
      <4>2. Len(p.dims) # 0 \/ Len(q.dims) # 0
        BY <2>1, <2>4
      <4>3. p.dims # <<>> \/ q.dims # <<>>
        BY Zenon, <4>1, <4>2
      <4>4. Len(p.dims) # 2 /\ Len(q.dims) # 2
        BY <2>1, <2>4
      <4> QED  BY <2>2, <4>3, <4>4 DEF IsArray, IsMatrix, IsScalar
    <3>4. ArrayConverts(FALSE, elem, p) /\ ArrayConverts(FALSE, elem, q)
      <4>1. elem \in Elements /\ p.elem \in Elements /\ q.elem \in Elements /\ ~IsMixed(p) /\ ~IsMixed(q)
        BY <2>1 DEF Elements, Bases, Numbers, BasicElements, IsMixed
      <4> QED  BY <3>1, <4>1, PromotesIsConverts DEF ArrayConverts
    <3>5. elem \in BasicElements /\ PromotedBetween(p.elem, q.elem) # {}
      BY <3>1 DEF Bases, Numbers, BasicElements
    <3>6. \E v : Concatenated(p, q) = Fine(v)
      BY <3>2, <3>3, <3>4, <3>5 DEF Concatenated
    <3> QED  BY <1>3, <1>5, <3>6 DEF Fine, Ok
  <2> QED  BY <2>3, <2>4, AcceptedConcatenation
<1> QED  BY <1>2, <1>4, <1>5

(***************************************************************************)
(* The two invariants about how the program ends, of any fault.            *)
(***************************************************************************)
FaultOf(why, form, operands) ==
  [why |-> why, form |-> form,
   types |-> [i \in DOMAIN operands |-> operands[i].type],
   vague |-> \E i \in DOMAIN operands : operands[i].vague]

TuplesMet(f) ==
  f.why = "undefined:not-both-tuples" =>
    \/ f.form = "dot"
    \/ f.vague
    \/ \E i \in DOMAIN f.types : f.types[i] \in {Unknown, Invalid}

AcceptedRan(f) ==
  /\ f.form \in TableOperators
  /\ ~f.vague
  /\ \A i \in DOMAIN f.types : Ordinary(f.types[i])
  => MayStop(f.form, f.types[1], f.types[2], f.why)

Sound(f) == TuplesMet(f) /\ AcceptedRan(f)

LEMMA SoundIsBoth ==
  ASSUME Sound(fault)
  PROVE  TuplesMeetTuples /\ AcceptedOperationsRun
<1>1. TuplesMeetTuples
  BY DEF Sound, TuplesMet, TuplesMeetTuples
<1>2. AcceptedOperationsRun
  BY DEF Sound, AcceptedRan, AcceptedOperationsRun, Ordinary, MayStop
<1> QED  BY <1>1, <1>2

LEMMA OtherForms ==
  ASSUME NEW f, f.form \notin TableOperators, f.why # "undefined:not-both-tuples" \/ f.form = "dot"
  PROVE  Sound(f)
BY DEF Sound, TuplesMet, AcceptedRan

LEMMA FaultFields ==
  ASSUME NEW why, NEW form, NEW operands
  PROVE  /\ FaultOf(why, form, operands).why = why
         /\ FaultOf(why, form, operands).form = form
         /\ FaultOf(why, form, operands).types = [i \in DOMAIN operands |-> operands[i].type]
         /\ ~FaultOf(why, form, operands).vague <=> \A i \in DOMAIN operands : ~operands[i].vague
BY DEF FaultOf

LEMMA TableForms ==
  /\ TableOperators = TableNames \cup {"concat"}
  /\ {"none", "unary", "range", "by", "dot", "index", "literal", "tuple", "access", "cast", "pass",
      "return", "generator", "inferred", "declare", "assign"} \cap TableOperators = {}
BY DEF TableOperators, TableNames, LogicalOps, ArithmeticOps, RelationalOps, EqualityOps

LEMMA PlainFault ==
  ASSUME NEW why, NEW form, NEW operands, form \notin TableOperators,
         why # "undefined:not-both-tuples" \/ form = "dot"
  PROVE  Sound(FaultOf(why, form, operands))
<1> DEFINE f == FaultOf(why, form, operands)
<1>1. f.why = why /\ f.form = form
  BY DEF FaultOf
<1> HIDE DEF f
<1>2. Sound(f)
  BY <1>1, OtherForms
<1> QED  BY <1>2 DEF f

LEMMA RejectedFault == Sound(FaultOf("rejected", "none", << >>)) /\ Sound(NoFault)
<1>1. Sound(FaultOf("rejected", "none", << >>))
  BY PlainFault, TableForms
<1>2. NoFault.form = "none" /\ NoFault.why = "none"
  BY DEF NoFault
<1> QED  BY <1>1, <1>2, OtherForms, TableForms

LEMMA EndsSoundly ==
  ASSUME Sound(fault), NEW form, NEW type, NEW result, NEW operands,
         Ends(type, result, form, operands),
         type = Wild => Sound(FaultOf("undefined-type", form, operands)),
         type # Rejected /\ type # Wild /\ ~Ok(result) => Sound(FaultOf(result.why, form, operands))
  PROVE  Sound(fault')
<1>1. CASE type = Rejected
  <2>1. fault' = FaultOf("rejected", "none", << >>)
    BY <1>1 DEF Ends, Stop, FaultOf
  <2> QED  BY <2>1, RejectedFault
<1>2. CASE type # Rejected /\ type = Wild
  <2>1. fault' = FaultOf("undefined-type", form, operands)
    BY <1>2 DEF Ends, Stop, FaultOf
  <2> QED  BY <1>2, <2>1
<1>3. CASE type # Rejected /\ type # Wild
  <2>1. fault' = FaultOf(result.why, form, operands) /\ ~Ok(result)
    BY <1>3 DEF Ends, Stop, FaultOf
  <2> QED  BY <1>3, <2>1
<1> QED  BY <1>1, <1>2, <1>3

LEMMA EvaluateSoundly ==
  ASSUME Sound(fault), NEW form, NEW type, NEW result, NEW vague, NEW literal, NEW operands,
         Evaluate(form, type, result, vague, literal, operands),
         type = Wild => Sound(FaultOf("undefined-type", form, operands)),
         type # Rejected /\ type # Wild /\ ~Ok(result) => Sound(FaultOf(result.why, form, operands))
  PROVE  Sound(fault')
<1>1. CASE Ends(type, result, form, operands)
  BY <1>1, EndsSoundly
<1>2. CASE fault' = fault
  BY <1>2
<1> QED  BY <1>1, <1>2 DEF Evaluate

\* The forms that are no operator of a table.
LEMMA EvaluatePlain ==
  ASSUME Sound(fault), NEW form, NEW type, NEW result, NEW vague, NEW literal, NEW operands,
         Evaluate(form, type, result, vague, literal, operands),
         form \notin TableOperators, Paired(result) \/ form = "dot"
  PROVE  Sound(fault')
<1>1. Sound(FaultOf("undefined-type", form, operands))
  BY PlainFault
<1>2. Sound(FaultOf(result.why, form, operands))
  BY PlainFault DEF Paired
<1> QED  BY <1>1, <1>2, EvaluateSoundly

LEMMA StorePlain ==
  ASSUME Sound(fault), NEW form, NEW type, NEW result, NEW vague,
         Store(form, type, result, vague),
         form \notin TableOperators, Paired(result)
  PROVE  Sound(fault')
<1>1. Sound(FaultOf("undefined-type", form, <<node>>))
  BY PlainFault
<1>2. Sound(FaultOf(result.why, form, <<node>>))
  BY PlainFault DEF Paired
<1>3. CASE Ends(type, result, form, <<node>>)
  BY <1>1, <1>2, <1>3, EndsSoundly
<1>4. CASE fault' = fault
  BY <1>4
<1> QED  BY <1>3, <1>4 DEF Store

\* An operator of a table, with its two operands.
LEMMA PairFault ==
  ASSUME NEW why, NEW form, NEW p, p = <<p[1], p[2]>>,
         /\ ~p[1].vague /\ ~p[2].vague /\ {p[1].type, p[2].type} \cap {Unknown, Invalid} = {}
         => why # "undefined:not-both-tuples",
         ~p[1].vague /\ ~p[2].vague /\ Ordinary(p[1].type) /\ Ordinary(p[2].type) =>
           MayStop(form, p[1].type, p[2].type, why)
  PROVE  Sound(FaultOf(why, form, p))
<1> DEFINE f == FaultOf(why, form, p)
<1>1. DOMAIN p = {1, 2}
  BY SMT
<1>2. /\ f.why = why /\ f.form = form
      /\ ~f.vague <=> ~p[1].vague /\ ~p[2].vague
      /\ f.types = [i \in {1, 2} |-> p[i].type]
  <2>1. /\ f.why = why /\ f.form = form
        /\ f.types = [i \in DOMAIN p |-> p[i].type]
        /\ ~f.vague <=> \A i \in DOMAIN p : ~p[i].vague
    BY FaultFields
  <2> HIDE DEF f
  <2> QED  BY <1>1, <2>1
<1> HIDE DEF f
<1>3. f.types[1] = p[1].type /\ f.types[2] = p[2].type /\ DOMAIN f.types = {1, 2}
  BY <1>2
<1>4. TuplesMet(f)
  BY <1>2, <1>3 DEF TuplesMet
<1>5. AcceptedRan(f)
  BY <1>2, <1>3 DEF AcceptedRan
<1> QED  BY <1>4, <1>5 DEF Sound, f

\* What the runtime finds of a target: a tuple has as many fields as it says.
LEMMA TargetsPaired ==
  ASSUME NEW t, Settled(t) \/ FlatTarget(t) \/ TupleTarget(t) \/ t = UnknownType, NEW config, NEW rhs
  PROVE  Paired(Convert(config, t, rhs))
<1>1. UnknownType.kind # "tuple"
  BY DEF UnknownType, Record
<1>2. FlatTarget(t) => t.kind # "tuple"
  <2>1. \A n : Interval(n).kind # "tuple"
    BY DEF Interval, Record
  <2> QED  BY <2>1 DEF FlatTarget, ArrayOver
<1>3. Settled(t) => Value(t)
  BY DEF Value
<1>4. Settled(t) /\ t.kind = "tuple" => Len(t.fields) \in Nat /\ DOMAIN t.fields = 1 .. Len(t.fields)
  BY <1>3, ValueFields DEF TupleOfFlat
<1> QED  BY <1>1, <1>2, <1>4, ConvertPaired DEF TupleTarget

LEMMA StepIsSound ==
  ASSUME DescribedInv, Sound(fault), Next
  PROVE  Sound(fault')
<1>a. \A p \in Pairs : node # None =>
        /\ p = <<p[1], p[2]>> /\ Value(p[1].value) /\ Value(p[2].value)
        /\ ~p[1].vague => Described(p[1].type, p[1].value)
        /\ ~p[2].vague => Described(p[2].type, p[2].value)
  BY PairsAreExpressed, PairsAreExplained DEF DescribedInv, Expressed, Explained
<1>1. CASE Constant
  <2>1. fault' = fault
    BY <1>1 DEF Constant
  <2> QED  BY <2>1
<1>2. CASE UnaryOperation
  <2>1. PICK op : Evaluate("unary", node.type, Unary(op, node.value), node.vague, FALSE, <<node>>)
    BY <1>2 DEF UnaryOperation
  <2>2. Paired(Unary(op, node.value))
    BY UnaryPaired
  <2> QED  BY <2>1, <2>2, EvaluatePlain, TableForms
<1>3. CASE BinaryOperation
  <2>1. PICK op \in Operators, p \in Pairs, size \in Sizes :
          Evaluate(op, BinaryOpType(op, p[1].type, p[2].type),
                   Binary(op, p[1].value, p[2].value, size),
                   BlindSpot(Table(op, p[1].type, p[2].type), p[1], p[2]), FALSE, p)
    BY <1>3 DEF BinaryOperation
  <2> DEFINE l == p[1].type
             r == p[2].type
             a == p[1].value
             b == p[2].value
             type == BinaryOpType(op, l, r)
             result == Binary(op, a, b, size)
             blind == BlindSpot(Table(op, l, r), p[1], p[2])
  <2>2. /\ p = <<p[1], p[2]>> /\ Value(a) /\ Value(b)
        /\ ~p[1].vague => Described(l, a)
        /\ ~p[2].vague => Described(r, b)
    BY <1>a, <2>1 DEF Evaluate
  <2>3. Evaluate(op, type, result, blind, FALSE, p)
    BY <2>1
  <2>4. CASE op \in TableNames
    <3>1. type = Wild => Sound(FaultOf("undefined-type", op, p))
      <4> SUFFICES ASSUME type = Wild PROVE Sound(FaultOf("undefined-type", op, p))
        OBVIOUS
      <4>1. ~(~p[1].vague /\ ~p[2].vague /\ Ordinary(l) /\ Ordinary(r))
        BY <2>2, <2>4, OrdinaryEntries
      <4> HIDE DEF type
      <4> QED  BY <2>2, <4>1, PairFault
    <3>2. ASSUME type # Rejected, ~Ok(result) PROVE Sound(FaultOf(result.why, op, p))
      <4>1. /\ ~p[1].vague /\ ~p[2].vague /\ {l, r} \cap {Unknown, Invalid} = {}
            => result.why # "undefined:not-both-tuples"
        BY <2>2, <2>4, <3>2, KnownTuplesMeet DEF Paired
      <4>2. ~p[1].vague /\ ~p[2].vague /\ Ordinary(l) /\ Ordinary(r) => MayStop(op, l, r, result.why)
        BY <2>2, <2>4, <3>2, BinaryMayStop
      <4> HIDE DEF result
      <4> QED  BY <2>2, <4>1, <4>2, PairFault
    <3> HIDE DEF type, result, blind
    <3> QED  BY <2>3, <3>1, <3>2, EvaluateSoundly
  <2>5. CASE op \notin TableNames
    <3>1. op \in {"by", "dot"}
      BY <2>5, OperatorsAssumption DEF TableNames
    <3>2. op = "by" => Paired(result)
      BY <2>2, BinaryUnpaired
    <3> HIDE DEF type, result, blind
    <3> QED  BY <2>3, <3>1, <3>2, EvaluatePlain, TableForms
  <2> QED  BY <2>4, <2>5
<1>4. CASE RangeOperation
  <2>1. PICK p \in Pairs, size \in Sizes :
          Evaluate("range", IntegerInterval, Binary("range", p[1].value, p[2].value, size),
                   FALSE, FALSE, p)
    BY <1>4 DEF RangeOperation
  <2>2. Value(p[1].value) /\ Value(p[2].value)
    BY <1>a, <2>1 DEF Evaluate
  <2>3. Paired(Binary("range", p[1].value, p[2].value, size))
    BY <2>2, BinaryUnpaired
  <2> QED  BY <2>1, <2>3, EvaluatePlain, TableForms
<1>5. CASE ConcatenationOperation
  <2>1. PICK p \in Pairs :
          Evaluate("concat", ConcatenationType(p[1].type, p[2].type),
                   Concat(p[1].value, p[2].value),
                   BlindSpot(Table("concat", p[1].type, p[2].type), p[1], p[2]), FALSE, p)
    BY <1>5 DEF ConcatenationOperation
  <2> DEFINE l == p[1].type
             r == p[2].type
             a == p[1].value
             b == p[2].value
             type == ConcatenationType(l, r)
             result == Concat(a, b)
             blind == BlindSpot(Table("concat", l, r), p[1], p[2])
  <2>2. /\ p = <<p[1], p[2]>> /\ Value(a) /\ Value(b)
        /\ ~p[1].vague => Described(l, a)
        /\ ~p[2].vague => Described(r, b)
    BY <1>a, <2>1 DEF Evaluate
  <2>3. Evaluate("concat", type, result, blind, FALSE, p)
    BY <2>1
  <2>4. type = Wild => Sound(FaultOf("undefined-type", "concat", p))
    <3> SUFFICES ASSUME type = Wild PROVE Sound(FaultOf("undefined-type", "concat", p))
      OBVIOUS
    <3>1. ~(~p[1].vague /\ ~p[2].vague /\ Ordinary(l) /\ Ordinary(r))
      BY <2>2, OrdinaryEntries
    <3> HIDE DEF type
    <3> QED  BY <2>2, <3>1, PairFault
  <2>5. ASSUME type # Rejected, ~Ok(result) PROVE Sound(FaultOf(result.why, "concat", p))
    <3>1. result.why # "undefined:not-both-tuples"
      BY ConcatPaired DEF Paired
    <3>2. ~p[1].vague /\ ~p[2].vague /\ Ordinary(l) /\ Ordinary(r) =>
            MayStop("concat", l, r, result.why)
      BY <2>2, <2>5, ConcatMayStop
    <3> HIDE DEF result
    <3> QED  BY <2>2, <3>1, <3>2, PairFault
  <2> HIDE DEF type, result, blind
  <2> QED  BY <2>3, <2>4, <2>5, EvaluateSoundly
<1>6. CASE Indexing
  <2>1. PICK a \in Indexings :
          LET types == [i \in DOMAIN a[2] |-> a[2][i].type]
          IN  Evaluate("index", IndexType(a[1].type, types),
                       Indexed(a[1].value, [i \in DOMAIN a[2] |-> a[2][i].value]),
                       AnyVague(<<a[1]>> \o a[2]) \/ BlindIndices(a[1].type, types), FALSE,
                       <<a[1]>> \o a[2])
    BY <1>6 DEF Indexing
  <2> DEFINE indices == [i \in DOMAIN a[2] |-> a[2][i].value]
             result == Indexed(a[1].value, indices)
  <2>2. PICK n \in 1 .. 2 : DOMAIN a[2] = 1 .. n
    <3>1. \A f, g : DOMAIN <<g>> = 1 .. 1 /\ DOMAIN <<f, g>> = 1 .. 2
      OBVIOUS
    <3>2. 1 \in 1 .. 2 /\ 2 \in 1 .. 2
      OBVIOUS
    <3>3. (\E g : a[2] = <<g>>) \/ (\E f, g : a[2] = <<f, g>>)
      BY <2>1 DEF Indexings, Indices
    <3> QED  BY <3>1, <3>2, <3>3
  <2>3. DOMAIN indices = 1 .. n
    BY <2>2
  <2> HIDE DEF indices
  <2>4. Paired(result)
    BY <2>3, IndexedPaired
  <2> HIDE DEF result
  <2> QED  BY <2>1, <2>4, EvaluatePlain, TableForms DEF result, indices
<1>7. CASE Literal
  <2>1. PICK elements \in {<<node>>} \cup Pairs :
          LET types == [i \in DOMAIN elements |-> elements[i].type]
          IN  Evaluate("literal", VectorLiteralType(types, elements[1].literal),
                       VectorLiteral([i \in DOMAIN elements |-> elements[i].value]),
                       BlindLiteral(elements), TRUE, elements)
    BY <1>7 DEF Literal
  <2> DEFINE result == VectorLiteral([i \in DOMAIN elements |-> elements[i].value])
  <2>2. Paired(result)
    BY LiteralPaired
  <2> HIDE DEF result
  <2> QED  BY <2>1, <2>2, EvaluatePlain, TableForms DEF result
<1>8. CASE TupleLiteral
  <2>1. PICK p \in Pairs :
          Evaluate("tuple", TupleId(<<p[1].type, p[2].type>>),
                   Fine(TupleValue(<<p[1].value, p[2].value>>)), AnyVague(p), FALSE, p)
    BY <1>8 DEF TupleLiteral
  <2> DEFINE result == Fine(TupleValue(<<p[1].value, p[2].value>>))
  <2>2. Paired(result)
    BY FinePaired
  <2> HIDE DEF result
  <2> QED  BY <2>1, <2>2, EvaluatePlain, TableForms DEF result
<1>9. CASE Access
  <2>1. PICK position : Evaluate("access", AccessType(node.type, position),
                                 Field(node.value, position), node.vague, FALSE, <<node>>)
    BY <1>9 DEF Access
  <2>2. Paired(Field(node.value, position))
    BY FieldPaired
  <2> QED  BY <2>1, <2>2, EvaluatePlain, TableForms
<1>b. \A d \in DeclaredTypes : \A config : Paired(Convert(config, d.target, node.value))
  BY DeclaredIsTarget, TargetsPaired
<1>10. CASE CastExpression
  <2>1. PICK d \in DeclaredTypes :
          Evaluate("cast", d.type, Convert(Cast, d.target, node.value), FALSE, FALSE, <<node>>)
    BY <1>10 DEF CastExpression
  <2>2. Paired(Convert(Cast, d.target, node.value))
    BY <1>b
  <2> QED  BY <2>1, <2>2, EvaluatePlain, TableForms
<1>11. CASE Pass
  <2>1. PICK d \in DeclaredTypes :
          Evaluate("pass", d.type, Convert(Parameter, d.target, node.value), FALSE, FALSE, <<node>>)
    BY <1>11 DEF Pass
  <2>2. Paired(Convert(Parameter, d.target, node.value))
    BY <1>b
  <2> QED  BY <2>1, <2>2, EvaluatePlain, TableForms
<1>12. CASE Return
  <2>1. PICK d \in DeclaredTypes :
          Evaluate("return", ReturnType(d.type, node.type),
                   Convert(Declaration, d.target, node.value), FALSE, FALSE, <<node>>)
    BY <1>12 DEF Return
  <2>2. Paired(Convert(Declaration, d.target, node.value))
    BY <1>b
  <2> QED  BY <2>1, <2>2, EvaluatePlain, TableForms
<1>13. CASE Generate
  <2>1. PICK n \in 0 .. MaxDim :
          Evaluate("generator", Unknown, Generated(n, node.value), FALSE, FALSE, <<node>>)
    BY <1>13 DEF Generate
  <2>2. Paired(Generated(n, node.value))
    BY GeneratedPaired
  <2> QED  BY <2>1, <2>2, EvaluatePlain, TableForms
<1>14. CASE DeclareInferred
  <2>1. Store("inferred", node.type, Convert(Declaration, UnknownType, node.value), node.vague)
    BY <1>14 DEF DeclareInferred
  <2>2. Paired(Convert(Declaration, UnknownType, node.value))
    BY TargetsPaired
  <2> QED  BY <2>1, <2>2, StorePlain, TableForms
<1>15. CASE Declare
  <2>1. PICK d \in DeclaredTypes :
          Store("declare", DeclarationType(d.type, node.type),
                Convert(Declaration, d.target, node.value), FALSE)
    BY <1>15 DEF Declare
  <2>2. Paired(Convert(Declaration, d.target, node.value))
    BY <1>b
  <2> QED  BY <2>1, <2>2, StorePlain, TableForms
<1>16. CASE Assign
  <2>1. x # None /\ Store("assign", AssignmentType(x.type, node.type),
                          Convert(Assignment, x.value, node.value), x.vague)
    BY <1>16 DEF Assign
  <2>2. Settled(x.value)
    BY <2>1 DEF DescribedInv, TypingInv, Stored
  <2>3. Paired(Convert(Assignment, x.value, node.value))
    BY <2>2, TargetsPaired
  <2> QED  BY <2>1, <2>3, StorePlain, TableForms
<1> QED  BY <1>1, <1>2, <1>3, <1>4, <1>5, <1>6, <1>7, <1>8, <1>9, <1>10, <1>11, <1>12, <1>13,
            <1>14, <1>15, <1>16 DEF Next

LEMMA FaultsAlwaysSound == Spec => [](DescribedInv /\ Sound(fault))
<1>1. Init => Sound(fault)
  BY RejectedFault DEF Init
<1>2. DescribedInv /\ Sound(fault) /\ [Next]_vars => Sound(fault)'
  <2> SUFFICES ASSUME DescribedInv, Sound(fault), [Next]_vars PROVE Sound(fault')
    BY DEF Sound, TuplesMet, AcceptedRan
  <2>1. CASE Next
    BY <2>1, StepIsSound
  <2>2. CASE UNCHANGED vars
    <3>1. fault' = fault
      BY <2>2 DEF vars
    <3> QED  BY <3>1
  <2> QED  BY <2>1, <2>2
<1> QED  BY <1>1, <1>2, DescribedInvAlways, PTL DEF Spec

\* The runtime compares two tuples and reads the fields of both without asking
\* whether both are: of operands whose types the walk knows both are, except in
\* a dot product.
THEOREM TuplesAreComparedWithTuples == Spec => []TuplesMeetTuples
<1>1. DescribedInv /\ Sound(fault) => TuplesMeetTuples
  BY SoundIsBoth
<1> QED  BY <1>1, FaultsAlwaysSound, PTL

\* An operation on scalars, arrays and strings that the promotion tables accept
\* stops the program only for the lengths and the elements of a literal, and in
\* the four cases TablesAcceptMore names.
THEOREM TheRuntimeComputesWhatTheTablesAccept == Spec => []AcceptedOperationsRun
<1>1. DescribedInv /\ Sound(fault) => AcceptedOperationsRun
  BY SoundIsBoth
<1> QED  BY <1>1, FaultsAlwaysSound, PTL
=============================================================================
