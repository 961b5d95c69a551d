---------------------------- MODULE TypingProofs ----------------------------
(***************************************************************************)
(* Static types and runtime values, for every length a program gives its   *)
(* arrays and every set of constants, operators and declared types.        *)
(***************************************************************************)
EXTENDS Typing, SequenceTheorems, FiniteSetTheorems, NaturalsInduction,
        WellFoundedInduction, TLAPS

(***************************************************************************)
(* The values there are.                                                   *)
(***************************************************************************)
Elements == BasicElements \cup NullOrIdentity

IsRecord(v) == v = Record(v.kind, v.elem, v.dims, v.items, v.str, v.fields)

\* An array whose elements have one type, with the sizes S for its dimensions.
ArrayOver(v, S) ==
  /\ IsRecord(v) /\ v.kind = "array" /\ v.elem \in Elements
  /\ v.dims \in Seq(S) /\ Len(v.dims) \in 0 .. 2
  /\ v.items = <<>> /\ v.fields = <<>> /\ v.str \in BOOLEAN
  /\ v.str => v.elem = "character" /\ Len(v.dims) = 1

FlatArray(v) == ArrayOver(v, Nat)

\* An array literal that has not been converted.
LiteralArray(v) ==
  /\ IsRecord(v) /\ v.kind = "array" /\ v.elem = "mixed"
  /\ v.dims \in Seq(Nat) /\ Len(v.dims) \in 1 .. 2
  /\ v.items \in Seq(Elements) /\ Len(v.items) = TotalLength(v)
  /\ v.str = FALSE /\ v.fields = <<>>

IsInterval(v) == v.dims[1] \in Nat \ {0} /\ v = Interval(v.dims[1])

FlatValue(v) == FlatArray(v) \/ IsInterval(v)

TupleOfFlat(v) ==
  /\ v = TupleValue(v.fields)
  /\ Len(v.fields) \in Nat /\ DOMAIN v.fields = 1 .. Len(v.fields)
  /\ v.fields = [i \in 1 .. Len(v.fields) |-> v.fields[i]]
  /\ \A i \in 1 .. Len(v.fields) : FlatValue(v.fields[i])

\* What a variable may hold, and what an expression may be.
Settled(v) == FlatValue(v) \/ TupleOfFlat(v)
Value(v) == Settled(v) \/ LiteralArray(v) \/ v = EmptyArray

\* What a value may be converted to, but for tuples.
FlatTarget(t) ==
  \/ ArrayOver(t, Nat \cup {UnknownSize})
  \/ t.dims[1] \in Nat \cup {UnknownSize} /\ t = Interval(t.dims[1])

(***************************************************************************)
(* Operators of the community modules, for one argument or two.            *)
(***************************************************************************)
LEMMA MaxOfTwo ==
  ASSUME NEW a \in Int, NEW b \in Int
  PROVE  /\ Max({a, b}) = IF a >= b THEN a ELSE b
         /\ Max({a}) = a
<1>1. Max({a, b}) = IF a >= b THEN a ELSE b
  BY DEF Max
<1>2. Max({a}) = a
  BY DEF Max
<1> QED  BY <1>1, <1>2

LEMMA MinOfTwo ==
  ASSUME NEW a \in Int, NEW b \in Int
  PROVE  Min({a, b}) = IF a <= b THEN a ELSE b
BY DEF Min

\* The product of the lengths in each dimension.
LEMMA TotalLengths ==
  ASSUME NEW v, v.kind # "empty", v.dims \in Seq(Nat)
  PROVE  /\ Len(v.dims) = 0 => TotalLength(v) = 1
         /\ Len(v.dims) = 1 => TotalLength(v) = v.dims[1]
         /\ Len(v.dims) = 2 => TotalLength(v) = v.dims[1] * v.dims[2]
<1> DEFINE d == v.dims
           D == DOMAIN d
           iter(f) == [s \in SUBSET D |->
                         IF s = {} THEN 1
                         ELSE f[s \ {Max(s)}] * d[Max(s)]]
<1>0. TotalLength(v) = (CHOOSE f : f = iter(f))[D]
  BY Zenon DEF TotalLength, FoldLeft, MapThenFoldSet
<1> DEFINE c == CHOOSE f : f = iter(f)
<1>1. D = 1 .. Len(d)
  OBVIOUS
<1>2. CASE Len(d) = 0
  <2>1. D = {}
    BY <1>1, <1>2
  <2>2. [s \in SUBSET D |-> 1] = iter([s \in SUBSET D |-> 1])
    BY <2>1
  <2>3. c = iter(c)
    <3> HIDE DEF iter
    <3> QED  BY <2>2
  <2>4. c[{}] = 1
    BY <2>1, <2>3
  <2> HIDE DEF c, iter
  <2>5. TotalLength(v) = 1
    BY <1>0, <2>1, <2>4 DEF c
  <2> QED  BY <1>2, <2>5
<1>3. CASE Len(d) = 1
  <2>1. D = {1} /\ d[1] \in Nat
    BY <1>1, <1>3
  <2> DEFINE g == [s \in SUBSET D |-> IF s = {} THEN 1 ELSE d[1]]
  <2>a. \A s \in SUBSET D : s # {} => Max(s) = 1 /\ s = {1}
    <3>1. Max({1}) = 1
      BY MaxOfTwo
    <3> QED  BY <2>1, <3>1
  <2>2. g = iter(g)
    <3>1. ASSUME NEW s \in SUBSET D, s # {} PROVE g[s \ {Max(s)}] * d[Max(s)] = d[1]
      <4>1. s \ {Max(s)} = {} /\ Max(s) = 1
        BY <2>a, <3>1
      <4>2. g[{}] = 1
        OBVIOUS
      <4>3. 1 * d[1] = d[1]
        BY <2>1
      <4> HIDE DEF g
      <4> QED  BY Zenon, <4>1, <4>2, <4>3
    <3> QED  BY <3>1
  <2>3. c = iter(c)
    <3> HIDE DEF iter, g
    <3> QED  BY <2>2
  <2>4. c[{}] = 1
    BY <2>3
  <2>5. c[{1}] = c[{1} \ {Max({1})}] * d[Max({1})]
    BY <2>1, <2>3
  <2>6. Max({1}) = 1 /\ {1} \ {1} = {}
    BY MaxOfTwo
  <2> HIDE DEF c, iter
  <2>b. 1 * d[1] = d[1]
    BY <2>1
  <2>7. c[{1}] = d[1]
    BY Zenon, <2>b, <2>4, <2>5, <2>6
  <2>8. TotalLength(v) = d[1]
    BY <1>0, <2>1, <2>7 DEF c
  <2> QED  BY <1>3, <2>8
<1>4. CASE Len(d) = 2
  <2>1. D = {1, 2} /\ d[1] \in Nat /\ d[2] \in Nat
    BY <1>1, <1>4
  <2> DEFINE g == [s \in SUBSET D |->
                     IF s = {} THEN 1 ELSE IF s = {1} THEN d[1]
                     ELSE IF s = {2} THEN d[2] ELSE d[1] * d[2]]
  <2>a. /\ Max({1}) = 1 /\ Max({2}) = 2 /\ Max({1, 2}) = 2
        /\ {1} \ {1} = {} /\ {2} \ {2} = {} /\ {1, 2} \ {2} = {1}
    <3>1. Max({1}) = 1 /\ Max({2}) = 2
      BY MaxOfTwo
    <3>2. Max({1, 2}) = 2
      BY DEF Max
    <3> QED  BY <3>1, <3>2
  <2>d. 1 * d[1] = d[1] /\ 1 * d[2] = d[2]
    BY <2>1
  <2>b. \A s \in SUBSET D : s \in {{}, {1}, {2}, {1, 2}}
    BY <2>1
  <2>c. g[{}] = 1 /\ g[{1}] = d[1] /\ g[{2}] = d[2] /\ g[{1, 2}] = d[1] * d[2]
    BY <2>1
  <2>2. g = iter(g)
    <3>1. ASSUME NEW s \in SUBSET D, s # {} PROVE g[s \ {Max(s)}] * d[Max(s)] = g[s]
      <4> HIDE DEF g
      <4>1. CASE s = {1}
        BY Zenon, <2>a, <2>c, <2>d, <4>1
      <4>2. CASE s = {2}
        BY Zenon, <2>a, <2>c, <2>d, <4>2
      <4>3. CASE s = {1, 2}
        BY Zenon, <2>a, <2>c, <4>3
      <4> QED  BY <2>b, <3>1, <4>1, <4>2, <4>3
    <3>2. ASSUME NEW s \in SUBSET D
          PROVE g[s] = IF s = {} THEN 1 ELSE g[s \ {Max(s)}] * d[Max(s)]
      <4> HIDE DEF g
      <4> QED  BY <3>1, <2>c
    <3>3. g = [s \in SUBSET D |-> g[s]]
      OBVIOUS
    <3> HIDE DEF g
    <3> QED  BY <3>2, <3>3
  <2>3. c = iter(c)
    <3> HIDE DEF iter, g
    <3> QED  BY <2>2
  <2>4. \A s \in SUBSET D : c[s] = IF s = {} THEN 1 ELSE c[s \ {Max(s)}] * d[Max(s)]
    BY <2>3
  <2> HIDE DEF c, iter
  <2>5. c[{}] = 1 /\ c[{1}] = c[{1} \ {Max({1})}] * d[Max({1})]
        /\ c[{1, 2}] = c[{1, 2} \ {Max({1, 2})}] * d[Max({1, 2})]
    BY <2>1, <2>4
  <2>6. c[{1}] = d[1]
    BY Zenon, <2>5, <2>a, <2>d
  <2>7. c[{1, 2}] = d[1] * d[2]
    BY Zenon, <2>5, <2>6, <2>a
  <2>8. TotalLength(v) = d[1] * d[2]
    BY <1>0, <2>1, <2>7 DEF c
  <2> QED  BY <1>4, <2>8
<1> QED  BY <1>2, <1>3, <1>4

LEMMA TotalLengthIsNatural ==
  ASSUME NEW v, v.kind # "empty", v.dims \in Seq(Nat), Len(v.dims) \in 0 .. 2
  PROVE  TotalLength(v) \in Nat
<1>1. \A i \in 1 .. Len(v.dims) : v.dims[i] \in Nat
  OBVIOUS
<1>2. \A a, b \in Nat : a * b \in Nat
  OBVIOUS
<1> QED  BY <1>1, <1>2, TotalLengths

\* Two sequences, or one, put end to end.
LEMMA Flattened ==
  ASSUME NEW s, Len(s) \in 1 .. 2
  PROVE  FlattenSeq(s) = IF Len(s) = 1 THEN s[1] ELSE s[1] \o s[2]
<1> DEFINE flatten(f) == [i \in 1 .. Len(s) |-> IF i = 1 THEN s[i] ELSE f[i - 1] \o s[i]]
           c == CHOOSE f : f = flatten(f)
           g == [i \in 1 .. Len(s) |-> IF i = 1 THEN s[1] ELSE s[1] \o s[2]]
<1>0. Len(s) # 0
  OBVIOUS
<1>1. FlattenSeq(s) = c[Len(s)]
  BY Zenon, <1>0 DEF FlattenSeq
<1>2. g = flatten(g)
  <2>1. ASSUME NEW i \in 1 .. Len(s), i # 1 PROVE g[i - 1] = s[1] /\ s[2] = s[i]
    <3>0. \A n \in 1 .. 2 : \A j \in 1 .. n : j # 1 => j = 2 /\ 1 \in 1 .. n /\ j - 1 = 1
      OBVIOUS
    <3>1. i = 2 /\ 1 \in 1 .. Len(s) /\ i - 1 = 1
      BY ONLY <3>0, <2>1, Len(s) \in 1 .. 2, i \in 1 .. Len(s)
    <3>2. g[1] = s[1]
      BY <3>1
    <3> HIDE DEF g
    <3> QED  BY <3>1, <3>2
  <2> QED  BY <2>1
<1>3. c = flatten(c)
  <2> HIDE DEF flatten, g
  <2> QED  BY <1>2
<1>4. \A i \in 1 .. Len(s) : c[i] = IF i = 1 THEN s[i] ELSE c[i - 1] \o s[i]
  BY <1>3
<1> HIDE DEF c, flatten, g
<1>5. c[1] = s[1]
  BY <1>4
<1>6. Len(s) = 2 => c[2] = c[1] \o s[2]
  <2>1. Len(s) = 2 => 2 \in 1 .. Len(s)
    OBVIOUS
  <2>2. 2 # 1 /\ 2 - 1 = 1
    OBVIOUS
  <2> QED  BY Zenon, <1>4, <2>1, <2>2
<1>7. Len(s) = 1 \/ Len(s) = 2
  OBVIOUS
<1> QED  BY Zenon, <1>1, <1>5, <1>6, <1>7

(***************************************************************************)
(* Element types.                                                          *)
(***************************************************************************)
LEMMA PromotedIsOneOfTwo ==
  ASSUME NEW a, NEW b
  PROVE  PromotedBetween(a, b) \subseteq {a, b}
BY DEF PromotedBetween

\* Induction on the numbers up to m, for a set of them.
LEMMA IntervalInduction ==
  ASSUME NEW m \in Nat, NEW T, 0 \in T, \A k \in 0 .. m - 1 : k \in T => k + 1 \in T
  PROVE  0 .. m \subseteq T
<1> DEFINE Missing == (0 .. m) \ T
           R == {pair \in Nat \X Nat : pair[1] < pair[2]}
<1>1. SUFFICES ASSUME Missing # {} PROVE FALSE
  OBVIOUS
<1>2. IsWellFoundedOn(R, Nat)
  BY NatLessThanWellFounded DEF OpToRel
<1> HIDE DEF R
<1>3. PICK n \in Missing : \A k \in Missing : ~(<<k, n>> \in R)
  <2>1. Missing \subseteq Nat
    OBVIOUS
  <2> HIDE DEF Missing
  <2> QED  BY <1>1, <1>2, <2>1, WFMin
<1>4. \A k \in Missing : ~(k < n)
  <2>1. \A x1, y1 \in Nat : x1 < y1 => <<x1, y1>> \in R
    BY DEF R
  <2>2. n \in Nat /\ \A k \in Missing : k \in Nat
    OBVIOUS
  <2> QED  BY <1>3, <2>1, <2>2
<1>5. n # 0
  OBVIOUS
<1>6. n - 1 \in 0 .. m - 1 /\ n - 1 \in T /\ n - 1 + 1 = n
  BY <1>4, <1>5
<1> QED  BY <1>6

\* The common type of the first i elements: what the next one makes of it.
Common(c, item) ==
  IF item \in NullOrIdentity THEN c ELSE UNION {PromotedBetween(e, item) : e \in c}

LEMMA SameTypeUnfolds ==
  ASSUME NEW items, Len(items) \in Nat \ {0}
  PROVE  \E common : /\ common[1] = {items[1]}
                     /\ \A i \in 2 .. Len(items) : common[i] = Common(common[i - 1], items[i])
                     /\ SameType(items) \in {{}, common[Len(items)]}
<1> DEFINE m == Len(items)
           Step(f, k) == [i \in 1 .. k |->
                            IF i = 1 THEN {items[1]} ELSE Common(f[i - 1], items[i])]
           T == {k \in 0 .. m : \E f : f = Step(f, k)}
           common == CHOOSE f : f = Step(f, m)
<1>0. m \in Nat /\ m # 0
  OBVIOUS
<1> HIDE DEF m
<1>1. 0 \in T
  <2>1. \E f : f = Step(f, 0)
    <3>1. [i \in 1 .. 0 |-> {}] = Step([i \in 1 .. 0 |-> {}], 0)
      OBVIOUS
    <3> QED  BY <3>1
  <2>2. 0 \in 0 .. m
    BY <1>0
  <2> HIDE DEF Step
  <2> QED  BY <2>1, <2>2
<1>2. ASSUME NEW k \in 0 .. m - 1, k \in T PROVE k + 1 \in T
  <2>0. k \in Nat
    BY <1>0
  <2>1. PICK f : f = Step(f, k)
    BY <1>2
  <2> DEFINE last == IF k = 0 THEN {items[1]} ELSE Common(f[k], items[k + 1])
             g == [i \in 1 .. k + 1 |-> IF i = k + 1 THEN last ELSE f[i]]
  <2>2. ASSUME NEW i \in 1 .. k + 1
        PROVE  g[i] = IF i = 1 THEN {items[1]} ELSE Common(g[i - 1], items[i])
    <3>1. CASE i = k + 1 /\ i # 1
      <4>1. i - 1 = k /\ k \in 1 .. k + 1 /\ k # k + 1 /\ k # 0
        BY <2>0, <3>1
      <4>2. g[i] = Common(f[k], items[k + 1]) /\ g[k] = f[k]
        BY <3>1, <4>1
      <4> HIDE DEF g
      <4> QED  BY <3>1, <4>1, <4>2
    <3>2. CASE i # k + 1
      <4>1. i \in 1 .. k /\ (i # 1 => i - 1 \in 1 .. k /\ i - 1 \in 1 .. k + 1 /\ i - 1 # k + 1)
        BY <2>0, <3>2
      <4>2. f[i] = IF i = 1 THEN {items[1]} ELSE Common(f[i - 1], items[i])
        BY <2>1, <4>1
      <4>3. g[i] = f[i] /\ (i # 1 => g[i - 1] = f[i - 1])
        BY <2>0, <3>2, <4>1
      <4> HIDE DEF g
      <4> QED  BY <4>2, <4>3
    <3>3. CASE i = k + 1 /\ i = 1
      BY <2>0, <3>3
    <3> QED  BY <3>1, <3>2, <3>3
  <2>3. g = Step(g, k + 1)
    BY <2>2
  <2>4. k + 1 \in 0 .. m
    BY <1>0
  <2> QED  BY <2>3, <2>4
<1>3. m \in T
  <2> HIDE DEF T
  <2>1. 0 .. m \subseteq T
    BY <1>0, <1>1, <1>2, IntervalInduction
  <2> QED  BY <1>0, <2>1
<1>4. common = Step(common, m)
  BY <1>3
<1>5. SameType(items) \in {{}, common[m]}
  <2>1. SameType(items) = IF {items[i] : i \in DOMAIN items} = NullOrIdentity THEN {} ELSE common[m]
    BY Zenon DEF SameType, m, Common
  <2> QED  BY <2>1
<1> HIDE DEF common
<1>6. \A i \in 1 .. m :
        common[i] = IF i = 1 THEN {items[1]} ELSE Common(common[i - 1], items[i])
  BY <1>4
<1>7. 1 \in 1 .. m /\ \A i \in 2 .. m : i \in 1 .. m /\ i # 1
  BY <1>0
<1>8. /\ common[1] = {items[1]}
      /\ \A i \in 2 .. m : common[i] = Common(common[i - 1], items[i])
  BY Zenon, <1>6, <1>7
<1> QED  BY <1>5, <1>8 DEF m

\* The common type of the elements is the type of one of them.
LEMMA SameTypeIsOfAnElement ==
  ASSUME NEW items, Len(items) \in Nat \ {0}, NEW e \in SameType(items)
  PROVE  \E i \in 1 .. Len(items) : e = items[i]
<1> DEFINE n == Len(items)
           All == {items[i] : i \in 1 .. n}
<1>1. PICK common : /\ common[1] = {items[1]}
                    /\ \A i \in 2 .. n : common[i] = Common(common[i - 1], items[i])
                    /\ SameType(items) \in {{}, common[n]}
  BY SameTypeUnfolds
<1> DEFINE T == {k \in 0 .. n - 1 : common[k + 1] \subseteq All}
<1>0. n \in Nat /\ n # 0
  OBVIOUS
<1> HIDE DEF n
<1>2. 0 \in T
  BY <1>0, <1>1
<1>3. ASSUME NEW k \in 0 .. n - 1 - 1, k \in T PROVE k + 1 \in T
  <2>1. k + 2 \in 2 .. n /\ k + 2 - 1 = k + 1 /\ k + 1 \in 0 .. n - 1 /\ k + 1 + 1 = k + 2
        /\ k + 2 \in 1 .. n
    BY <1>0
  <2>2. common[k + 2] = Common(common[k + 1], items[k + 2])
    BY <1>1, <2>1
  <2>3. common[k + 1] \subseteq All /\ items[k + 2] \in All
    BY <1>3, <2>1
  <2> HIDE DEF All
  <2>4. \A a \in All : PromotedBetween(a, items[k + 2]) \subseteq All
    BY <2>3, PromotedIsOneOfTwo
  <2>5. common[k + 2] \subseteq All
    BY <2>2, <2>3, <2>4 DEF Common
  <2> QED  BY <2>1, <2>5
<1>4. n - 1 \in T
  <2> HIDE DEF T
  <2>1. n - 1 \in Nat /\ n - 1 \in 0 .. n - 1
    BY <1>0
  <2>2. 0 .. n - 1 \subseteq T
    BY <1>2, <1>3, <2>1, IntervalInduction
  <2> QED  BY <2>1, <2>2
<1>5. n - 1 + 1 = n
  BY <1>0
<1>6. e \in All
  BY <1>1, <1>4, <1>5
<1> QED  BY <1>6 DEF n

\* A literal is converted to the type of one of its elements, to which all of
\* them can be promoted.
LEMMA ConvertedLiteral ==
  ASSUME NEW v, LiteralArray(v)
  PROVE  LET r == MixedToSameType(v) IN
         \/ /\ Ok(r)
            /\ r.value = Array(r.value.elem, v.dims)
            /\ TotalLength(v) # 0
            /\ \E i \in 1 .. Len(v.items) : r.value.elem = v.items[i]
            /\ \A i \in 1 .. Len(v.items) : Converts(FALSE, r.value.elem, v.items[i])
         \/ /\ ~Ok(r)
            /\ r.why \in {"no-element-to-deduce-a-type-from", "literal-of-different-types"}
            /\ r.why = "no-element-to-deduce-a-type-from" => TotalLength(v) = 0
<1> DEFINE r == MixedToSameType(v)
           elem == CHOOSE e \in SameType(v.items) : TRUE
<1>1. CASE TotalLength(v) = 0
  BY <1>1 DEF MixedToSameType, Fail, Ok
<1>2. CASE TotalLength(v) # 0
  <2>1. v.kind = "array" /\ v.elem = "mixed" /\ v.dims \in Seq(Nat) /\ Len(v.dims) \in 0 .. 2
    BY DEF LiteralArray
  <2>2. Len(v.items) = TotalLength(v) /\ v.items \in Seq(Elements)
    BY DEF LiteralArray
  <2>3. Len(v.items) \in Nat \ {0} /\ DOMAIN v.items = 1 .. Len(v.items)
    BY <1>2, <2>2
  <2>4. CASE SameType(v.items) = {} \/ ~ArrayConverts(FALSE, elem, v)
    <3>1. r = Fail("literal-of-different-types")
      BY <1>2, <2>4 DEF MixedToSameType
    <3> QED  BY <3>1 DEF Fail, Ok
  <2>5. CASE SameType(v.items) # {} /\ ArrayConverts(FALSE, elem, v)
    <3>1. r = Fine(Array(elem, v.dims))
      BY <1>2, <2>5 DEF MixedToSameType
    <3>2. elem \in SameType(v.items)
      BY <2>5
    <3> HIDE DEF elem
    <3>3. \E i \in 1 .. Len(v.items) : elem = v.items[i]
      BY <2>3, <3>2, SameTypeIsOfAnElement
    <3>4. \A i \in 1 .. Len(v.items) : Converts(FALSE, elem, v.items[i])
      BY <2>1, <2>3, <2>5 DEF ArrayConverts, IsMixed
    <3>5. Ok(r) /\ r.value = Array(elem, v.dims) /\ r.value.elem = elem
      BY <3>1 DEF Fine, Ok, Array, Record
    <3> HIDE DEF r
    <3> QED  BY <1>2, <3>3, <3>4, <3>5 DEF r
  <2> QED  BY <2>4, <2>5
<1> QED  BY <1>1, <1>2

(***************************************************************************)
(* Conversion.                                                             *)
(***************************************************************************)
LEMMA PlainArray ==
  ASSUME NEW elem \in Elements, NEW d \in Seq(Nat), Len(d) \in 0 .. 2
  PROVE  /\ FlatArray(Array(elem, d))
         /\ Array(elem, d).kind = "array" /\ Array(elem, d).elem = elem /\ Array(elem, d).dims = d
         /\ Array(elem, d).str = FALSE
BY DEF FlatArray, ArrayOver, IsRecord, Array, Record

LEMMA PlainInterval ==
  ASSUME NEW n
  PROVE  /\ Interval(n).kind = "interval" /\ Interval(n).dims = <<n>> /\ Interval(n).dims[1] = n
         /\ Len(Interval(n).dims) = 1 /\ Interval(n).elem = "none"
BY DEF Interval, Record

\* An array keeps its element type when it is given other sizes.
LEMMA Resized ==
  ASSUME NEW S, NEW t, ArrayOver(t, S), NEW d \in Seq(Nat), Len(d) = Len(t.dims)
  PROVE  /\ FlatArray([t EXCEPT !.dims = d])
         /\ [t EXCEPT !.dims = d].dims = d /\ [t EXCEPT !.dims = d].elem = t.elem
         /\ [t EXCEPT !.dims = d].str = t.str /\ [t EXCEPT !.dims = d].kind = "array"
<1>1. t = Record("array", t.elem, t.dims, <<>>, t.str, <<>>)
  BY DEF ArrayOver, IsRecord
<1>2. [t EXCEPT !.dims = d] = Record("array", t.elem, d, <<>>, t.str, <<>>)
  BY <1>1 DEF Record
<1>3. /\ t.elem \in Elements /\ Len(d) \in 0 .. 2 /\ t.str \in BOOLEAN
      /\ t.str => t.elem = "character" /\ Len(d) = 1
  BY DEF ArrayOver
<1> QED  BY <1>2, <1>3 DEF FlatArray, ArrayOver, IsRecord, Record

\* w is the target t with sizes for those it does not know, of rhs or 0.  A
\* cast from an interval does not make a string.
Fits(w, t, rhs) ==
  /\ FlatArray(w) /\ w.elem = t.elem /\ Len(w.dims) = Len(t.dims)
  /\ w.str => t.str
  /\ \A i \in 1 .. Len(t.dims) :
       \/ w.dims[i] = t.dims[i]
       \/ /\ t.dims[i] = UnknownSize
          /\ w.dims[i] = 0 \/ (Len(rhs.dims) = Len(t.dims) /\ w.dims[i] = rhs.dims[i])

LEMMA FitsResized ==
  ASSUME NEW t, ArrayOver(t, Nat \cup {UnknownSize}), NEW rhs,
         NEW d \in Seq(Nat), Len(d) = Len(t.dims),
         \A i \in 1 .. Len(t.dims) :
           \/ d[i] = t.dims[i]
           \/ /\ t.dims[i] = UnknownSize
              /\ d[i] = 0 \/ (Len(rhs.dims) = Len(t.dims) /\ d[i] = rhs.dims[i])
  PROVE  Fits([t EXCEPT !.dims = d], t, rhs)
<1> DEFINE w == [t EXCEPT !.dims = d]
<1>2. FlatArray(w) /\ w.dims = d /\ w.elem = t.elem /\ w.str = t.str
  BY Resized
<1> HIDE DEF w
<1>4. Fits(w, t, rhs)
  BY <1>2 DEF Fits
<1> QED  BY <1>4 DEF w

LEMMA FitsItself ==
  ASSUME NEW t, ArrayOver(t, Nat \cup {UnknownSize}), NEW rhs, ~HasUnknownSize(t)
  PROVE  Fits(t, t, rhs)
<1>1. t = Record("array", t.elem, t.dims, <<>>, t.str, <<>>)
  BY DEF ArrayOver, IsRecord
<1>2. t.dims \in Seq(Nat)
  <2>1. t.dims \in Seq(Nat \cup {UnknownSize})
    BY DEF ArrayOver
  <2>2. \A i \in 1 .. Len(t.dims) : t.dims[i] \in Nat
    <3> SUFFICES ASSUME NEW i \in 1 .. Len(t.dims) PROVE t.dims[i] \in Nat
      OBVIOUS
    <3>1. t.dims[i] \in Nat \cup {-1} /\ ~(t.dims[i] < 0)
      BY <2>1 DEF HasUnknownSize, UnknownSize
    <3> QED  BY <3>1
  <2> QED  BY <2>1, <2>2
<1>3. [t EXCEPT !.dims = t.dims] = t
  BY <1>1 DEF Record
<1>4. Fits([t EXCEPT !.dims = t.dims], t, rhs)
  BY <1>2, FitsResized
<1> QED  BY <1>3, <1>4

\* The results of a conversion to an array.
LEMMA NullFits ==
  ASSUME NEW t, ArrayOver(t, Nat \cup {UnknownSize}), NEW rhs, Ok(FromNullFlat(t))
  PROVE  FromNullFlat(t).value = t /\ ~HasUnknownSize(t) /\ Fits(t, t, rhs)
<1>1. t.kind = "array"
  BY DEF ArrayOver
<1>2. ~HasUnknownSize(t) /\ FromNullFlat(t).value = t
  BY <1>1 DEF FromNullFlat, Fail, Fine, Ok
<1> QED  BY <1>2, FitsItself

LEMMA OneDimension ==
  ASSUME NEW S, NEW t, ArrayOver(t, S), NDim(t) = 1
  PROVE  t.dims[1] \in S /\ t.dims = <<t.dims[1]>>
<1>1. t.dims \in Seq(S) /\ Len(t.dims) = 1
  BY DEF ArrayOver, NDim
<1> QED  BY <1>1

LEMMA IntervalFits ==
  ASSUME NEW t, ArrayOver(t, Nat \cup {UnknownSize}), NEW rhs, IsInterval(rhs), NEW config,
         Ok(FromInterval(config, t, rhs))
  PROVE  LET w == FromInterval(config, t, rhs).value IN
         /\ Fits(w, t, rhs) /\ w.str = FALSE
         /\ config.restriction = SameSize /\ ~HasUnknownSize(t) => w.dims = t.dims
         /\ ~config.isCast => t.elem \in {"integer", "real"}
<1> DEFINE size == rhs.dims[1]
           length == IF t.dims[1] < 0 THEN size ELSE t.dims[1]
           w == Array(t.elem, <<length>>)
<1>1. FromInterval(config, t, rhs) = Fine(w)
  BY DEF FromInterval, Fail, Ok
<1>2. /\ NDim(t) = 1 /\ t.elem \in BasicElements
      /\ ~(config.restriction < RestrictionNeeded(<<size>>, <<length>>))
      /\ ~config.isCast => t.elem \in {"integer", "real"}
  BY DEF FromInterval, Fail, Ok
<1>3. t.dims[1] \in Nat \cup {UnknownSize} /\ t.dims = <<t.dims[1]>>
  BY <1>2, OneDimension
<1>4. size \in Nat /\ Len(rhs.dims) = 1
  <2>1. rhs = Interval(rhs.dims[1]) /\ rhs.dims[1] \in Nat
    BY DEF IsInterval
  <2> HIDE DEF size
  <2>2. Len(rhs.dims) = 1
    BY <2>1, PlainInterval
  <2> QED  BY <2>1, <2>2 DEF size
<1>5. length \in Nat /\ (length = t.dims[1] \/ (t.dims[1] = UnknownSize /\ length = size))
  BY <1>3, <1>4 DEF UnknownSize
<1> HIDE DEF length
<1>6. /\ FlatArray(w) /\ w.elem = t.elem /\ w.dims = <<length>> /\ w.str = FALSE
  <2>1. t.elem \in Elements /\ <<length>> \in Seq(Nat) /\ Len(<<length>>) \in 0 .. 2
    BY <1>2, <1>5 DEF Elements
  <2> QED  BY <2>1, PlainArray
<1>8. Fits(w, t, rhs)
  <2>1. Len(t.dims) = 1 /\ \A i \in 1 .. 1 : w.dims[i] = length /\ t.dims[i] = t.dims[1]
                               /\ rhs.dims[i] = size
    BY <1>3, <1>6
  <2>2. Len(w.dims) = 1
    BY <1>6
  <2>3. \A i \in 1 .. Len(t.dims) :
          \/ w.dims[i] = t.dims[i]
          \/ /\ t.dims[i] = UnknownSize
             /\ w.dims[i] = 0 \/ (Len(rhs.dims) = Len(t.dims) /\ w.dims[i] = rhs.dims[i])
    BY <1>3, <1>4, <1>5, <2>1
  <2> HIDE DEF w
  <2> QED  BY <1>6, <2>1, <2>2, <2>3 DEF Fits
<1>9. config.restriction = SameSize /\ ~HasUnknownSize(t) => w.dims = t.dims
  <2>1. SUFFICES ASSUME config.restriction = SameSize, ~HasUnknownSize(t) PROVE length = t.dims[1]
    BY <1>3, <1>6
  <2>2. ~(t.dims[1] < 0)
    BY <1>3, <2>1 DEF HasUnknownSize
  <2> QED  BY <2>2, <1>3 DEF length
<1>10. Fine(w).value = w
  BY DEF Fine
<1> HIDE DEF w
<1> QED  BY <1>1, <1>2, <1>6, <1>8, <1>9, <1>10

LEMMA EmptyFits ==
  ASSUME NEW t, ArrayOver(t, Nat \cup {UnknownSize}), NEW rhs, NEW config,
         Ok(FromEmpty(config, t))
  PROVE  LET w == FromEmpty(config, t).value IN
         /\ Fits(w, t, rhs) /\ Len(t.dims) = 1
         /\ config.restriction = SameSize /\ ~HasUnknownSize(t) => w = t
<1> DEFINE length == Max({t.dims[1], 0})
           w == [t EXCEPT !.dims = <<length>>]
<1>1. FromEmpty(config, t) = Fine(w)
  BY DEF FromEmpty, Fail, Ok
<1>2. NDim(t) = 1 /\ ~(t.dims[1] > 0 /\ config.restriction = SameSize)
  BY DEF FromEmpty, Fail, Ok
<1>3. t.dims[1] \in Nat \cup {UnknownSize} /\ t.dims = <<t.dims[1]>>
  BY <1>2, OneDimension
<1>4. length = IF t.dims[1] >= 0 THEN t.dims[1] ELSE 0
  <2>1. t.dims[1] \in Int /\ 0 \in Int
    BY <1>3 DEF UnknownSize
  <2> QED  BY Zenon, <2>1, MaxOfTwo
<1> HIDE DEF length
<1>5. length \in Nat /\ (length = t.dims[1] \/ (t.dims[1] = UnknownSize /\ length = 0))
  BY <1>3, <1>4 DEF UnknownSize
<1>6. Fits(w, t, rhs)
  <2>1. <<length>> \in Seq(Nat) /\ Len(<<length>>) = Len(t.dims)
    BY <1>3, <1>5
  <2>2. \A i \in 1 .. Len(t.dims) :
          \/ <<length>>[i] = t.dims[i]
          \/ /\ t.dims[i] = UnknownSize
             /\ <<length>>[i] = 0 \/ (Len(rhs.dims) = Len(t.dims) /\ <<length>>[i] = rhs.dims[i])
    <3>1. Len(t.dims) = 1
      BY <1>3
    <3>2. \A i \in 1 .. 1 : <<length>>[i] = length /\ t.dims[i] = t.dims[1]
      OBVIOUS
    <3> QED  BY <1>5, <3>1, <3>2
  <2> QED  BY <2>1, <2>2, FitsResized
<1>7. config.restriction = SameSize /\ ~HasUnknownSize(t) => w = t
  <2>1. SUFFICES ASSUME config.restriction = SameSize, ~HasUnknownSize(t) PROVE w = t
    OBVIOUS
  <2>2. ~(t.dims[1] < 0)
    BY <1>3, <2>1 DEF HasUnknownSize
  <2>3. length = t.dims[1]
    BY <1>3, <1>4, <2>2 DEF UnknownSize
  <2>4. t = Record("array", t.elem, t.dims, <<>>, t.str, <<>>)
    BY DEF ArrayOver, IsRecord
  <2>5. w = [t EXCEPT !.dims = t.dims]
    BY <1>3, <2>3
  <2> QED  BY <2>4, <2>5 DEF Record
<1>8. Fine(w).value = w
  BY DEF Fine
<1> HIDE DEF w
<1> QED  BY <1>1, <1>2, <1>6, <1>7, <1>8 DEF NDim

LEMMA ArrayFits ==
  ASSUME NEW t, ArrayOver(t, Nat \cup {UnknownSize}), NEW rhs, FlatArray(rhs) \/ LiteralArray(rhs),
         NEW config, Ok(FromArray(config, t, rhs))
  PROVE  LET w == FromArray(config, t, rhs).value IN
         /\ Fits(w, t, rhs)
         /\ config.restriction = SameSize /\ ~HasUnknownSize(t) => w = t
         /\ ArrayConverts(config.isCast, t.elem, rhs)
         /\ Len(rhs.dims) \in {0, Len(t.dims)}
         /\ ~config.isCast /\ Len(rhs.dims) # 0 => rhs.elem \in {t.elem, "mixed"}
<1> DEFINE d == [i \in DOMAIN t.dims |-> IF t.dims[i] < 0 /\ i \in DOMAIN rhs.dims
                                         THEN rhs.dims[i] ELSE t.dims[i]]
           r == FromArray(config, t, rhs)
<1>1. /\ ~config.isCast /\ NDim(rhs) # 0 => rhs.elem \in {t.elem, "mixed"}
      /\ ~(NDim(t) < NDim(rhs) \/ (NDim(t) = 2 /\ NDim(rhs) = 1))
      /\ ArrayConverts(config.isCast, t.elem, rhs)
      /\ NDim(rhs) = 0 => ~HasUnknownSize(t) /\ r = Fine(t)
      /\ NDim(rhs) # 0 => /\ ~(config.restriction < RestrictionNeeded(rhs.dims, d))
                          /\ r = Fine([t EXCEPT !.dims = d])
  BY DEF FromArray, Fail, Ok
<1>2. /\ t.dims \in Seq(Nat \cup {UnknownSize}) /\ Len(t.dims) \in 0 .. 2
      /\ DOMAIN t.dims = 1 .. Len(t.dims)
  BY DEF ArrayOver
<1>3. /\ rhs.dims \in Seq(Nat) /\ Len(rhs.dims) \in 0 .. 2 /\ DOMAIN rhs.dims = 1 .. Len(rhs.dims)
  BY DEF FlatArray, ArrayOver, LiteralArray
<1>4. Len(rhs.dims) \in {0, Len(t.dims)}
  BY <1>1, <1>2, <1>3 DEF NDim
<1>5. CASE NDim(rhs) = 0
  <2>1. r.value = t
    BY <1>1, <1>5 DEF Fine
  <2>2. Fits(t, t, rhs)
    BY <1>1, <1>5, FitsItself
  <2> QED  BY <1>1, <1>4, <1>5, <2>1, <2>2 DEF NDim
<1>6. CASE NDim(rhs) # 0
  <2>1. Len(rhs.dims) = Len(t.dims) /\ DOMAIN t.dims = DOMAIN rhs.dims
    BY <1>2, <1>3, <1>4, <1>6 DEF NDim
  <2>2. \A i \in 1 .. Len(t.dims) :
          /\ d[i] \in Nat
          /\ d[i] = t.dims[i] \/ (t.dims[i] = UnknownSize /\ d[i] = rhs.dims[i])
          /\ ~(t.dims[i] < 0) => d[i] = t.dims[i]
    <3> SUFFICES ASSUME NEW i \in 1 .. Len(t.dims)
                 PROVE  /\ d[i] \in Nat
                        /\ d[i] = t.dims[i] \/ (t.dims[i] = UnknownSize /\ d[i] = rhs.dims[i])
                        /\ ~(t.dims[i] < 0) => d[i] = t.dims[i]
      OBVIOUS
    <3>1. i \in DOMAIN t.dims /\ i \in DOMAIN rhs.dims
      BY <1>2, <2>1
    <3>2. t.dims[i] \in Nat \cup {UnknownSize} /\ rhs.dims[i] \in Nat
      BY <1>2, <1>3, <2>1
    <3>3. d[i] = IF t.dims[i] < 0 THEN rhs.dims[i] ELSE t.dims[i]
      BY <3>1
    <3> HIDE DEF d
    <3> QED  BY <3>2, <3>3 DEF UnknownSize
  <2>3. DOMAIN d = 1 .. Len(t.dims) /\ d = [i \in 1 .. Len(t.dims) |-> d[i]]
    BY <1>2
  <2>7. (\A i \in 1 .. Len(t.dims) : ~(t.dims[i] < 0)) => d = t.dims
    <3>1. t.dims = [i \in 1 .. Len(t.dims) |-> t.dims[i]]
      BY <1>2
    <3> HIDE DEF d
    <3> QED  BY <2>2, <2>3, <3>1
  <2> HIDE DEF d
  <2>4. d \in Seq(Nat) /\ Len(d) = Len(t.dims)
    BY <1>2, <2>2, <2>3
  <2>5. Fits([t EXCEPT !.dims = d], t, rhs)
    BY <2>1, <2>2, <2>4, FitsResized
  <2>6. r.value = [t EXCEPT !.dims = d]
    BY <1>1, <1>6 DEF Fine
  <2>8. config.restriction = SameSize /\ ~HasUnknownSize(t) => r.value = t
    <3>1. t = Record("array", t.elem, t.dims, <<>>, t.str, <<>>)
      BY DEF ArrayOver, IsRecord
    <3>2. ~HasUnknownSize(t) => d = t.dims
      BY <1>2, <2>7 DEF HasUnknownSize
    <3>3. [t EXCEPT !.dims = t.dims] = t
      BY <3>1 DEF Record
    <3> QED  BY <2>6, <3>2, <3>3
  <2> HIDE DEF r
  <2>9. Fits(r.value, t, rhs)
    BY <2>5, <2>6
  <2> QED  BY <1>1, <1>4, <2>8, <2>9 DEF r, NDim
<1> QED  BY <1>5, <1>6

\* What the kind of a value says of it.
LEMMA FlatArrayFields ==
  ASSUME NEW v, FlatArray(v)
  PROVE  /\ v.kind = "array" /\ v.elem \in Elements /\ v.elem # "mixed" /\ ~IsMixed(v)
         /\ v.dims \in Seq(Nat) /\ Len(v.dims) \in 0 .. 2
         /\ v = Record("array", v.elem, v.dims, <<>>, v.str, <<>>)
<1>1. v.elem \in Elements /\ v.elem # "mixed"
  BY DEF FlatArray, ArrayOver, Elements, BasicElements, NullOrIdentity
<1> QED  BY <1>1 DEF FlatArray, ArrayOver, IsRecord, IsMixed

LEMMA IntervalFields ==
  ASSUME NEW v, IsInterval(v)
  PROVE  /\ v.kind = "interval" /\ v.elem = "none" /\ Len(v.dims) = 1
         /\ v.dims \in Seq(Nat) /\ v.dims[1] \in Nat \ {0} /\ v = Interval(v.dims[1])
<1>1. v = Interval(v.dims[1]) /\ v.dims[1] \in Nat \ {0}
  BY DEF IsInterval
<1>2. v.dims = <<v.dims[1]>> /\ v.kind = "interval" /\ v.elem = "none"
  BY <1>1, PlainInterval
<1>3. \A n \in Nat : <<n>> \in Seq(Nat) /\ Len(<<n>>) = 1
  OBVIOUS
<1> QED  BY <1>1, <1>2, <1>3

LEMMA EmptyFields ==
  /\ EmptyArray.kind = "empty" /\ EmptyArray.elem = "mixed" /\ EmptyArray.dims = <<>>
  /\ EmptyArray.fields = <<>>
BY DEF EmptyArray, Record

LEMMA TupleFields ==
  ASSUME NEW v, TupleOfFlat(v)
  PROVE  v.kind = "tuple" /\ v.elem = "none" /\ v.dims = <<>>
<1>1. v = TupleValue(v.fields)
  BY DEF TupleOfFlat
<1> QED  BY <1>1 DEF TupleValue, Record

LEMMA ValueFields ==
  ASSUME NEW v, Value(v)
  PROVE  /\ v.kind \in {"array", "empty", "interval", "tuple"}
         /\ v.dims \in Seq(Nat) /\ Len(v.dims) \in 0 .. 2
         /\ v.kind = "array" => FlatArray(v) \/ LiteralArray(v)
         /\ v.kind = "interval" => IsInterval(v)
         /\ v.kind = "tuple" => TupleOfFlat(v)
         /\ v.kind = "empty" => v = EmptyArray
<1>0. <<>> \in Seq(Nat) /\ Len(<<>>) = 0
  OBVIOUS
<1>1. CASE FlatArray(v)
  BY <1>1, FlatArrayFields
<1>2. CASE IsInterval(v)
  BY <1>2, IntervalFields
<1>3. CASE TupleOfFlat(v)
  <2>1. v.kind = "tuple" /\ v.dims = <<>>
    BY <1>3, TupleFields
  <2> QED  BY <1>0, <1>3, <2>1
<1>4. CASE LiteralArray(v)
  BY <1>4 DEF LiteralArray
<1>5. CASE v = EmptyArray
  BY <1>0, <1>5, EmptyFields
<1> QED  BY <1>1, <1>2, <1>3, <1>4, <1>5 DEF Value, Settled, FlatValue

Configurations == {Parameter, Cast, Assignment, Declaration, Promotion}

LEMMA ConfigurationFields ==
  /\ Parameter.unknownType /\ Parameter.unknownSize /\ ~Parameter.isCast
  /\ ~Cast.unknownType /\ Cast.unknownSize /\ Cast.isCast
  /\ ~Assignment.unknownType /\ ~Assignment.unknownSize /\ ~Assignment.isCast
  /\ Declaration.unknownType /\ Declaration.unknownSize /\ ~Declaration.isCast
  /\ Promotion.unknownType /\ ~Promotion.unknownSize /\ ~Promotion.isCast
  /\ Assignment.restriction = SameSize /\ Promotion.restriction = SameSize
BY DEF Parameter, Cast, Assignment, Declaration, Promotion, Config

\* A conversion to an array.
LEMMA ToArray ==
  ASSUME NEW t, ArrayOver(t, Nat \cup {UnknownSize}), NEW rhs, Value(rhs),
         NEW config, Ok(ConvertFlat(config, t, rhs))
  PROVE  LET w == ConvertFlat(config, t, rhs).value IN
         /\ Fits(w, t, rhs)
         /\ rhs.kind # "tuple"
         /\ config.restriction = SameSize /\ ~config.isCast /\ ~HasUnknownSize(t) => w = t
         /\ \/ rhs.kind = "array" /\ rhs.elem \in NullOrIdentity /\ Len(rhs.dims) = 0
            \/ rhs.kind \in {"empty", "interval"} /\ Len(t.dims) = 1
            \/ /\ rhs.kind = "array" /\ ArrayConverts(config.isCast, t.elem, rhs)
               /\ Len(rhs.dims) \in {0, Len(t.dims)}
               /\ ~config.isCast /\ Len(rhs.dims) # 0 => rhs.elem \in {t.elem, "mixed"}
<1> DEFINE r == ConvertFlat(config, t, rhs)
<1>1. t.kind = "array" /\ t.elem # "mixed" /\ IsArray(t) /\ ~IsMixed(t)
  BY DEF ArrayOver, IsArray, IsMixed, Elements, BasicElements, NullOrIdentity
<1>2. r = IF ~config.unknownSize /\ HasUnknownSize(t) THEN Fail("unknown-size")
          ELSE IF IsScalar(rhs) /\ rhs.elem \in NullOrIdentity THEN FromNullFlat(t)
          ELSE IF rhs.kind = "interval" THEN FromInterval(config, t, rhs)
          ELSE IF rhs.kind = "tuple" THEN Fail("no-tuple")
          ELSE IF rhs.kind = "empty" THEN FromEmpty(config, t)
          ELSE FromArray(config, t, rhs)
  BY <1>1 DEF ConvertFlat
<1>3. ~(~config.unknownSize /\ HasUnknownSize(t))
  BY <1>2 DEF Fail, Ok
<1>k. /\ rhs.kind \in {"array", "empty", "interval", "tuple"}
      /\ rhs.kind = "array" => FlatArray(rhs) \/ LiteralArray(rhs)
      /\ rhs.kind = "interval" => IsInterval(rhs)
  BY ValueFields
<1>4. CASE IsScalar(rhs) /\ rhs.elem \in NullOrIdentity
  <2>1. r = FromNullFlat(t)
    BY <1>2, <1>3, <1>4
  <2>2. r.value = t /\ Fits(t, t, rhs)
    BY <2>1, NullFits
  <2>3. rhs.kind = "array" /\ Len(rhs.dims) = 0
    BY <1>4 DEF IsScalar
  <2> QED  BY <1>4, <2>2, <2>3
<1>5. CASE ~(IsScalar(rhs) /\ rhs.elem \in NullOrIdentity) /\ rhs.kind = "interval"
  <2>1. r = FromInterval(config, t, rhs)
    BY <1>2, <1>3, <1>5
  <2>2. IsInterval(rhs)
    BY <1>5, <1>k
  <2>3. /\ Fits(r.value, t, rhs) /\ r.value.str = FALSE
        /\ config.restriction = SameSize /\ ~HasUnknownSize(t) => r.value.dims = t.dims
        /\ ~config.isCast => t.elem \in {"integer", "real"}
    <3>1. Ok(FromInterval(config, t, rhs))
      BY <2>1
    <3> HIDE DEF r
    <3> QED  BY <2>1, <2>2, <3>1, IntervalFits
  <2>4. NDim(t) = 1
    BY <2>1 DEF FromInterval, Fail, Ok
  <2> HIDE DEF r
  <2>5. config.restriction = SameSize /\ ~config.isCast /\ ~HasUnknownSize(t) => r.value = t
    <3>1. SUFFICES ASSUME config.restriction = SameSize, ~config.isCast, ~HasUnknownSize(t)
                   PROVE  r.value = t
      OBVIOUS
    <3>2. t.str = FALSE
      BY <2>3, <3>1 DEF ArrayOver
    <3>3. t = Record("array", t.elem, t.dims, <<>>, FALSE, <<>>)
      BY <3>2 DEF ArrayOver, IsRecord
    <3>4. r.value.elem = t.elem /\ FlatArray(r.value) /\ r.value.dims = t.dims /\ r.value.str = FALSE
      BY <2>3, <3>1 DEF Fits
    <3>5. r.value = Record("array", t.elem, t.dims, <<>>, FALSE, <<>>)
      BY <3>4, FlatArrayFields
    <3> QED  BY <3>3, <3>5
  <2> QED  BY <1>5, <2>3, <2>4, <2>5 DEF r, NDim
<1>6. CASE ~(IsScalar(rhs) /\ rhs.elem \in NullOrIdentity) /\ rhs.kind = "empty"
  <2>1. r = FromEmpty(config, t)
    BY <1>2, <1>3, <1>6
  <2> QED  BY <1>6, <2>1, EmptyFits
<1>7. CASE ~(IsScalar(rhs) /\ rhs.elem \in NullOrIdentity) /\ rhs.kind = "array"
  <2>1. r = FromArray(config, t, rhs)
    BY <1>2, <1>3, <1>7
  <2> QED  BY <1>7, <1>k, <2>1, ArrayFits
<1>8. CASE ~(IsScalar(rhs) /\ rhs.elem \in NullOrIdentity) /\ rhs.kind = "tuple"
  <2>1. r = Fail("no-tuple")
    BY <1>2, <1>3, <1>8
  <2> QED  BY <2>1 DEF Fail, Ok
<1> QED  BY <1>4, <1>5, <1>6, <1>7, <1>8, <1>k

\* A conversion to an interval.
LEMMA ToInterval ==
  ASSUME NEW t, t.kind = "interval", NEW rhs, Value(rhs), NEW config,
         Ok(ConvertFlat(config, t, rhs))
  PROVE  LET w == ConvertFlat(config, t, rhs).value IN
         /\ IsInterval(w)
         /\ \/ w = rhs /\ rhs.kind = "interval"
            \/ w = Interval(1) /\ rhs.kind = "array" /\ rhs.elem \in NullOrIdentity /\ Len(rhs.dims) = 0
<1> DEFINE r == ConvertFlat(config, t, rhs)
<1>1. r = IF IsScalar(rhs) /\ rhs.elem \in NullOrIdentity THEN Fine(Interval(1))
          ELSE IF rhs.kind = "interval" THEN Fine(rhs) ELSE Fail("no-interval")
  BY DEF ConvertFlat, IsMixed, IsArray, FromNullFlat
<1>2. IsInterval(Interval(1))
  BY PlainInterval DEF IsInterval
<1>3. rhs.kind = "interval" => IsInterval(rhs)
  BY ValueFields
<1>4. CASE IsScalar(rhs) /\ rhs.elem \in NullOrIdentity
  <2>1. r.value = Interval(1) /\ rhs.kind = "array" /\ Len(rhs.dims) = 0
    BY <1>1, <1>4 DEF Fine, IsScalar
  <2> QED  BY <1>2, <1>4, <2>1
<1>5. CASE ~(IsScalar(rhs) /\ rhs.elem \in NullOrIdentity)
  <2>1. rhs.kind = "interval" /\ r.value = rhs
    BY <1>1, <1>5 DEF Fine, Fail, Ok
  <2> QED  BY <1>3, <2>1
<1> QED  BY <1>4, <1>5

\* Nothing is converted to an empty array, and only tuples to a tuple.
LEMMA ToNothing ==
  ASSUME NEW t, t.kind \in {"empty", "tuple"}, NEW rhs, NEW config
  PROVE  ~Ok(ConvertFlat(config, t, rhs))
<1>1. CASE t.kind = "empty"
  BY <1>1 DEF ConvertFlat, Fail, Ok
<1>2. CASE t.kind = "tuple"
  <2>1. ~Ok(FromNullFlat(t)) /\ ~Ok(FromInterval(config, t, rhs))
    BY <1>2 DEF FromNullFlat, FromInterval, Fail, Ok
  <2> QED  BY <1>2, <2>1 DEF ConvertFlat, IsMixed, IsArray, Fail, Ok
<1> QED  BY <1>1, <1>2

\* A conversion to the type a value has: a literal gets one.
LEMMA ToUnknown ==
  ASSUME NEW rhs, Value(rhs), NEW config, Ok(ConvertFlat(config, UnknownType, rhs))
  PROVE  LET w == ConvertFlat(config, UnknownType, rhs).value IN
         /\ Settled(w)
         /\ rhs.elem \notin NullOrIdentity
         /\ \/ w = rhs /\ Settled(rhs)
            \/ LiteralArray(rhs) /\ Ok(MixedToSameType(rhs)) /\ w = MixedToSameType(rhs).value
<1> DEFINE r == ConvertFlat(config, UnknownType, rhs)
<1>1. UnknownType.kind = "unknown" /\ ~Ok(FromNullFlat(UnknownType))
  BY DEF UnknownType, Record, FromNullFlat, Fail, Ok
<1>2. /\ rhs.elem \notin NullOrIdentity
      /\ r = IF IsArray(rhs) /\ rhs.elem = "mixed" THEN MixedToSameType(rhs) ELSE Fine(rhs)
  <2>1. r = IF IsScalar(rhs) /\ rhs.elem \in NullOrIdentity THEN FromNullFlat(UnknownType)
            ELSE IF ~config.unknownType \/ rhs.elem \in NullOrIdentity THEN Fail("unknown-type")
            ELSE IF IsArray(rhs) /\ rhs.elem = "mixed" THEN MixedToSameType(rhs)
            ELSE Fine(rhs)
    BY <1>1 DEF ConvertFlat, IsMixed, IsArray
  <2>2. ~(IsScalar(rhs) /\ rhs.elem \in NullOrIdentity)
    BY <1>1, <2>1
  <2> QED  BY <2>1, <2>2 DEF Fail, Ok
<1>3. CASE LiteralArray(rhs)
  <2>1. r = MixedToSameType(rhs)
    BY <1>2, <1>3 DEF LiteralArray, IsArray
  <2>2. /\ r.value = Array(r.value.elem, rhs.dims)
        /\ \E i \in 1 .. Len(rhs.items) : r.value.elem = rhs.items[i]
    BY <1>3, <2>1, ConvertedLiteral
  <2>3. r.value.elem \in Elements /\ rhs.dims \in Seq(Nat) /\ Len(rhs.dims) \in 0 .. 2
    BY <1>3, <2>2 DEF LiteralArray
  <2>4. FlatArray(r.value)
    <3> HIDE DEF r
    <3> QED  BY <2>2, <2>3, PlainArray
  <2> QED  BY <1>2, <1>3, <2>1, <2>4 DEF Settled, FlatValue
<1>4. CASE rhs = EmptyArray
  <2>1. r = Fail("no-element-to-deduce-a-type-from")
    BY <1>2, <1>4, EmptyFields DEF IsArray, MixedToSameType, TotalLength
  <2> QED  BY <2>1 DEF Fail, Ok
<1>5. CASE Settled(rhs)
  <2>1. ~(IsArray(rhs) /\ rhs.elem = "mixed")
    BY <1>5, FlatArrayFields, IntervalFields, TupleFields DEF Settled, FlatValue, IsArray
  <2>2. r.value = rhs
    BY <1>2, <2>1 DEF Fine
  <2> QED  BY <1>2, <1>5, <2>2
<1> QED  BY <1>3, <1>4, <1>5 DEF Value

LEMMA SmallestOf ==
  ASSUME NEW S \in SUBSET Nat, S # {}
  PROVE  Min(S) \in S /\ \A n \in S : Min(S) <= n
<1> DEFINE R == {pair \in Nat \X Nat : pair[1] < pair[2]}
<1>1. IsWellFoundedOn(R, Nat)
  BY NatLessThanWellFounded DEF OpToRel
<1>2. \A a, b \in Nat : a < b => <<a, b>> \in R
  OBVIOUS
<1> HIDE DEF R
<1>3. PICK m \in S : \A k \in S : ~(<<k, m>> \in R)
  BY <1>1, WFMin
<1>4. \A k \in S : m <= k
  <2> SUFFICES ASSUME NEW k \in S PROVE m <= k
    OBVIOUS
  <2>1. m \in Nat /\ k \in Nat
    OBVIOUS
  <2>2. ~(k < m)
    BY Zenon, <1>2, <1>3, <2>1
  <2> QED  BY <2>1, <2>2
<1> QED  BY <1>4 DEF Min

\* The fields of a tuple, converted: they make a tuple if none has failed.
LEMMA FieldsMakeTuple ==
  ASSUME NEW fields, NEW n \in Nat, DOMAIN fields = 1 .. n, Ok(Fieldwise(fields))
  PROVE  /\ \A i \in 1 .. n : Ok(fields[i])
         /\ Fieldwise(fields).value = TupleValue([i \in 1 .. n |-> fields[i].value])
<1> DEFINE bad == {i \in DOMAIN fields : ~Ok(fields[i])}
<1>1. CASE bad = {}
  <2>1. Fieldwise(fields) = Fine(TupleValue([i \in DOMAIN fields |-> fields[i].value]))
    BY <1>1 DEF Fieldwise
  <2> QED  BY <1>1, <2>1 DEF Fine
<1>2. CASE bad # {}
  <2>1. Fieldwise(fields) = fields[Min(bad)]
    BY <1>2 DEF Fieldwise
  <2>2. bad \in SUBSET Nat
    OBVIOUS
  <2>3. Min(bad) \in bad
    <3> HIDE DEF bad
    <3> QED  BY <1>2, <2>2, SmallestOf
  <2> QED  BY <2>1, <2>3
<1> QED  BY <1>1, <1>2

\* A tuple of the n values g.
LEMMA MakesTuple ==
  ASSUME NEW n \in Nat, NEW g, g = [i \in 1 .. n |-> g[i]], \A i \in 1 .. n : FlatValue(g[i])
  PROVE  /\ TupleOfFlat(TupleValue(g)) /\ TupleValue(g).fields = g /\ Len(g) = n
         /\ DOMAIN g = 1 .. n
<1>1. Len([i \in 1 .. n |-> g[i]]) = n /\ DOMAIN [i \in 1 .. n |-> g[i]] = 1 .. n
  OBVIOUS
<1>2. Len(g) = n /\ DOMAIN g = 1 .. n
  BY Zenon, <1>1
<1>3. TupleValue(g).fields = g
  BY DEF TupleValue, Record
<1> QED  BY <1>2, <1>3 DEF TupleOfFlat

\* The lengths of a value are at most m.
Within(v, m) == \A i \in DOMAIN v.dims : v.dims[i] <= m

\* A value as a target of a conversion: it has no unknown size.
LEMMA FlatValueIsTarget ==
  ASSUME NEW v, FlatValue(v)
  PROVE  FlatTarget(v) /\ Value(v) /\ ~HasUnknownSize(v)
<1>1. CASE FlatArray(v)
  <2>1. v.dims \in Seq(Nat)
    BY <1>1, FlatArrayFields
  <2>2. ~HasUnknownSize(v)
    BY <2>1 DEF HasUnknownSize
  <2>3. v.dims \in Seq(Nat \cup {UnknownSize})
    BY <2>1
  <2> QED  BY <1>1, <2>2, <2>3 DEF FlatArray, ArrayOver, FlatTarget, Value, Settled, FlatValue
<1>2. CASE IsInterval(v)
  <2>1. v.dims \in Seq(Nat)
    BY <1>2, IntervalFields
  <2>2. ~HasUnknownSize(v)
    BY <2>1 DEF HasUnknownSize
  <2> QED  BY <1>2, <2>2 DEF IsInterval, FlatTarget, Value, Settled, FlatValue
<1> QED  BY <1>1, <1>2 DEF FlatValue

LEMMA ToFlat ==
  ASSUME NEW t, FlatTarget(t), NEW rhs, Value(rhs), NEW config, Ok(ConvertFlat(config, t, rhs))
  PROVE  LET w == ConvertFlat(config, t, rhs).value IN
         /\ FlatValue(w) /\ w.kind = t.kind /\ rhs.kind # "tuple"
         /\ FlatValue(t) /\ config.restriction = SameSize /\ ~config.isCast =>
              FieldShape(w) = FieldShape(t)
         /\ \A m \in Nat \ {0} : Within(t, m) /\ Within(rhs, m) => Within(w, m)
<1> DEFINE w == ConvertFlat(config, t, rhs).value
<1>1. CASE ArrayOver(t, Nat \cup {UnknownSize})
  <2>1. /\ Fits(w, t, rhs) /\ rhs.kind # "tuple"
        /\ config.restriction = SameSize /\ ~config.isCast /\ ~HasUnknownSize(t) => w = t
    BY <1>1, ToArray
  <2> HIDE DEF w
  <2>2. FlatArray(w) /\ w.kind = t.kind
    BY <1>1, <2>1, FlatArrayFields DEF Fits, ArrayOver
  <2>3. \A m \in Nat \ {0} : Within(t, m) /\ Within(rhs, m) => Within(w, m)
    <3> SUFFICES ASSUME NEW m \in Nat \ {0}, Within(t, m), Within(rhs, m), NEW i \in DOMAIN w.dims
                 PROVE  w.dims[i] <= m
      BY DEF Within
    <3>1. t.dims \in Seq(Nat \cup {UnknownSize}) /\ rhs.dims \in Seq(Nat) /\ w.dims \in Seq(Nat)
      BY <1>1, <2>2, ValueFields DEF ArrayOver, FlatArray
    <3>2. i \in 1 .. Len(t.dims) /\ i \in DOMAIN t.dims
      BY <2>1, <3>1 DEF Fits
    <3>0. \A j \in 1 .. Len(t.dims) :
            \/ w.dims[j] = t.dims[j] \/ w.dims[j] = 0
            \/ Len(rhs.dims) = Len(t.dims) /\ w.dims[j] = rhs.dims[j]
      BY <2>1 DEF Fits
    <3>3. w.dims[i] = t.dims[i] \/ w.dims[i] = 0 \/ (i \in DOMAIN rhs.dims /\ w.dims[i] = rhs.dims[i])
      <4>1. Len(rhs.dims) = Len(t.dims) => i \in DOMAIN rhs.dims
        BY <3>1, <3>2
      <4> QED  BY Zenon, <3>0, <3>2, <4>1
    <3>4. t.dims[i] <= m /\ (i \in DOMAIN rhs.dims => rhs.dims[i] <= m) /\ 0 <= m
      BY <3>2 DEF Within
    <3> QED  BY <3>3, <3>4
  <2>4. FlatValue(t) => ~HasUnknownSize(t)
    BY FlatValueIsTarget
  <2> QED  BY <2>1, <2>2, <2>3, <2>4 DEF w, FlatValue
<1>2. CASE t.dims[1] \in Nat \cup {UnknownSize} /\ t = Interval(t.dims[1])
  <2>1. t.kind = "interval"
    BY <1>2, PlainInterval
  <2>2. /\ IsInterval(w)
        /\ \/ w = rhs /\ rhs.kind = "interval"
           \/ w = Interval(1) /\ rhs.kind = "array"
    BY <2>1, ToInterval
  <2> HIDE DEF w
  <2>3. w.kind = "interval" /\ Interval(1).dims = <<1>>
    BY <2>2, IntervalFields, PlainInterval
  <2>4. \A m \in Nat \ {0} : Within(rhs, m) => Within(w, m)
    <3>1. \A m \in Nat \ {0} : \A i \in DOMAIN <<1>> : <<1>>[i] <= m
      OBVIOUS
    <3> QED  BY <2>2, <2>3, <3>1 DEF Within
  <2>5. FieldShape(w) = FieldShape(t)
    BY <2>1, <2>3 DEF FieldShape
  <2> QED  BY <2>1, <2>2, <2>3, <2>4, <2>5 DEF w, FlatValue
<1> QED  BY <1>1, <1>2 DEF FlatTarget

LEMMA NullToFlat ==
  ASSUME NEW t, FlatTarget(t), Ok(FromNullFlat(t))
  PROVE  FlatValue(FromNullFlat(t).value) /\ FieldShape(FromNullFlat(t).value) = FieldShape(t)
<1>1. CASE ArrayOver(t, Nat \cup {UnknownSize})
  <2>1. FromNullFlat(t).value = t /\ Fits(t, t, t)
    BY <1>1, NullFits
  <2> QED  BY <2>1 DEF Fits, FlatValue
<1>2. CASE t.dims[1] \in Nat \cup {UnknownSize} /\ t = Interval(t.dims[1])
  <2>1. t.kind = "interval"
    BY <1>2, PlainInterval
  <2>2. FromNullFlat(t).value = Interval(1)
    BY <2>1 DEF FromNullFlat, Fine
  <2>3. IsInterval(Interval(1)) /\ Interval(1).kind = "interval"
    BY PlainInterval DEF IsInterval
  <2> QED  BY <2>1, <2>2, <2>3 DEF FlatValue, FieldShape
<1> QED  BY <1>1, <1>2 DEF FlatTarget

\* What a value may be converted to.
TupleTarget(t) ==
  /\ t = TupleValue(t.fields)
  /\ Len(t.fields) \in Nat /\ DOMAIN t.fields = 1 .. Len(t.fields)
  /\ \A i \in 1 .. Len(t.fields) : FlatTarget(t.fields[i])

LEMMA ToTuple ==
  ASSUME NEW t, TupleTarget(t), NEW rhs, Value(rhs), NEW config, Ok(Convert(config, t, rhs))
  PROVE  LET w == Convert(config, t, rhs).value IN
         /\ TupleOfFlat(w) /\ Len(w.fields) = Len(t.fields)
         /\ TupleOfFlat(t) /\ config.restriction = SameSize /\ ~config.isCast =>
              \A i \in 1 .. Len(t.fields) : FieldShape(w.fields[i]) = FieldShape(t.fields[i])
         /\ rhs.kind = "tuple" \/ (IsScalar(rhs) /\ rhs.elem \in NullOrIdentity)
         /\ \A i \in 1 .. Len(t.fields) :
              \/ LET r == ConvertFlat(config, t.fields[i], rhs.fields[i]) IN
                 Ok(r) /\ w.fields[i] = r.value /\ Value(rhs.fields[i])
              \/ LET r == FromNullFlat(t.fields[i]) IN
                 Ok(r) /\ w.fields[i] = r.value
<1> DEFINE n == Len(t.fields)
           r == Convert(config, t, rhs)
<1>0. n \in Nat /\ DOMAIN t.fields = 1 .. n
  BY DEF TupleTarget
<1>1. t.kind = "tuple"
  BY DEF TupleTarget, TupleValue, Record
<1>2. CASE rhs.kind = "tuple"
  <2> DEFINE f == [i \in 1 .. n |-> ConvertFlat(config, t.fields[i], rhs.fields[i])]
             g == [i \in 1 .. n |-> f[i].value]
  <2>1. Len(rhs.fields) = n /\ r = Fieldwise(f)
    BY <1>0, <1>1, <1>2 DEF Convert, Fail, Ok
  <2>2. TupleOfFlat(rhs)
    BY <1>2, ValueFields
  <2>3. /\ \A i \in 1 .. n : Ok(f[i])
        /\ r.value = TupleValue(g)
    <3>1. DOMAIN f = 1 .. n
      OBVIOUS
    <3> HIDE DEF f, n
    <3> QED  BY <1>0, <2>1, <3>1, FieldsMakeTuple
  <2>4. \A i \in 1 .. n :
          /\ FlatValue(g[i])
          /\ FlatValue(t.fields[i]) /\ config.restriction = SameSize /\ ~config.isCast =>
               FieldShape(g[i]) = FieldShape(t.fields[i])
          /\ LET c == ConvertFlat(config, t.fields[i], rhs.fields[i]) IN
             Ok(c) /\ g[i] = c.value /\ Value(rhs.fields[i])
    <3> SUFFICES ASSUME NEW i \in 1 .. n
                 PROVE  /\ FlatValue(g[i])
                        /\ FlatValue(t.fields[i]) /\ config.restriction = SameSize /\ ~config.isCast =>
                             FieldShape(g[i]) = FieldShape(t.fields[i])
                        /\ LET c == ConvertFlat(config, t.fields[i], rhs.fields[i]) IN
                           Ok(c) /\ g[i] = c.value /\ Value(rhs.fields[i])
      OBVIOUS
    <3>1. FlatTarget(t.fields[i]) /\ Value(rhs.fields[i])
      BY <2>1, <2>2, FlatValueIsTarget DEF TupleTarget, TupleOfFlat
    <3>2. Ok(ConvertFlat(config, t.fields[i], rhs.fields[i]))
      BY <2>3
    <3>3. g[i] = ConvertFlat(config, t.fields[i], rhs.fields[i]).value
      OBVIOUS
    <3> HIDE DEF g, f
    <3> QED  BY <3>1, <3>2, <3>3, ToFlat
  <2>5. g = [i \in 1 .. n |-> g[i]]
    OBVIOUS
  <2> HIDE DEF g, f, n
  <2>6. TupleOfFlat(TupleValue(g)) /\ TupleValue(g).fields = g /\ Len(g) = n
    BY <1>0, <2>4, <2>5, MakesTuple
  <2>8. r.value = TupleValue(g)
    BY <2>3
  <2> QED  BY <1>2, <2>4, <2>6, <2>8 DEF n, TupleOfFlat
<1>3. CASE rhs.kind # "tuple" /\ IsScalar(rhs) /\ rhs.elem \in NullOrIdentity
  <2> DEFINE f == [i \in 1 .. n |-> FromNullFlat(t.fields[i])]
             g == [i \in 1 .. n |-> f[i].value]
  <2>1. r = Fieldwise(f)
    BY <1>0, <1>1, <1>3 DEF Convert
  <2>3. /\ \A i \in 1 .. n : Ok(f[i])
        /\ r.value = TupleValue(g)
    <3>1. DOMAIN f = 1 .. n
      OBVIOUS
    <3> HIDE DEF f, n
    <3> QED  BY <1>0, <2>1, <3>1, FieldsMakeTuple
  <2>4. \A i \in 1 .. n : /\ FlatValue(g[i]) /\ FieldShape(g[i]) = FieldShape(t.fields[i])
                         /\ LET c == FromNullFlat(t.fields[i]) IN Ok(c) /\ g[i] = c.value
    <3> SUFFICES ASSUME NEW i \in 1 .. n
                 PROVE  /\ FlatValue(g[i]) /\ FieldShape(g[i]) = FieldShape(t.fields[i])
                        /\ LET c == FromNullFlat(t.fields[i]) IN Ok(c) /\ g[i] = c.value
      OBVIOUS
    <3>1. FlatTarget(t.fields[i])
      BY DEF TupleTarget
    <3>2. Ok(FromNullFlat(t.fields[i]))
      BY <2>3
    <3>3. g[i] = FromNullFlat(t.fields[i]).value
      OBVIOUS
    <3> HIDE DEF g, f
    <3> QED  BY <3>1, <3>2, <3>3, NullToFlat
  <2>5. g = [i \in 1 .. n |-> g[i]]
    OBVIOUS
  <2> HIDE DEF g, f, n
  <2>6. TupleOfFlat(TupleValue(g)) /\ TupleValue(g).fields = g /\ Len(g) = n
    BY <1>0, <2>4, <2>5, MakesTuple
  <2>8. r.value = TupleValue(g)
    BY <2>3
  <2> QED  BY <1>3, <2>4, <2>6, <2>8 DEF n, TupleOfFlat
<1>4. CASE ~(rhs.kind = "tuple" \/ (IsScalar(rhs) /\ rhs.elem \in NullOrIdentity))
  <2>1. r = ConvertFlat(config, t, rhs)
    BY <1>4 DEF Convert
  <2> QED  BY <1>1, <2>1, ToNothing
<1> QED  BY <1>2, <1>3, <1>4

LEMMA TupleIsTarget ==
  ASSUME NEW v, TupleOfFlat(v)
  PROVE  TupleTarget(v)
BY FlatValueIsTarget DEF TupleOfFlat, TupleTarget

LEMMA SameShape ==
  ASSUME NEW v, TupleOfFlat(v), NEW w, TupleOfFlat(w), Len(v.fields) = Len(w.fields),
         \A i \in 1 .. Len(v.fields) : FieldShape(v.fields[i]) = FieldShape(w.fields[i])
  PROVE  Shape(v) = Shape(w)
<1> DEFINE shapes(u) == [i \in DOMAIN u.fields |-> FieldShape(u.fields[i])]
<1>1. DOMAIN v.fields = 1 .. Len(v.fields) /\ DOMAIN w.fields = 1 .. Len(v.fields)
  BY DEF TupleOfFlat
<1>2. shapes(v) = shapes(w)
  BY <1>1
<1>3. ASSUME NEW u, TupleOfFlat(u) PROVE Shape(u) = TupleValue(shapes(u))
  <2>1. u = TupleValue(u.fields)
    BY <1>3 DEF TupleOfFlat
  <2>2. FieldShape(u) = u
    BY <1>3, TupleFields DEF FieldShape
  <2> DEFINE s == shapes(u)
  <2>3. Shape(u) = [u EXCEPT !.fields = s]
    BY <2>2 DEF Shape
  <2> HIDE DEF s
  <2>4. [u EXCEPT !.fields = s] = TupleValue(s)
    <3>1. \A b, f, g : [Record("tuple", "none", <<>>, <<>>, b, f) EXCEPT !.fields = g] =
                        Record("tuple", "none", <<>>, <<>>, b, g)
      BY DEF Record
    <3>2. \A f, g : [TupleValue(f) EXCEPT !.fields = g] = TupleValue(g)
      BY Zenon, <3>1 DEF TupleValue
    <3> QED  BY Zenon, <2>1, <3>2
  <2> QED  BY <2>3, <2>4 DEF s
<1> QED  BY <1>2, <1>3

\* A conversion to a declared type or to the type a variable has.
LEMMA Converted ==
  ASSUME NEW t, FlatTarget(t) \/ TupleTarget(t), NEW rhs, Value(rhs), NEW config,
         Ok(Convert(config, t, rhs))
  PROVE  LET w == Convert(config, t, rhs).value IN
         /\ Settled(w)
         /\ FlatTarget(t) => FlatValue(w) /\ w.kind = t.kind
         /\ Settled(t) /\ config.restriction = SameSize /\ ~config.isCast => Shape(w) = Shape(t)
         /\ \A m \in Nat \ {0} : Within(t, m) /\ Within(rhs, m) => Within(w, m)
<1> DEFINE w == Convert(config, t, rhs).value
<1>1. CASE FlatTarget(t)
  <2>1. t.kind # "tuple" /\ ~TupleOfFlat(t)
    BY <1>1, PlainInterval, TupleFields DEF FlatTarget, ArrayOver
  <2>2. Convert(config, t, rhs) = ConvertFlat(config, t, rhs)
    BY <2>1 DEF Convert
  <2>3. Ok(ConvertFlat(config, t, rhs))
    BY <2>2
  <2>4. /\ FlatValue(w) /\ w.kind = t.kind
        /\ FlatValue(t) /\ config.restriction = SameSize /\ ~config.isCast =>
             FieldShape(w) = FieldShape(t)
        /\ \A m \in Nat \ {0} : Within(t, m) /\ Within(rhs, m) => Within(w, m)
    BY <1>1, <2>2, <2>3, ToFlat
  <2> HIDE DEF w
  <2>5. FieldShape(w) = FieldShape(t) => Shape(w) = Shape(t)
    BY DEF Shape
  <2> QED  BY <2>1, <2>4, <2>5 DEF w, Settled
<1>2. CASE TupleTarget(t) /\ ~FlatTarget(t)
  <2>1. /\ TupleOfFlat(w) /\ Len(w.fields) = Len(t.fields)
        /\ TupleOfFlat(t) /\ config.restriction = SameSize /\ ~config.isCast =>
             \A i \in 1 .. Len(t.fields) : FieldShape(w.fields[i]) = FieldShape(t.fields[i])
    BY <1>2, ToTuple
  <2> HIDE DEF w
  <2>2. Settled(t) => TupleOfFlat(t)
    BY <1>2, FlatValueIsTarget DEF Settled
  <2>3. \A m \in Nat \ {0} : Within(w, m)
    <3>1. w.dims = <<>>
      BY <2>1, TupleFields
    <3> QED  BY <3>1 DEF Within
  <2>4. Settled(t) /\ config.restriction = SameSize /\ ~config.isCast => Shape(w) = Shape(t)
    BY <2>1, <2>2, SameShape
  <2> QED  BY <1>2, <2>1, <2>3, <2>4 DEF w, Settled
<1> QED  BY <1>1, <1>2

LEMMA SettledIsTarget ==
  ASSUME NEW v, Settled(v)
  PROVE  (FlatTarget(v) \/ TupleTarget(v)) /\ Value(v)
BY FlatValueIsTarget, TupleIsTarget DEF Settled, Value

LEMMA LiteralToArray ==
  ASSUME NEW v, LiteralArray(v), Ok(MixedToSameType(v))
  PROVE  /\ FlatArray(MixedToSameType(v).value) /\ MixedToSameType(v).value.dims = v.dims
         /\ MixedToSameType(v).value.str = FALSE
<1> DEFINE r == MixedToSameType(v)
<1>1. /\ r.value = Array(r.value.elem, v.dims)
      /\ \E i \in 1 .. Len(v.items) : r.value.elem = v.items[i]
  BY ConvertedLiteral
<1>2. r.value.elem \in Elements /\ v.dims \in Seq(Nat) /\ Len(v.dims) \in 0 .. 2
  BY <1>1 DEF LiteralArray
<1> HIDE DEF r
<1>3. /\ FlatArray(Array(r.value.elem, v.dims)) /\ Array(r.value.elem, v.dims).dims = v.dims
      /\ Array(r.value.elem, v.dims).str = FALSE
  BY <1>2, PlainArray
<1> QED  BY <1>1, <1>3 DEF r

\* A declaration without a type.
LEMMA Inferred ==
  ASSUME NEW rhs, Value(rhs), NEW config, Ok(Convert(config, UnknownType, rhs))
  PROVE  LET w == Convert(config, UnknownType, rhs).value IN
         /\ Settled(w)
         /\ w.dims = rhs.dims
<1> DEFINE w == Convert(config, UnknownType, rhs).value
<1>1. Convert(config, UnknownType, rhs) = ConvertFlat(config, UnknownType, rhs)
  BY DEF Convert, UnknownType, Record
<1>2. /\ Settled(w)
      /\ \/ w = rhs
         \/ LiteralArray(rhs) /\ Ok(MixedToSameType(rhs)) /\ w = MixedToSameType(rhs).value
  <2>1. Ok(ConvertFlat(config, UnknownType, rhs))
    BY <1>1
  <2> QED  BY <1>1, <2>1, ToUnknown
<1> QED  BY <1>2, LiteralToArray

(***************************************************************************)
(* Operators.                                                              *)
(***************************************************************************)
\* What an operand is once literals are converted.
LEMMA ConcreteIsSettled ==
  ASSUME NEW v, Value(v), Ok(Concrete(v))
  PROVE  /\ Settled(Concrete(v).value) \/ (v = EmptyArray /\ Concrete(v).value = EmptyArray)
         /\ Value(Concrete(v).value)
<1>1. CASE LiteralArray(v)
  <2>1. Concrete(v) = MixedToSameType(v)
    BY <1>1 DEF Concrete, IsMixed, LiteralArray
  <2>2. Ok(MixedToSameType(v))
    BY <2>1
  <2> QED  BY <1>1, <2>1, <2>2, LiteralToArray DEF Settled, FlatValue, Value
<1>2. CASE v = EmptyArray
  <2>1. Concrete(v).value = v
    BY <1>2, EmptyFields DEF Concrete, IsMixed, Fine
  <2> QED  BY <1>2, <2>1 DEF Value
<1>3. CASE Settled(v)
  <2>1. ~IsMixed(v)
    BY <1>3, FlatArrayFields, IntervalFields, TupleFields DEF Settled, FlatValue, IsMixed
  <2>2. Concrete(v).value = v
    BY <2>1 DEF Concrete, Fine
  <2> QED  BY <1>3, <2>2 DEF Value
<1> QED  BY <1>1, <1>2, <1>3 DEF Value

LEMMA UnaryGivesValue ==
  ASSUME NEW op, NEW v, Value(v), Ok(Unary(op, v))
  PROVE  Unary(op, v).value = v
BY DEF Unary, Fine, Fail, Ok

\* `larger' and `target' have the dimensions of an array.
LEMMA SameSizeGivesValue ==
  ASSUME NEW op, NEW elem, NEW dims \in Seq(Nat), Len(dims) \in 0 .. 2,
         Ok(SameTypeSameSize(op, elem, dims))
  PROVE  FlatArray(SameTypeSameSize(op, elem, dims).value)
<1> DEFINE r == SameTypeSameSize(op, elem, dims)
<1>1. CASE elem \notin {"boolean", "integer", "real"}
  <2>1. r = Fail("no-such-operator")
    BY <1>1 DEF SameTypeSameSize
  <2> QED  BY <2>1 DEF Fail, Ok
<1>2. CASE elem \in {"boolean", "integer", "real"}
  <2>1. r \in {Fine(Array("boolean", <<>>)), Fine(Array("boolean", dims)), Fine(Array(elem, <<>>)),
                Fine(Array(elem, dims)), Fail("no-such-operator")}
    BY DEF SameTypeSameSize
  <2>2. r.value \in {Array("boolean", <<>>), Array("boolean", dims), Array(elem, <<>>),
                      Array(elem, dims)}
    BY <2>1 DEF Fine, Fail, Ok
  <2>3. {"boolean", elem} \subseteq Elements
    BY <1>2 DEF Elements, BasicElements
  <2>4. <<>> \in Seq(Nat) /\ Len(<<>>) \in 0 .. 2
    OBVIOUS
  <2>5. \A e \in Elements : FlatArray(Array(e, <<>>)) /\ FlatArray(Array(e, dims))
    BY <2>4, PlainArray
  <2> HIDE DEF r
  <2>6. FlatArray(r.value)
    BY Zenon, <2>2, <2>3, <2>5
  <2> QED  BY <2>6 DEF r
<1> QED  BY <1>1, <1>2

LEMMA CommonElementGivesValue ==
  ASSUME NEW op, NEW p, NEW q, NEW target, Value(target), NEW elem1, NEW elem2,
         Ok(WithCommonElement(op, p, q, target, elem1, elem2))
  PROVE  FlatArray(WithCommonElement(op, p, q, target, elem1, elem2).value)
<1> DEFINE elem == CHOOSE e \in PromotedBetween(elem1, elem2) : TRUE
           result == SameTypeSameSize(op, elem, target.dims)
<1>1. WithCommonElement(op, p, q, target, elem1, elem2) = result
  BY DEF WithCommonElement, Promoted, Fail, Ok
<1>2. target.dims \in Seq(Nat) /\ Len(target.dims) \in 0 .. 2
  BY ValueFields
<1>3. Ok(result)
  BY <1>1
<1> HIDE DEF elem
<1> QED  BY <1>1, <1>2, <1>3, SameSizeGivesValue

LEMMA IntervalGivesValue ==
  ASSUME NEW op, NEW p, Value(p), NEW q, Value(q), NEW size \in Nat \ {0},
         Ok(WithInterval(op, p, q, size))
  PROVE  FlatValue(WithInterval(op, p, q, size).value)
<1> DEFINE left == ConvertFlat(Promotion, Interval(1), p)
           right == ConvertFlat(Promotion, Interval(1), q)
           r == WithInterval(op, p, q, size)
<1>1. Ok(left) /\ Ok(right) /\ r = IntervalBinary(op, left.value, right.value, size)
  BY DEF WithInterval
<1>2. IsInterval(left.value) /\ IsInterval(right.value)
  <2>1. Interval(1).kind = "interval"
    BY PlainInterval
  <2> QED  BY <1>1, <2>1, ToInterval
<1>3. PICK m \in Nat \ {0}, n \in Nat \ {0} : left.value.dims[1] = m /\ right.value.dims[1] = n
  BY <1>2 DEF IsInterval
<1> HIDE DEF left, right
<1>4. r \in {Fine(Array("boolean", <<>>)), Fine(Interval(m + n - 1)), Fine(Interval(m - n + 1)),
             Fine(Interval(size)), Fail("no-such-interval-operator")}
  BY <1>1, <1>3 DEF IntervalBinary
<1>5. r.value \in {Array("boolean", <<>>), Interval(m + n - 1), Interval(size)}
  BY <1>1, <1>3 DEF IntervalBinary, Fine, Fail, Ok
<1>6. FlatArray(Array("boolean", <<>>))
  <2>1. "boolean" \in Elements /\ <<>> \in Seq(Nat) /\ Len(<<>>) \in 0 .. 2
    BY DEF Elements, BasicElements
  <2> QED  BY <2>1, PlainArray
<1>7. \A k \in Nat \ {0} : IsInterval(Interval(k))
  BY PlainInterval DEF IsInterval
<1>8. m + n - 1 \in Nat \ {0}
  OBVIOUS
<1>9. FlatValue(r.value)
  BY Zenon, <1>5, <1>6, <1>7, <1>8 DEF FlatValue
<1> QED  BY <1>9

LEMMA ProductGivesValue ==
  ASSUME NEW p, Value(p), NEW q, Value(q), Ok(MatrixProduct(p, q))
  PROVE  FlatArray(MatrixProduct(p, q).value)
<1> DEFINE elem == CHOOSE e \in PromotedBetween(p.elem, q.elem) : TRUE
           r == MatrixProduct(p, q)
<1>1. /\ IsMatrix(p) /\ IsMatrix(q) /\ elem \in {"integer", "real"}
      /\ r = Fine(Array(elem, <<p.dims[1], q.dims[2]>>))
  BY DEF MatrixProduct, Fail, Ok
<1>2. p.dims \in Seq(Nat) /\ q.dims \in Seq(Nat) /\ Len(p.dims) = 2 /\ Len(q.dims) = 2
  BY <1>1, ValueFields DEF IsMatrix
<1>3. <<p.dims[1], q.dims[2]>> \in Seq(Nat) /\ Len(<<p.dims[1], q.dims[2]>>) \in 0 .. 2
  BY <1>2
<1>4. elem \in Elements
  BY <1>1 DEF Elements, BasicElements
<1> HIDE DEF elem
<1>5. FlatArray(Array(elem, <<p.dims[1], q.dims[2]>>))
  BY <1>3, <1>4, PlainArray
<1> QED  BY <1>1, <1>5 DEF Fine

LEMMA SpecTypesGiveValue ==
  ASSUME NEW op, NEW p, Value(p), NEW q, Value(q), NEW size \in Nat \ {0},
         Ok(SpecTypes(op, p, q, size))
  PROVE  FlatValue(SpecTypes(op, p, q, size).value)
<1> DEFINE r == SpecTypes(op, p, q, size)
           intervals == "interval" \in {p.kind, q.kind}
           larger == IF NDim(p) > NDim(q) THEN p ELSE q
           vector == IF IsArray(p) THEN p ELSE q
           step == ConvertFlat(Promotion, Interval(1), p)
<1>1. ~("empty" \in {p.kind, q.kind})
  BY DEF SpecTypes, Fail, Ok
<1>2. CASE op = "range"
  <2>1. r = Fine(Interval(size))
    BY <1>1, <1>2 DEF SpecTypes
  <2>2. IsInterval(Interval(size))
    BY PlainInterval DEF IsInterval
  <2> QED  BY <2>1, <2>2 DEF Fine, FlatValue
<1>3. CASE op = "by"
  <2> DEFINE n == Min({size, step.value.dims[1]})
  <2>1. Ok(step) /\ r = Fine(Array("integer", <<n>>))
    BY <1>1, <1>3 DEF SpecTypes
  <2>2. step.value.dims[1] \in Nat
    <3>1. Interval(1).kind = "interval"
      BY PlainInterval
    <3>2. IsInterval(step.value)
      BY <2>1, <3>1, ToInterval
    <3> QED  BY <3>2 DEF IsInterval
  <2> HIDE DEF step
  <2>3. n \in Nat
    <3>1. size \in Int /\ step.value.dims[1] \in Int
      BY <2>2
    <3>2. n = IF size <= step.value.dims[1] THEN size ELSE step.value.dims[1]
      BY <3>1, MinOfTwo
    <3> QED  BY <2>2, <3>2
  <2> HIDE DEF n
  <2>4. "integer" \in Elements /\ <<n>> \in Seq(Nat) /\ Len(<<n>>) \in 0 .. 2
    BY <2>3 DEF Elements, BasicElements
  <2>5. FlatArray(Array("integer", <<n>>))
    BY <2>4, PlainArray
  <2> QED  BY <2>1, <2>5 DEF Fine, FlatValue
<1>4. CASE op # "range" /\ op # "by"
  <2>1. r = IF intervals /\ ~(IsVector(p) \/ IsVector(q)) THEN WithInterval(op, p, q, size)
            ELSE IF intervals
            THEN WithCommonElement(op, p, q, vector, "integer", vector.elem)
            ELSE IF op = "dot" /\ 2 \in {NDim(p), NDim(q)} THEN MatrixProduct(p, q)
            ELSE WithCommonElement(op, p, q, larger, p.elem, q.elem)
    BY <1>1, <1>4 DEF SpecTypes
  <2>2. Value(vector) /\ Value(larger)
    OBVIOUS
  <2> HIDE DEF vector, larger
  <2>3. \/ r = WithInterval(op, p, q, size)
        \/ r = WithCommonElement(op, p, q, vector, "integer", vector.elem)
        \/ r = MatrixProduct(p, q)
        \/ r = WithCommonElement(op, p, q, larger, p.elem, q.elem)
    BY <2>1
  <2>4. Ok(r)
    OBVIOUS
  <2> HIDE DEF r
  <2>5. FlatValue(r.value)
    BY <2>2, <2>3, <2>4, CommonElementGivesValue, IntervalGivesValue, ProductGivesValue DEF FlatValue
  <2> QED  BY <2>5 DEF r
<1> QED  BY <1>2, <1>3, <1>4

\* Both operands of an operation when it gets them.
First(a, b) == IF a.elem \in NullOrIdentity
               THEN Convert(Promotion, Concrete(b).value, Concrete(a).value) ELSE Concrete(a)

Second(a, b) == IF b.elem \in NullOrIdentity
                THEN Convert(Promotion, First(a, b).value, Concrete(b).value) ELSE Concrete(b)

LEMMA OperandsAreValues ==
  ASSUME NEW a, Value(a), NEW b, Value(b), Ok(Concrete(a)), Ok(Concrete(b)),
         Ok(First(a, b)), Ok(Second(a, b))
  PROVE  Value(First(a, b).value) /\ Value(Second(a, b).value)
<1>1. Value(Concrete(a).value) /\ Value(Concrete(b).value)
  BY ConcreteIsSettled
<1>2. ASSUME NEW t, Value(t), ~LiteralArray(t), NEW rhs, Value(rhs), Ok(Convert(Promotion, t, rhs))
      PROVE  Settled(Convert(Promotion, t, rhs).value)
  <2>1. CASE Settled(t)
    BY <1>2, <2>1, SettledIsTarget, Converted
  <2>2. CASE t = EmptyArray
    <3>1. t.kind = "empty"
      BY <2>2, EmptyFields
    <3>2. Convert(Promotion, t, rhs) = ConvertFlat(Promotion, t, rhs)
      BY <3>1 DEF Convert
    <3> QED  BY <1>2, <3>1, <3>2, ToNothing
  <2> QED  BY <1>2, <2>1, <2>2 DEF Value
<1>3. ASSUME NEW v, Settled(v) \/ v = EmptyArray PROVE ~LiteralArray(v)
  <2>1. LiteralArray(v) => v.kind = "array" /\ v.elem = "mixed"
    BY DEF LiteralArray
  <2> QED  BY <1>3, <2>1, FlatArrayFields, IntervalFields, TupleFields, EmptyFields
           DEF Settled, FlatValue
<1>4. ~LiteralArray(Concrete(a).value) /\ ~LiteralArray(Concrete(b).value)
  BY <1>3, ConcreteIsSettled
<1>5. Value(First(a, b).value) /\ ~LiteralArray(First(a, b).value)
  BY <1>1, <1>2, <1>3, <1>4 DEF First, Value
<1>6. Value(Second(a, b).value)
  BY <1>1, <1>2, <1>5 DEF Second, Value
<1> QED  BY <1>5, <1>6

\* Two tuples compared give a boolean.
LEMMA TuplesGiveValue ==
  ASSUME NEW p, NEW q, Ok(TupleBinary(p, q))
  PROVE  FlatArray(TupleBinary(p, q).value)
<1> DEFINE r == TupleBinary(p, q)
<1>1. "boolean" \in Elements /\ <<>> \in Seq(Nat) /\ Len(<<>>) \in 0 .. 2
  BY DEF Elements, BasicElements
<1>2. FlatArray(Array("boolean", <<>>))
  BY <1>1, PlainArray
<1>3. r = Fine(Array("boolean", <<>>))
  BY DEF TupleBinary, Fail, Ok
<1> QED  BY <1>2, <1>3 DEF Fine

LEMMA BinaryGivesValue ==
  ASSUME NEW op, NEW a, Value(a), NEW b, Value(b), NEW size \in Nat \ {0},
         Ok(Binary(op, a, b, size))
  PROVE  FlatValue(Binary(op, a, b, size).value)
<1> DEFINE p == First(a, b).value
           q == Second(a, b).value
           r == Binary(op, a, b, size)
<1>1. /\ Ok(Concrete(a)) /\ Ok(Concrete(b)) /\ Ok(First(a, b)) /\ Ok(Second(a, b))
      /\ r = TupleBinary(p, q) \/ r = SpecTypes(op, p, q, size)
  BY DEF Binary, Prepared, First, Second
<1>2. Value(p) /\ Value(q)
  BY <1>1, OperandsAreValues
<1>3. Ok(r)
  OBVIOUS
<1> HIDE DEF p, q, r
<1>4. FlatValue(r.value)
  BY <1>1, <1>2, <1>3, SpecTypesGiveValue, TuplesGiveValue DEF FlatValue
<1> QED  BY <1>4 DEF r

\* What is concatenated: a literal no more.
LEMMA ConcatenatedGivesValue ==
  ASSUME NEW p, Settled(p) \/ p = EmptyArray, NEW q, Settled(q) \/ q = EmptyArray,
         Ok(Concatenated(p, q))
  PROVE  Value(Concatenated(p, q).value)
<1> DEFINE r == Concatenated(p, q)
           elem == CHOOSE e \in PromotedBetween(p.elem, q.elem) : TRUE
           alone(v) == IF IsScalar(v) THEN Fine(Array(v.elem, <<1>>)) ELSE Fine(v)
           n == TotalLength(p) + TotalLength(q)
           made == [Array(elem, <<n>>) EXCEPT !.str = p.str \/ q.str]
<1>1. ASSUME NEW v, Settled(v) \/ v = EmptyArray PROVE Value(alone(v).value)
  <2>1. CASE IsScalar(v)
    <3>1. FlatArray(v)
      BY <1>1, <2>1, IntervalFields, TupleFields, EmptyFields DEF Settled, FlatValue, IsScalar
    <3>2. v.elem \in Elements /\ <<1>> \in Seq(Nat) /\ Len(<<1>>) \in 0 .. 2
      BY <3>1, FlatArrayFields
    <3>3. FlatArray(Array(v.elem, <<1>>))
      BY <3>2, PlainArray
    <3> QED  BY <2>1, <3>3 DEF Fine, Value, Settled, FlatValue
  <2>2. CASE ~IsScalar(v)
    BY <1>1, <2>2 DEF Fine, Value
  <2> QED  BY <2>1, <2>2
<1>2. CASE p.kind = "empty"
  <2>1. r = alone(q)
    BY <1>2 DEF Concatenated, Fail, Ok
  <2> HIDE DEF alone
  <2> QED  BY <1>1, <2>1
<1>3. CASE p.kind # "empty" /\ q.kind = "empty"
  <2>1. r = alone(p)
    BY <1>3 DEF Concatenated, Fail, Ok
  <2> HIDE DEF alone
  <2> QED  BY <1>1, <2>1
<1>4. CASE p.kind # "empty" /\ q.kind # "empty"
  <2>1. /\ IsArray(p) /\ IsArray(q) /\ PromotedBetween(p.elem, q.elem) # {}
        /\ elem \in BasicElements /\ r = Fine(made)
    <3> HIDE DEF elem
    <3> QED  BY <1>4 DEF Concatenated, Fail, Ok, elem
  <2>2. FlatArray(p) /\ FlatArray(q)
    BY <1>4, <2>1, IntervalFields, TupleFields, EmptyFields DEF Settled, FlatValue, IsArray
  <2>3. n \in Nat
    <3>1. /\ p.kind # "empty" /\ p.dims \in Seq(Nat) /\ Len(p.dims) \in 0 .. 2
          /\ q.kind # "empty" /\ q.dims \in Seq(Nat) /\ Len(q.dims) \in 0 .. 2
      BY <1>4, <2>2, FlatArrayFields
    <3>2. TotalLength(p) \in Nat /\ TotalLength(q) \in Nat
      BY <3>1, TotalLengthIsNatural
    <3> QED  BY <3>2
  <2>4. elem \in PromotedBetween(p.elem, q.elem)
    BY <2>1
  <2>5. p.str \/ q.str => elem = "character"
    <3> HIDE DEF elem
    <3>1. \A a, b : CanBePromotedFrom(a, b) /\ "character" \in {a, b} /\ a \in BasicElements =>
                      a = "character"
      BY DEF CanBePromotedFrom, BasicElements, NullOrIdentity
    <3>2. \/ elem = p.elem /\ CanBePromotedFrom(p.elem, q.elem)
          \/ elem = q.elem /\ CanBePromotedFrom(q.elem, p.elem)
      BY <2>4 DEF PromotedBetween
    <3>3. p.str \/ q.str => "character" \in {p.elem, q.elem}
      BY <2>2 DEF FlatArray, ArrayOver
    <3> QED  BY <2>1, <3>1, <3>2, <3>3
  <2>6. p.str \in BOOLEAN /\ q.str \in BOOLEAN
    BY <2>2 DEF FlatArray, ArrayOver
  <2>7. PICK b \in BOOLEAN : b = (p.str \/ q.str)
    BY <2>6
  <2> HIDE DEF elem, n
  <2>8. made = Record("array", elem, <<n>>, <<>>, b, <<>>)
    <3>1. \A c : [Record("array", elem, <<n>>, <<>>, c, <<>>) EXCEPT !.str = b] =
                 Record("array", elem, <<n>>, <<>>, b, <<>>)
      BY DEF Record
    <3>2. made = [Array(elem, <<n>>) EXCEPT !.str = b]
      BY Zenon, <2>7
    <3> QED  BY Zenon, <3>1, <3>2 DEF Array
  <2>9. FlatArray(Record("array", elem, <<n>>, <<>>, b, <<>>))
    <3>1. elem \in Elements /\ <<n>> \in Seq(Nat) /\ Len(<<n>>) = 1
      BY <2>1, <2>3 DEF Elements
    <3>2. b => elem = "character"
      BY Zenon, <2>5, <2>7
    <3> QED  BY <3>1, <3>2 DEF FlatArray, ArrayOver, IsRecord, Record
  <2> QED  BY <2>1, <2>8, <2>9 DEF Fine, Value, Settled, FlatValue
<1> QED  BY <1>2, <1>3, <1>4

LEMMA ConcatGivesValue ==
  ASSUME NEW a, Value(a), NEW b, Value(b), Ok(Concat(a, b))
  PROVE  Value(Concat(a, b).value)
<1> DEFINE p == Concrete(a).value
           q == Concrete(b).value
<1>1. Ok(Concrete(a)) /\ Ok(Concrete(b)) /\ Concat(a, b) = Concatenated(p, q)
  BY DEF Concat
<1>2. (Settled(p) \/ p = EmptyArray) /\ (Settled(q) \/ q = EmptyArray)
  BY <1>1, ConcreteIsSettled
<1> HIDE DEF p, q
<1> QED  BY <1>1, <1>2, ConcatenatedGivesValue

(***************************************************************************)
(* Literals, generators, indexing, fields.                                 *)
(***************************************************************************)
LEMMA LargestOf ==
  ASSUME NEW n \in Nat \ {0}, NEW f, \A i \in 1 .. n : f[i] \in Nat
  PROVE  LET S == {f[i] : i \in 1 .. n} IN
         Max(S) \in Nat /\ \A i \in 1 .. n : f[i] <= Max(S)
<1> DEFINE S == {f[i] : i \in 1 .. n}
           T == {k \in 0 .. n - 1 : \E i \in 1 .. k + 1 : \A j \in 1 .. k + 1 : f[j] <= f[i]}
<1>1. 0 \in T
  <2>1. 1 \in 1 .. n /\ \A j \in 1 .. 0 + 1 : j = 1
    OBVIOUS
  <2>2. f[1] <= f[1]
    BY <2>1
  <2> QED  BY <2>1, <2>2
<1>2. ASSUME NEW k \in 0 .. n - 1 - 1, k \in T PROVE k + 1 \in T
  <2>1. PICK i \in 1 .. k + 1 : \A j \in 1 .. k + 1 : f[j] <= f[i]
    BY <1>2
  <2>2. /\ i \in 1 .. n /\ k + 2 \in 1 .. n /\ k + 1 \in 0 .. n - 1 /\ i \in 1 .. k + 1 + 1
        /\ k + 2 \in 1 .. k + 1 + 1
        /\ \A j \in 1 .. k + 1 + 1 : j \in 1 .. n /\ (j = k + 2 \/ j \in 1 .. k + 1)
    OBVIOUS
  <2>3. f[i] \in Nat /\ f[k + 2] \in Nat
    BY <2>2
  <2>4. CASE f[k + 2] <= f[i]
    BY <2>1, <2>2, <2>4
  <2>5. CASE ~(f[k + 2] <= f[i])
    <3>1. \A j \in 1 .. k + 1 + 1 : f[j] <= f[k + 2]
      <4> SUFFICES ASSUME NEW j \in 1 .. k + 1 + 1 PROVE f[j] <= f[k + 2]
        OBVIOUS
      <4>1. f[j] \in Nat /\ (j = k + 2 \/ f[j] <= f[i])
        BY <2>1, <2>2
      <4> QED  BY <2>3, <2>5, <4>1
    <3> QED  BY <2>2, <3>1
  <2> QED  BY <2>4, <2>5
<1>3. n - 1 \in T
  <2> HIDE DEF T
  <2>1. n - 1 \in Nat /\ n - 1 \in 0 .. n - 1
    OBVIOUS
  <2>2. 0 .. n - 1 \subseteq T
    BY <1>1, <1>2, <2>1, IntervalInduction
  <2> QED  BY <2>1, <2>2
<1>4. PICK i \in 1 .. n : \A j \in 1 .. n : f[j] <= f[i]
  <2>1. n - 1 + 1 = n
    OBVIOUS
  <2> QED  BY <1>3, <2>1
<1>5. \E m \in S : \A k \in S : m >= k
  <2>1. \A j \in 1 .. n : f[i] >= f[j]
    BY <1>4
  <2> QED  BY <2>1
<1>6. Max(S) \in S /\ \A k \in S : Max(S) >= k
  <2> HIDE DEF S
  <2> QED  BY <1>5 DEF Max
<1>7. \A k \in S : k \in Nat
  OBVIOUS
<1>8. \A j \in 1 .. n : f[j] \in S
  OBVIOUS
<1> HIDE DEF S
<1> QED  BY <1>6, <1>7, <1>8 DEF S

\* n rows of m elements put end to end.
LEMMA FlattenedRows ==
  ASSUME NEW n \in Nat \ {0}, NEW m \in Nat, NEW S, NEW s, Len(s) = n,
         \A i \in 1 .. n : s[i] \in Seq(S) /\ Len(s[i]) = m
  PROVE  FlattenSeq(s) \in Seq(S) /\ Len(FlattenSeq(s)) = n * m
<1> DEFINE Flatten(f, k) == [i \in 1 .. k |-> IF i = 1 THEN s[i] ELSE f[i - 1] \o s[i]]
           c == CHOOSE f : f = Flatten(f, n)
           Good(f, k) == /\ f = Flatten(f, k)
                         /\ \A i \in 1 .. k : f[i] \in Seq(S) /\ Len(f[i]) = i * m
           T == {k \in 0 .. n : \E f : Good(f, k)}
<1>1. 0 \in T
  <2>1. Good([i \in 1 .. 0 |-> <<>>], 0)
    OBVIOUS
  <2> HIDE DEF Good
  <2> QED  BY <2>1
<1>2. ASSUME NEW k \in 0 .. n - 1, k \in T PROVE k + 1 \in T
  <2>1. PICK f : Good(f, k)
    BY <1>2
  <2> DEFINE last == IF k = 0 THEN s[1] ELSE f[k] \o s[k + 1]
             g == [i \in 1 .. k + 1 |-> IF i = k + 1 THEN last ELSE f[i]]
  <2>2. ASSUME NEW i \in 1 .. k + 1
        PROVE  g[i] = IF i = 1 THEN s[i] ELSE g[i - 1] \o s[i]
    <3>1. CASE i = k + 1 /\ i # 1
      <4>1. i - 1 = k /\ k \in 1 .. k + 1 /\ k # k + 1 /\ k # 0
        BY <3>1
      <4>2. g[i] = f[k] \o s[k + 1] /\ g[k] = f[k]
        BY <3>1, <4>1
      <4> HIDE DEF g
      <4> QED  BY <3>1, <4>1, <4>2
    <3>2. CASE i # k + 1
      <4>1. i \in 1 .. k /\ (i # 1 => i - 1 \in 1 .. k /\ i - 1 \in 1 .. k + 1 /\ i - 1 # k + 1)
        BY <3>2
      <4>2. f[i] = IF i = 1 THEN s[i] ELSE f[i - 1] \o s[i]
        BY <2>1, <4>1
      <4>3. g[i] = f[i] /\ (i # 1 => g[i - 1] = f[i - 1])
        BY <3>2, <4>1
      <4> HIDE DEF g
      <4> QED  BY <4>2, <4>3
    <3>3. CASE i = k + 1 /\ i = 1
      BY <3>3
    <3> QED  BY <3>1, <3>2, <3>3
  <2>3. last \in Seq(S) /\ Len(last) = (k + 1) * m
    <3>1. k + 1 \in 1 .. n
      OBVIOUS
    <3>2. s[k + 1] \in Seq(S) /\ Len(s[k + 1]) = m
      BY <3>1
    <3>3. CASE k = 0
      <4>1. (k + 1) * m = m
        BY <3>3
      <4> QED  BY <3>2, <3>3, <4>1
    <3>4. CASE k # 0
      <4>1. k \in 1 .. k
        BY <3>4
      <4>2. f[k] \in Seq(S) /\ Len(f[k]) = k * m
        BY <2>1, <4>1
      <4>3. k * m + m = (k + 1) * m
        OBVIOUS
      <4>4. \A u, v \in Seq(S) : u \o v \in Seq(S) /\ Len(u \o v) = Len(u) + Len(v)
        OBVIOUS
      <4>5. /\ f[k] \o s[k + 1] \in Seq(S)
            /\ Len(f[k] \o s[k + 1]) = Len(f[k]) + Len(s[k + 1])
        BY Zenon, <3>2, <4>2, <4>4
      <4> QED  BY Zenon, <3>2, <3>4, <4>2, <4>3, <4>5
    <3> QED  BY <3>3, <3>4
  <2>4. \A i \in 1 .. k + 1 : g[i] \in Seq(S) /\ Len(g[i]) = i * m
    <3> SUFFICES ASSUME NEW i \in 1 .. k + 1 PROVE g[i] \in Seq(S) /\ Len(g[i]) = i * m
      OBVIOUS
    <3>1. i = k + 1 \/ i \in 1 .. k
      OBVIOUS
    <3>2. CASE i = k + 1
      BY Zenon, <2>3, <3>2
    <3>3. CASE i # k + 1
      <4>1. g[i] = f[i] /\ i \in 1 .. k
        BY <3>1, <3>3
      <4> HIDE DEF g
      <4> QED  BY Zenon, <2>1, <4>1
    <3> QED  BY <3>2, <3>3
  <2>5. g = Flatten(g, k + 1)
    BY <2>2
  <2>6. k + 1 \in 0 .. n
    OBVIOUS
  <2> HIDE DEF g
  <2>7. Good(g, k + 1)
    BY <2>4, <2>5
  <2> HIDE DEF Good
  <2> QED  BY <2>6, <2>7
<1>3. n \in T
  <2> HIDE DEF T
  <2>1. 0 .. n \subseteq T
    BY <1>1, <1>2, IntervalInduction
  <2> QED  BY <2>1
<1>4. FlattenSeq(s) = c[n]
  BY Zenon DEF FlattenSeq
<1>5. c = Flatten(c, n)
  <2> HIDE DEF Flatten
  <2> QED  BY <1>3
<1>6. PICK f : Good(f, n)
  BY <1>3

\* Any two such functions agree.
<1> DEFINE U == {k \in 0 .. n - 1 : c[k + 1] = f[k + 1]}
<1>7. \A i \in 1 .. n : c[i] = IF i = 1 THEN s[i] ELSE c[i - 1] \o s[i]
  BY <1>5
<1>8. \A i \in 1 .. n : f[i] = IF i = 1 THEN s[i] ELSE f[i - 1] \o s[i]
  BY <1>6
<1> HIDE DEF c
<1>9. 0 \in U
  <2>1. 1 \in 1 .. n /\ 0 + 1 = 1 /\ 0 \in 0 .. n - 1
    OBVIOUS
  <2> QED  BY <1>7, <1>8, <2>1
<1>10. ASSUME NEW k \in 0 .. n - 1 - 1, k \in U PROVE k + 1 \in U
  <2>1. PICK j \in 1 .. n : j = k + 1 + 1 /\ j # 1 /\ j - 1 = k + 1
    OBVIOUS
  <2>2. c[j] = c[j - 1] \o s[j] /\ f[j] = f[j - 1] \o s[j]
    BY Zenon, <1>7, <1>8, <2>1
  <2>3. k + 1 \in 0 .. n - 1 /\ c[k + 1] = f[k + 1]
    BY <1>10
  <2> QED  BY <2>1, <2>2, <2>3
<1>11. n - 1 \in U
  <2> HIDE DEF U
  <2>1. n - 1 \in Nat /\ n - 1 \in 0 .. n - 1
    OBVIOUS
  <2>2. 0 .. n - 1 \subseteq U
    BY <1>9, <1>10, <2>1, IntervalInduction
  <2> QED  BY <2>1, <2>2
<1>12. c[n] = f[n]
  <2>1. n - 1 + 1 = n
    OBVIOUS
  <2> QED  BY <1>11, <2>1
<1>13. n \in 1 .. n
  OBVIOUS
<1>14. f[n] \in Seq(S) /\ Len(f[n]) = n * m
  BY <1>6, <1>13
<1>15. FlattenSeq(s) = f[n]
  BY Zenon, <1>4, <1>12
<1> HIDE DEF Good
<1> QED  BY Zenon, <1>14, <1>15

\* The elements of a literal: n values.
Elementwise(elements, n) ==
  /\ elements = [i \in 1 .. n |-> elements[i]] /\ Len(elements) = n
  /\ \A i \in 1 .. n : Value(elements[i])

\* What a row of a matrix literal has of its own.
Own(v) == IF v.kind = "interval" THEN [j \in 1 .. v.dims[1] |-> "integer"] ELSE ElementsOf(v)

\* The row of a matrix literal, filled up with null.
Padded(row, own) == \E rest \in Seq({"null"}) : row = own \o rest

LEMMA OwnElements ==
  ASSUME NEW v, Value(v), v.kind # "tuple"
  PROVE  /\ Own(v) \in Seq(Elements)
         /\ Len(Own(v)) = IF v.kind = "interval" THEN v.dims[1] ELSE TotalLength(v)
<1>1. \A n \in Nat, e \in Elements : [i \in 1 .. n |-> e] \in Seq(Elements)
                                      /\ Len([i \in 1 .. n |-> e]) = n
  OBVIOUS
<1>2. CASE v.kind = "interval"
  <2>1. v.dims[1] \in Nat /\ "integer" \in Elements
    BY <1>2, ValueFields DEF IsInterval, Elements, BasicElements
  <2> QED  BY <1>1, <1>2, <2>1 DEF Own
<1>3. CASE FlatArray(v)
  <2>1. v.kind = "array" /\ v.kind # "empty" /\ ~IsMixed(v) /\ v.elem \in Elements
        /\ v.dims \in Seq(Nat) /\ Len(v.dims) \in 0 .. 2
    BY <1>3, FlatArrayFields
  <2>2. TotalLength(v) \in Nat
    BY <2>1, TotalLengthIsNatural
  <2>3. Own(v) = [i \in 1 .. TotalLength(v) |-> v.elem]
    BY <2>1 DEF Own, ElementsOf
  <2> QED  BY <1>1, <2>1, <2>2, <2>3
<1>4. CASE LiteralArray(v)
  <2>1. Own(v) = v.items /\ v.kind # "interval"
    BY <1>4 DEF Own, ElementsOf, IsMixed, LiteralArray
  <2> QED  BY <1>4, <2>1 DEF LiteralArray
<1>5. CASE v = EmptyArray
  <2>1. v.kind = "empty" /\ TotalLength(v) = 0
    BY <1>5, EmptyFields DEF TotalLength
  <2>2. Own(v) = [i \in 1 .. 0 |-> v.elem]
    BY <2>1 DEF Own, ElementsOf, IsMixed
  <2>3. Own(v) \in Seq(Elements) /\ Len(Own(v)) = 0
    BY <2>2
  <2> QED  BY <2>1, <2>3
<1>6. v.kind = "array" => FlatArray(v) \/ LiteralArray(v)
  BY ValueFields
<1>7. v.kind \in {"array", "empty", "interval"} /\ (v.kind = "empty" => v = EmptyArray)
  BY ValueFields
<1> QED  BY <1>2, <1>3, <1>4, <1>5, <1>6, <1>7

\* A scalar has an element, and a literal is none.
LEMMA ScalarFields ==
  ASSUME NEW v, Value(v), IsScalar(v)
  PROVE  FlatArray(v) /\ v.elem \in Elements
<1>1. v.kind = "array" /\ Len(v.dims) = 0
  BY DEF IsScalar
<1>2. ~LiteralArray(v)
  BY <1>1 DEF LiteralArray
<1>3. FlatArray(v)
  BY <1>1, <1>2, ValueFields
<1> QED  BY <1>3, FlatArrayFields

LEMMA MixedFields ==
  ASSUME NEW d, NEW s
  PROVE  /\ Mixed(d, s).kind = "array" /\ Mixed(d, s).elem = "mixed" /\ Mixed(d, s).dims = d
         /\ Mixed(d, s).items = s /\ Mixed(d, s).str = FALSE /\ Mixed(d, s).fields = <<>>
         /\ IsRecord(Mixed(d, s))
BY DEF Mixed, Record, IsRecord

LEMMA MatrixLiteralGivesValue ==
  ASSUME NEW n \in Nat \ {0}, NEW elements, Elementwise(elements, n), Ok(MatrixLiteral(elements))
  PROVE  LET w == MatrixLiteral(elements).value IN
         /\ LiteralArray(w) /\ Len(w.dims) = 2
         /\ \A i \in 1 .. n : elements[i].kind # "tuple"
         /\ \E rows : /\ w.items = FlattenSeq(rows) /\ Len(rows) = n
                      /\ \A i \in 1 .. n :
                           /\ rows[i] \in Seq(Elements)
                           /\ IsScalar(elements[i]) \/ Padded(rows[i], Own(elements[i]))
<1> DEFINE length(v) == IF v.kind = "interval" THEN v.dims[1]
                        ELSE IF IsScalar(v) THEN 0 ELSE TotalLength(v)
           longest == Max({length(elements[i]) : i \in DOMAIN elements})
           row(v) == IF IsScalar(v) THEN [j \in 1 .. longest |-> v.elem]
                     ELSE Own(v) \o [j \in 1 .. (longest - Len(Own(v))) |-> "null"]
           rows == [i \in DOMAIN elements |-> row(elements[i])]
           s == FlattenSeq(rows)
           made == Mixed(<<n, longest>>, s)
<1>1. MatrixLiteral(elements) = Fine(made) /\ \A i \in DOMAIN elements : elements[i].kind # "tuple"
  BY Zenon DEF MatrixLiteral, Own, Elementwise, Ok, Fail
<1>2. DOMAIN elements = 1 .. n /\ Len(elements) = n /\ \A i \in 1 .. n : Value(elements[i])
  BY DEF Elementwise
<1>3. \A i \in 1 .. n : length(elements[i]) \in Nat
  <2> SUFFICES ASSUME NEW i \in 1 .. n PROVE length(elements[i]) \in Nat
    OBVIOUS
  <2> DEFINE v == elements[i]
  <2>1. Value(v) /\ v.kind # "tuple"
    BY <1>1, <1>2
  <2> HIDE DEF v
  <2>2. Own(v) \in Seq(Elements)
        /\ Len(Own(v)) = IF v.kind = "interval" THEN v.dims[1] ELSE TotalLength(v)
    BY <2>1, OwnElements
  <2>3. length(v) \in Nat
    BY <2>2
  <2> QED  BY <2>3 DEF v
<1>4. longest \in Nat /\ \A i \in 1 .. n : length(elements[i]) <= longest
  <2> DEFINE f == [i \in 1 .. n |-> length(elements[i])]
             S == {f[i] : i \in 1 .. n}
  <2>1. \A i \in 1 .. n : f[i] = length(elements[i])
    OBVIOUS
  <2>2. {length(elements[i]) : i \in DOMAIN elements} = S
    <3> HIDE DEF length
    <3> QED  BY <1>2
  <2>3. \A i \in 1 .. n : f[i] \in Nat
    <3> HIDE DEF length, f
    <3> QED  BY <1>3, <2>1
  <2> HIDE DEF f
  <2>4. Max(S) \in Nat /\ \A i \in 1 .. n : f[i] <= Max(S)
    BY <2>3, LargestOf
  <2> HIDE DEF length, S
  <2> QED  BY <2>1, <2>2, <2>4
<1> HIDE DEF longest
<1>5. \A i \in 1 .. n : /\ row(elements[i]) \in Seq(Elements) /\ Len(row(elements[i])) = longest
                        /\ IsScalar(elements[i]) \/ Padded(row(elements[i]), Own(elements[i]))
  <2> SUFFICES ASSUME NEW i \in 1 .. n
               PROVE  /\ row(elements[i]) \in Seq(Elements) /\ Len(row(elements[i])) = longest
                      /\ IsScalar(elements[i]) \/ Padded(row(elements[i]), Own(elements[i]))
    OBVIOUS
  <2> DEFINE v == elements[i]
  <2>1. Value(v) /\ v.kind # "tuple" /\ length(v) <= longest
    BY <1>1, <1>2, <1>4
  <2> HIDE DEF v
  <2>2. CASE IsScalar(v)
    <3>1. v.elem \in Elements
      BY <2>1, <2>2, ScalarFields
    <3>2. row(v) = [j \in 1 .. longest |-> v.elem]
      BY <2>2
    <3>3. row(v) \in Seq(Elements) /\ Len(row(v)) = longest
      <4> HIDE DEF row
      <4> QED  BY <1>4, <3>1, <3>2
    <3> HIDE DEF row
    <3> QED  BY <2>2, <3>3 DEF v
  <2>3. CASE ~IsScalar(v)
    <3> DEFINE own == Own(v)
               rest == [j \in 1 .. (longest - Len(own)) |-> "null"]
    <3>1. own \in Seq(Elements) /\ Len(own) = length(v)
      BY <2>1, <2>3, OwnElements
    <3>2. row(v) = own \o rest
      BY <2>3
    <3> HIDE DEF own, row, length
    <3>3. Len(own) \in Nat /\ longest - Len(own) \in Nat
      BY <1>4, <2>1, <3>1
    <3>4. "null" \in Elements
      BY DEF Elements, NullOrIdentity
    <3>5. rest \in Seq(Elements) /\ Len(rest) = longest - Len(own) /\ rest \in Seq({"null"})
      BY <3>3, <3>4
    <3> HIDE DEF rest
    <3>6. \A a, b \in Seq(Elements) : a \o b \in Seq(Elements) /\ Len(a \o b) = Len(a) + Len(b)
      OBVIOUS
    <3>7. own \o rest \in Seq(Elements) /\ Len(own \o rest) = Len(own) + Len(rest)
      BY Zenon, <3>1, <3>5, <3>6
    <3>8. Len(own) + (longest - Len(own)) = longest
      BY <1>4, <3>3
    <3>9. row(v) \in Seq(Elements) /\ Len(row(v)) = longest
      BY Zenon, <3>2, <3>5, <3>7, <3>8
    <3>10. Padded(row(v), Own(v))
      BY Zenon, <3>2, <3>5 DEF Padded, own
    <3> QED  BY <3>9, <3>10 DEF v
  <2> QED  BY <2>2, <2>3
<1>6. Len(rows) = n /\ \A i \in 1 .. n :
         /\ rows[i] \in Seq(Elements) /\ Len(rows[i]) = longest
         /\ IsScalar(elements[i]) \/ Padded(rows[i], Own(elements[i]))
  <2> HIDE DEF row
  <2> QED  BY <1>2, <1>5
<1> HIDE DEF rows
<1>7. s \in Seq(Elements) /\ Len(s) = n * longest
  <2>1. \A i \in 1 .. n : rows[i] \in Seq(Elements) /\ Len(rows[i]) = longest
    BY <1>6
  <2>2. Len(rows) = n
    BY <1>6
  <2>3. n \in Nat \ {0} /\ longest \in Nat
    BY <1>4
  <2> QED  BY <2>1, <2>2, <2>3, FlattenedRows
<1>14. \E parts : /\ s = FlattenSeq(parts) /\ Len(parts) = n
                  /\ \A i \in 1 .. n :
                       /\ parts[i] \in Seq(Elements)
                       /\ IsScalar(elements[i]) \/ Padded(parts[i], Own(elements[i]))
  BY Zenon, <1>6
<1> HIDE DEF s
<1> HIDE DEF made
<1>9. /\ made.kind = "array" /\ made.elem = "mixed" /\ made.dims = <<n, longest>>
      /\ made.items = s /\ made.str = FALSE /\ made.fields = <<>> /\ IsRecord(made)
  BY MixedFields DEF made
<1>10. <<n, longest>> \in Seq(Nat) /\ Len(<<n, longest>>) = 2
       /\ <<n, longest>>[1] = n /\ <<n, longest>>[2] = longest
  BY <1>4
<1>11. TotalLength(made) = n * longest
  <2>1. made.kind # "empty" /\ made.dims \in Seq(Nat) /\ Len(made.dims) = 2
        /\ made.dims[1] = n /\ made.dims[2] = longest
    BY <1>9, <1>10
  <2>2. TotalLength(made) = made.dims[1] * made.dims[2]
    BY <2>1, TotalLengths
  <2> QED  BY Zenon, <2>1, <2>2
<1>12. LiteralArray(made)
  <2>1. Len(made.items) = TotalLength(made)
    BY Zenon, <1>7, <1>9, <1>11
  <2> QED  BY <1>7, <1>9, <1>10, <2>1 DEF LiteralArray
<1>13. MatrixLiteral(elements).value = made
  BY <1>1 DEF Fine
<1>15. \A i \in 1 .. n : elements[i].kind # "tuple"
  BY <1>1, <1>2
<1> QED  BY Zenon, <1>9, <1>10, <1>12, <1>13, <1>14, <1>15

LEMMA VectorLiteralGivesValue ==
  ASSUME NEW n \in Nat, NEW elements, Elementwise(elements, n), Ok(VectorLiteral(elements))
  PROVE  /\ \/ n = 0 /\ VectorLiteral(elements).value = EmptyArray
            \/ n # 0 /\ LiteralArray(VectorLiteral(elements).value)
         /\ Value(VectorLiteral(elements).value)
         /\ n # 0 => \/ /\ \A i \in 1 .. n : IsScalar(elements[i])
                       /\ VectorLiteral(elements).value =
                            Mixed(<<n>>, [i \in 1 .. n |-> elements[i].elem])
                    \/ /\ \E i \in 1 .. n : ~IsScalar(elements[i])
                       /\ VectorLiteral(elements) = MatrixLiteral(elements)
                       /\ \/ IsScalar(elements[1]) \/ IsVector(elements[1])
                          \/ elements[1].kind \in {"empty", "interval"}
<1> DEFINE isRow(v) == v.kind \in {"empty", "interval"} \/ IsVector(v)
           rows == {i \in DOMAIN elements : isRow(elements[i])}
           before == IF rows = {} THEN DOMAIN elements ELSE 1 .. (Min(rows) - 1)
           r == VectorLiteral(elements)
           s == [i \in 1 .. n |-> elements[i].elem]
           made == Mixed(<<n>>, s)
<1>1. DOMAIN elements = 1 .. n /\ Len(elements) = n /\ \A i \in 1 .. n : Value(elements[i])
  BY DEF Elementwise
<1>2. CASE n = 0
  <2>1. elements = <<>>
    BY <1>1, <1>2
  <2>2. r = Fine(EmptyArray)
    BY <2>1 DEF VectorLiteral
  <2> QED  BY <1>2, <2>2 DEF Fine, Value
<1>3. CASE n # 0 /\ rows # {}
  <2>1. elements # <<>>
    BY <1>1, <1>3
  <2>2. r = MatrixLiteral(elements) /\ \A i \in before : IsScalar(elements[i])
    <3> HIDE DEF before
    <3>1. r = IF elements = <<>> THEN Fine(EmptyArray)
              ELSE IF \E i \in before : ~IsScalar(elements[i])
              THEN Fail("literal-of-matrices-or-tuples")
              ELSE IF rows # {} THEN MatrixLiteral(elements)
              ELSE Fine(Mixed(<<Len(elements)>>, [i \in DOMAIN elements |-> elements[i].elem]))
      BY Zenon DEF VectorLiteral, before
    <3> QED  BY <1>3, <2>1, <3>1 DEF Fail, Ok
  <2>4. isRow(elements[1]) \/ IsScalar(elements[1])
    <3> SUFFICES ASSUME ~isRow(elements[1]) PROVE IsScalar(elements[1])
      OBVIOUS
    <3>1. rows \in SUBSET Nat /\ 1 \notin rows /\ 0 \notin rows
      <4> HIDE DEF isRow
      <4> QED  BY <1>1
    <3> HIDE DEF rows
    <3>2. Min(rows) \in Nat /\ Min(rows) # 1 /\ Min(rows) # 0
      BY <1>3, <3>1, SmallestOf
    <3>3. 1 \in before
      BY <1>3, <3>2
    <3> QED  BY <2>2, <3>3
  <2>5. \E i \in 1 .. n : ~IsScalar(elements[i])
    <3>1. PICK i \in 1 .. n : isRow(elements[i])
      BY <1>1, <1>3
    <3>2. ~IsScalar(elements[i])
      <4>1. Len(<<>>) = 0
        OBVIOUS
      <4>2. elements[i].kind = "array" /\ elements[i].dims = <<>> => ~isRow(elements[i])
        BY <4>1 DEF IsVector
      <4> HIDE DEF isRow
      <4> QED  BY <3>1, <4>2 DEF IsScalar
    <3> QED  BY <3>2
  <2> HIDE DEF rows, before
  <2>3. LiteralArray(MatrixLiteral(elements).value)
    BY <1>3, <2>2, MatrixLiteralGivesValue
  <2> QED  BY <1>3, <2>2, <2>3, <2>4, <2>5 DEF Value
<1>4. CASE n # 0 /\ rows = {}
  <2>1. elements # <<>>
    BY <1>1, <1>4
  <2>2. r = Fine(made) /\ \A i \in 1 .. n : IsScalar(elements[i])
    BY <1>1, <1>4, <2>1 DEF VectorLiteral, Fail, Ok
  <2>3. \A i \in 1 .. n : elements[i].elem \in Elements
    BY <1>1, <2>2, ScalarFields
  <2>4. s \in Seq(Elements) /\ Len(s) = n
    BY <2>3
  <2> HIDE DEF s, made
  <2>5. /\ made.kind = "array" /\ made.elem = "mixed" /\ made.dims = <<n>>
        /\ made.items = s /\ made.str = FALSE /\ made.fields = <<>> /\ IsRecord(made)
    BY MixedFields DEF made
  <2>6. made.dims \in Seq(Nat) /\ Len(made.dims) = 1 /\ made.dims[1] = n
    BY <2>5
  <2>7. TotalLength(made) = n
    <3>1. made.kind # "empty"
      BY <2>5
    <3>2. TotalLength(made) = made.dims[1]
      BY <2>6, <3>1, TotalLengths
    <3> QED  BY <2>6, <3>2
  <2>8. LiteralArray(made)
    BY <2>4, <2>5, <2>6, <2>7 DEF LiteralArray
  <2>9. r.value = made
    BY <2>2 DEF Fine
  <2> QED  BY <1>4, <2>2, <2>8, <2>9 DEF Value, made, s
<1> QED  BY <1>2, <1>3, <1>4

LEMMA GeneratedGivesValue ==
  ASSUME NEW n \in Nat, NEW v, Value(v), Ok(Generated(n, v))
  PROVE  Value(Generated(n, v).value)
<1> DEFINE elements == [i \in 1 .. n |-> v]
           literal == VectorLiteral(elements)
           r == Generated(n, v)
<1>1. CASE n = 0
  BY <1>1 DEF Generated, Fine, Value
<1>2. CASE n # 0
  <2>1. Ok(literal) /\ r = MixedToSameType(literal.value)
    BY <1>2 DEF Generated, Fail, Ok
  <2>2. Elementwise(elements, n)
    BY DEF Elementwise
  <2> HIDE DEF elements
  <2>3. LiteralArray(literal.value)
    BY <1>2, <2>1, <2>2, VectorLiteralGivesValue
  <2> HIDE DEF literal
  <2>4. Ok(MixedToSameType(literal.value))
    BY <2>1
  <2> HIDE DEF r
  <2>5. FlatArray(r.value)
    BY <2>1, <2>3, <2>4, LiteralToArray
  <2> QED  BY <2>5 DEF r, Value, Settled, FlatValue
<1> QED  BY <1>1, <1>2

\* An index is an integer or a vector of them.
LEMMA IndexGivesVector ==
  ASSUME NEW index, Value(index), Ok(IndexValue(index))
  PROVE  /\ IndexValue(index).value.dims \in Seq(Nat)
         /\ Len(IndexValue(index).value.dims) \in 0 .. 1
         /\ Len(IndexValue(index).value.dims) =
              IF index.kind \in {"empty", "interval"} \/ IsVector(index) THEN 1 ELSE 0
<1> DEFINE d == IF index.kind \in {"empty", "interval"} \/ IsVector(index)
                THEN <<UnknownSize>> ELSE << >>
           t == Array("integer", d)
           r == Convert(Cast, t, index)
<1>1. d \in Seq(Nat \cup {UnknownSize}) /\ Len(d) \in 0 .. 1
  <2>1. /\ <<UnknownSize>> \in Seq(Nat \cup {UnknownSize}) /\ Len(<<UnknownSize>>) \in 0 .. 1
        /\ << >> \in Seq(Nat \cup {UnknownSize}) /\ Len(<< >>) \in 0 .. 1
    OBVIOUS
  <2>2. d = <<UnknownSize>> \/ d = << >>
    OBVIOUS
  <2> QED  BY Zenon, <2>1, <2>2
<1>7. Len(d) = IF index.kind \in {"empty", "interval"} \/ IsVector(index) THEN 1 ELSE 0
  OBVIOUS
<1> HIDE DEF d
<1>2. ArrayOver(t, Nat \cup {UnknownSize}) /\ t.dims = d /\ t.kind = "array"
  BY <1>1 DEF ArrayOver, IsRecord, Array, Record, Elements, BasicElements
<1>3. IndexValue(index) = r
  BY DEF IndexValue, d
<1> HIDE DEF t
<1>4. r = ConvertFlat(Cast, t, index)
  BY <1>2 DEF Convert
<1>5. Ok(ConvertFlat(Cast, t, index))
  BY <1>3, <1>4
<1>6. Fits(r.value, t, index)
  BY <1>2, <1>4, <1>5, ToArray
<1> HIDE DEF r
<1> QED  BY <1>1, <1>2, <1>3, <1>6, <1>7 DEF Fits, FlatArray, ArrayOver

LEMMA IndexedGivesValue ==
  ASSUME NEW base, Value(base), NEW n \in 1 .. 2, NEW indices, Elementwise(indices, n),
         Ok(Indexed(base, indices))
  PROVE  LET w == Indexed(base, indices).value
             array == IF IsMixed(base) THEN MixedToSameType(base)
                      ELSE IF base.kind = "interval" THEN Fine(Array("integer", base.dims))
                      ELSE Fine(base)
             length(i) == Len(IndexValue(indices[i]).value.dims)
         IN
         /\ Value(w)
         /\ base.kind # "empty" =>
              /\ base.kind # "tuple" /\ Len(base.dims) = n
              /\ Ok(array) /\ \A i \in 1 .. n : Ok(IndexValue(indices[i]))
              /\ FlatArray(w) /\ w.elem = array.value.elem
              /\ Len(w.dims) = IF n = 1 THEN length(1) ELSE length(1) + length(2)
<1> DEFINE array == IF IsMixed(base) THEN MixedToSameType(base)
                    ELSE IF base.kind = "interval" THEN Fine(Array("integer", base.dims))
                    ELSE Fine(base)
           values == [i \in DOMAIN indices |-> IndexValue(indices[i])]
           bad == {i \in DOMAIN indices : ~Ok(values[i])}
           parts == [i \in DOMAIN indices |-> values[i].value.dims]
           dims == FlattenSeq(parts)
           made == [Array(array.value.elem, dims) EXCEPT
                      !.str = array.value.str /\ Len(indices) = 1 /\ Len(dims) = 1]
           r == Indexed(base, indices)
<1>0. DOMAIN indices = 1 .. n /\ Len(indices) = n /\ \A i \in 1 .. n : Value(indices[i])
  BY DEF Elementwise
<1>1. CASE base.kind = "empty"
  <2>1. r = Fine(EmptyArray)
    BY <1>1 DEF Indexed, Fail, Ok
  <2>2. r.value = EmptyArray
    BY <2>1 DEF Fine
  <2> QED  BY <1>1, <2>2 DEF Value
<1>2. CASE base.kind # "empty"
  <2>1. /\ base.kind # "tuple" /\ Ok(array) /\ NDim(base) = n
        /\ \/ bad = {} /\ r = Fine(made)
           \/ bad # {} /\ r = values[Min(bad)]
    <3> HIDE DEF made, bad, array, values
    <3>1. r = IF base.kind = "tuple" \/ NDim(base) # Len(indices)
              THEN Fail("index-of-another-dimension")
              ELSE IF \E i \in DOMAIN indices : indices[i].kind = "tuple" \/ IsMatrix(indices[i])
              THEN Fail("index-by-a-matrix-or-a-tuple")
              ELSE IF ~Ok(array) THEN array
              ELSE IF bad # {} THEN values[Min(bad)]
              ELSE Fine(made)
      BY Zenon, <1>2 DEF Indexed, made, bad, array, values
    <3> QED  BY <1>0, <3>1 DEF Fail, Ok
  <2>2. bad = {}
    <3>1. bad \in SUBSET Nat
      <4> HIDE DEF values
      <4> QED  BY <1>0
    <3>2. bad # {} => ~Ok(values[Min(bad)])
      <4>1. \A i \in bad : ~Ok(values[i])
        OBVIOUS
      <4> HIDE DEF bad, values
      <4> QED  BY <3>1, <4>1, SmallestOf
    <3> HIDE DEF bad, values
    <3> QED  BY <2>1, <3>2
  <2>3. \A i \in 1 .. n : parts[i] \in Seq(Nat) /\ Len(parts[i]) \in 0 .. 1
    <3>1. ASSUME NEW i \in 1 .. n PROVE parts[i] \in Seq(Nat) /\ Len(parts[i]) \in 0 .. 1
      <4>1. values[i] = IndexValue(indices[i]) /\ parts[i] = values[i].value.dims
        BY <1>0
      <4>2. Ok(values[i])
        <5> HIDE DEF values
        <5> QED  BY <1>0, <2>2
      <4> HIDE DEF values, parts
      <4> QED  BY <1>0, <4>1, <4>2, IndexGivesVector
    <3> QED  BY <3>1
  <2>4. Len(parts) = n
    <3> HIDE DEF values
    <3> QED  BY <1>0
  <2>12. \A i \in 1 .. n : Ok(IndexValue(indices[i])) /\ parts[i] = IndexValue(indices[i]).value.dims
    <3>1. \A i \in 1 .. n : values[i] = IndexValue(indices[i]) /\ parts[i] = values[i].value.dims
      BY <1>0
    <3>2. \A i \in 1 .. n : Ok(values[i])
      <4> HIDE DEF values
      <4> QED  BY <1>0, <2>2
    <3> HIDE DEF values, parts
    <3> QED  BY <3>1, <3>2
  <2> HIDE DEF parts
  <2>5. /\ dims \in Seq(Nat) /\ Len(dims) \in 0 .. 2
        /\ Len(dims) = IF n = 1 THEN Len(parts[1]) ELSE Len(parts[1]) + Len(parts[2])
    <3>0. Len(parts) \in 1 .. 2
      BY <2>4
    <3>1. dims = IF n = 1 THEN parts[1] ELSE parts[1] \o parts[2]
      BY <2>4, <3>0, Flattened
    <3>2. CASE n = 1
      <4>1. parts[1] \in Seq(Nat) /\ Len(parts[1]) \in 0 .. 1
        BY <2>3, <3>2
      <4> HIDE DEF dims
      <4> QED  BY <3>1, <3>2, <4>1
    <3>3. CASE n = 2
      <4>1. parts[1] \in Seq(Nat) /\ Len(parts[1]) \in 0 .. 1
            /\ parts[2] \in Seq(Nat) /\ Len(parts[2]) \in 0 .. 1
        BY <2>3, <3>3
      <4>2. \A u, v \in Seq(Nat) : u \o v \in Seq(Nat) /\ Len(u \o v) = Len(u) + Len(v)
        OBVIOUS
      <4>3. parts[1] \o parts[2] \in Seq(Nat)
            /\ Len(parts[1] \o parts[2]) = Len(parts[1]) + Len(parts[2])
        BY Zenon, <4>1, <4>2
      <4>4. \A k, l \in 0 .. 1 : k + l \in 0 .. 2
        OBVIOUS
      <4>5. Len(parts[1] \o parts[2]) \in 0 .. 2
        BY Zenon, <4>1, <4>3, <4>4
      <4>6. n # 1
        BY <3>3
      <4> HIDE DEF dims
      <4>7. dims = parts[1] \o parts[2]
        BY <3>1, <4>6
      <4>8. dims \in Seq(Nat) /\ Len(dims) \in 0 .. 2 /\ Len(dims) = Len(parts[1]) + Len(parts[2])
        BY Zenon, <4>3, <4>5, <4>7
      <4> QED  BY <4>6, <4>8
    <3>4. n = 1 \/ n = 2
      OBVIOUS
    <3> HIDE DEF dims
    <3> QED  BY <3>2, <3>3, <3>4
  <2> HIDE DEF dims
  <2>6. FlatArray(array.value)
    <3>1. CASE IsMixed(base)
      <4>1. array = MixedToSameType(base)
        BY <3>1
      <4>2. LiteralArray(base)
        BY <3>1, FlatArrayFields, ValueFields DEF IsMixed
      <4>3. Ok(MixedToSameType(base))
        BY <2>1, <4>1
      <4> HIDE DEF array
      <4> QED  BY <4>1, <4>2, <4>3, LiteralToArray
    <3>2. CASE base.kind = "interval"
      <4>1. array.value = Array("integer", base.dims)
        BY <3>2 DEF Fine, IsMixed
      <4>2. base.dims \in Seq(Nat) /\ Len(base.dims) \in 0 .. 2 /\ "integer" \in Elements
        BY ValueFields DEF Elements, BasicElements
      <4> HIDE DEF array
      <4> QED  BY <4>1, <4>2, PlainArray
    <3>3. CASE ~IsMixed(base) /\ base.kind # "interval"
      <4>1. array.value = base
        BY <3>3 DEF Fine
      <4>2. base.kind = "array"
        BY <1>2, <2>1, <3>3, ValueFields
      <4>3. ~LiteralArray(base)
        BY <3>3 DEF LiteralArray, IsMixed
      <4> HIDE DEF array
      <4> QED  BY <4>1, <4>2, <4>3, ValueFields
    <3> QED  BY <3>1, <3>2, <3>3
  <2> DEFINE elem == array.value.elem
  <2>7. /\ array.value.elem \in Elements /\ array.value.str \in BOOLEAN
        /\ array.value.str => array.value.elem = "character"
    BY <2>6 DEF FlatArray, ArrayOver
  <2>8. PICK b \in BOOLEAN : b = (array.value.str /\ Len(indices) = 1 /\ Len(dims) = 1)
    OBVIOUS
  <2> HIDE DEF array
  <2>9. made = Record("array", elem, dims, <<>>, b, <<>>)
    <3>1. \A c : [Record("array", elem, dims, <<>>, c, <<>>) EXCEPT !.str = b] =
                 Record("array", elem, dims, <<>>, b, <<>>)
      BY DEF Record
    <3>2. made = [Array(elem, dims) EXCEPT !.str = b]
      BY Zenon, <2>8
    <3> QED  BY Zenon, <3>1, <3>2 DEF Array
  <2>10. FlatArray(Record("array", elem, dims, <<>>, b, <<>>))
    <3>1. (b => elem = "character") /\ (b => Len(dims) = 1)
      BY Zenon, <2>7, <2>8
    <3>2. elem \in Elements
      BY <2>7
    <3> HIDE DEF elem
    <3> QED  BY <2>5, <3>1, <3>2 DEF FlatArray, ArrayOver, IsRecord, Record
  <2>11. r = Fine(made)
    <3> HIDE DEF bad, made, r
    <3> QED  BY <2>1, <2>2
  <2>13. r.value = Record("array", elem, dims, <<>>, b, <<>>)
    BY <2>9, <2>11 DEF Fine
  <2>14. FlatArray(r.value) /\ r.value.elem = elem /\ r.value.dims = dims
    <3> HIDE DEF r, made, elem
    <3> QED  BY <2>10, <2>13 DEF Record
  <2>15. \A i \in 1 .. n : Ok(IndexValue(indices[i]))
         /\ Len(parts[i]) = Len(IndexValue(indices[i]).value.dims)
    BY <2>12
  <2>16. Len(dims) = IF n = 1 THEN Len(IndexValue(indices[1]).value.dims)
                     ELSE Len(IndexValue(indices[1]).value.dims)
                          + Len(IndexValue(indices[2]).value.dims)
    <3>1. n = 1 \/ n = 2
      OBVIOUS
    <3>2. 1 \in 1 .. n /\ (n = 2 => 2 \in 1 .. n)
      OBVIOUS
    <3>3. Len(parts[1]) = Len(IndexValue(indices[1]).value.dims)
      BY <2>15, <3>2
    <3>4. n = 2 => Len(parts[2]) = Len(IndexValue(indices[2]).value.dims)
      BY <2>15, <3>2
    <3> HIDE DEF dims
    <3> QED  BY <2>5, <3>1, <3>3, <3>4
  <2> HIDE DEF r, made, dims
  <2>17. Ok(array) /\ Len(base.dims) = n /\ base.kind # "tuple" /\ r.value.elem = array.value.elem
    BY <2>1, <2>14 DEF NDim
  <2>18. Value(r.value)
    BY <2>14 DEF Value, Settled, FlatValue
  <2> QED  BY <2>14, <2>15, <2>16, <2>17, <2>18 DEF array, r
<1> QED  BY <1>1, <1>2

LEMMA FieldGivesValue ==
  ASSUME NEW v, Value(v), NEW position, Ok(Field(v, position))
  PROVE  Value(Field(v, position).value)
<1>1. v.kind = "tuple" /\ position \in DOMAIN v.fields /\ Field(v, position).value = v.fields[position]
  BY DEF Field, Fine, Fail, Ok
<1>2. TupleOfFlat(v)
  BY <1>1, ValueFields
<1>3. FlatValue(v.fields[position])
  BY <1>1, <1>2 DEF TupleOfFlat
<1> QED  BY <1>1, <1>3 DEF Value, Settled

LEMMA PairGivesValue ==
  ASSUME NEW a, Value(a), IsScalar(a), NEW b, Value(b), IsScalar(b)
  PROVE  Value(TupleValue(<<a, b>>))
<1> DEFINE g == <<a, b>>
<1>1. FlatValue(a) /\ FlatValue(b)
  BY ScalarFields DEF FlatValue
<1>2. g = [i \in 1 .. 2 |-> g[i]] /\ \A i \in 1 .. 2 : g[i] = a \/ g[i] = b
  OBVIOUS
<1> HIDE DEF g
<1>3. TupleOfFlat(TupleValue(g))
  BY <1>1, <1>2, MakesTuple
<1> QED  BY <1>3 DEF g, Value, Settled

(***************************************************************************)
(* The inductive invariant.  A value in x is settled, one in node may be a *)
(* literal that is still to be converted; both are small.                  *)
(***************************************************************************)
Expressed(e) == Value(e.value) /\ IsType(e.type) /\ Small(e.value)
Stored(e) == Settled(e.value) /\ IsType(e.type) /\ Small(e.value)

TypingInv ==
  /\ missingReturn \in BOOLEAN
  /\ node = None \/ Expressed(node)
  /\ x = None \/ Stored(x)
  /\ fault # NoFault => node = None /\ x = None

\* What the step of the variable may not do.
XKept == x # None /\ x' # None => Shape(x'.value) = Shape(x.value)

LEMMA StoredIsExpressed ==
  ASSUME NEW e, Stored(e)
  PROVE  Expressed(e)
BY DEF Stored, Expressed, Value

LEMMA SmallIsWithin ==
  ASSUME NEW v
  PROVE  Small(v) <=> Within(v, MaxDim)
BY DEF Small, Within

LEMMA ExpressionFields ==
  ASSUME NEW type, NEW value, NEW vague, NEW literal
  PROVE  /\ Expression(type, value, vague, literal).type = type
         /\ Expression(type, value, vague, literal).value = value
BY DEF Expression

LEMMA ConstantsAreExpressed ==
  ASSUME NEW e \in Constants
  PROVE  Expressed(e)
<1>0. MaxDim \in Nat /\ 1 <= MaxDim
  BY MaxDimAssumption
<1>1. \A elem \in Elements : Value(Array(elem, <<>>)) /\ Small(Array(elem, <<>>))
  <2> SUFFICES ASSUME NEW elem \in Elements PROVE Value(Array(elem, <<>>)) /\ Small(Array(elem, <<>>))
    OBVIOUS
  <2>1. <<>> \in Seq(Nat) /\ Len(<<>>) \in 0 .. 2
    OBVIOUS
  <2>2. FlatArray(Array(elem, <<>>)) /\ Array(elem, <<>>).dims = <<>>
    BY <2>1, PlainArray
  <2> QED  BY <2>2 DEF Value, Settled, FlatValue, Small
<1>2. Value(StringOf(MaxDim)) /\ Small(StringOf(MaxDim))
  <2>1. StringOf(MaxDim) = Record("array", "character", <<MaxDim>>, <<>>, TRUE, <<>>)
    <3>1. \A b, c : [Record("array", "character", <<MaxDim>>, <<>>, b, <<>>) EXCEPT !.str = c] =
                 Record("array", "character", <<MaxDim>>, <<>>, c, <<>>)
      BY DEF Record
    <3> QED  BY Zenon, <3>1 DEF StringOf, Array
  <2>2. <<MaxDim>> \in Seq(Nat) /\ Len(<<MaxDim>>) = 1 /\ <<MaxDim>>[1] <= MaxDim
    BY <1>0
  <2>3. "character" \in Elements
    BY DEF Elements, BasicElements
  <2>4. \A b \in BOOLEAN : /\ FlatArray(Record("array", "character", <<MaxDim>>, <<>>, b, <<>>))
                           /\ Small(Record("array", "character", <<MaxDim>>, <<>>, b, <<>>))
    BY <2>2, <2>3 DEF FlatArray, ArrayOver, IsRecord, Record, Small
  <2> QED  BY Zenon, <2>1, <2>4 DEF Value, Settled, FlatValue
<1>3. Value(EmptyArray) /\ Small(EmptyArray)
  BY EmptyFields DEF Value, Small
<1>4. {"boolean", "character", "integer", "real", "null", "identity"} \subseteq Elements
  BY DEF Elements, BasicElements, NullOrIdentity
<1>5. \A t \in {Boolean, Character, Integer, Real, String, IdentityNull, Unknown} : IsType(t)
  BY DEF IsType, Id, Boolean, Character, Integer, Real, String, IdentityNull, Unknown
<1>6. PICK name \in {"boolean", "character", "integer", "real", "string", "null", "identity", "empty"} :
        e = Leaf[name]
  BY LeavesAssumption DEF Constants, Leaf
<1>7. /\ e.value \in {StringOf(MaxDim), EmptyArray}
                        \cup {Array(elem, <<>>) : elem \in {"boolean", "character", "integer", "real",
                                                          "null", "identity"}}
      /\ e.type \in {Boolean, Character, Integer, Real, String, IdentityNull, Unknown}
  BY <1>6 DEF Leaf, Expression
<1>8. Value(e.value) /\ Small(e.value)
  BY <1>1, <1>2, <1>3, <1>4, <1>7
<1> QED  BY <1>5, <1>7, <1>8 DEF Expressed

LEMMA OperandsAreExpressed ==
  ASSUME TypingInv, NEW e \in Operands
  PROVE  Expressed(e)
<1>1. CASE x = None
  BY <1>1, ConstantsAreExpressed DEF Operands
<1>2. CASE x # None
  BY <1>2, StoredIsExpressed DEF Operands, TypingInv
<1> QED  BY <1>1, <1>2

LEMMA PairsAreExpressed ==
  ASSUME TypingInv, node # None, NEW p \in Pairs
  PROVE  /\ p = <<p[1], p[2]>> /\ Len(p) = 2 /\ Expressed(p[1]) /\ Expressed(p[2])
<1>1. Expressed(node)
  BY DEF TypingInv
<1>2. PICK e \in Operands : p \in {<<node, e>>, <<e, node>>}
  BY DEF Pairs
<1>3. Expressed(e)
  BY OperandsAreExpressed
<1> QED  BY <1>1, <1>2, <1>3

LEMMA EvaluateKeeps ==
  ASSUME TypingInv, NEW form, NEW type, NEW result, NEW vague, NEW literal, NEW operands,
         Evaluate(form, type, result, vague, literal, operands),
         Ok(result) => Value(result.value)
  PROVE  TypingInv' /\ XKept
<1>1. CASE Ends(type, result, form, operands)
  <2>1. node' = None /\ x' = None /\ missingReturn' = missingReturn
    BY <1>1 DEF Ends, Stop, Evaluate
  <2> QED  BY <2>1 DEF TypingInv, XKept
<1>2. CASE /\ IsType(type) /\ Ok(result) /\ Small(result.value)
           /\ node' = Expression(type, result.value, vague, literal)
           /\ UNCHANGED <<x, fault>>
  <2>1. Expressed(Expression(type, result.value, vague, literal))
    BY <1>2, ExpressionFields DEF Expressed
  <2>2. Expressed(node')
    BY <1>2, <2>1
  <2>3. fault = NoFault /\ missingReturn' = missingReturn
    BY DEF Evaluate
  <2>4. TypingInv'
    BY <1>2, <2>2, <2>3 DEF TypingInv, Expressed, Stored
  <2> QED  BY <1>2, <2>4 DEF XKept
<1> QED  BY <1>1, <1>2 DEF Evaluate

LEMMA StoreKeeps ==
  ASSUME TypingInv, NEW form, NEW type, NEW result, NEW vague,
         Store(form, type, result, vague),
         Ok(result) => Settled(result.value) /\ Small(result.value),
         Ok(result) /\ x # None => Shape(result.value) = Shape(x.value)
  PROVE  TypingInv' /\ XKept
<1>1. CASE Ends(type, result, form, <<node>>)
  <2>1. node' = None /\ x' = None /\ missingReturn' = missingReturn
    BY <1>1 DEF Ends, Stop, Store
  <2> QED  BY <2>1 DEF TypingInv, XKept
<1>2. CASE /\ IsType(type) /\ Ok(result)
           /\ x' = Expression(type, result.value, vague, FALSE)
           /\ node' = None /\ UNCHANGED fault
  <2> DEFINE e == Expression(type, result.value, vague, FALSE)
  <2>1. e.type = type /\ e.value = result.value
    BY DEF Expression
  <2> HIDE DEF e
  <2>2. Stored(e)
    BY <1>2, <2>1 DEF Stored
  <2>3. fault = NoFault /\ missingReturn' = missingReturn
    BY DEF Store
  <2>4. x' = e
    BY <1>2 DEF e
  <2>5. TypingInv'
    BY <1>2, <2>2, <2>3, <2>4 DEF TypingInv, Stored
  <2>6. XKept
    BY <1>2, <2>1, <2>4 DEF XKept
  <2> QED  BY <2>5, <2>6
<1> QED  BY <1>1, <1>2 DEF Store

\* What a declared type is converted to is a target.
LEMMA WrittenFieldIsTarget ==
  ASSUME NEW t \in WrittenFields
  PROVE  FlatTarget(t) /\ Within(t, MaxDim)
<1>0. MaxDim \in Nat /\ \A n \in WrittenSizes : n \in Nat \cup {UnknownSize} /\ n <= MaxDim
  BY MaxDimAssumption DEF WrittenSizes, UnknownSize
<1>1. CASE \E elem \in BasicElements, dims \in UNION {[1 .. n -> WrittenSizes] : n \in 0 .. 2} :
             t = Array(elem, dims)
  <2>1. PICK elem \in BasicElements, dims \in UNION {[1 .. n -> WrittenSizes] : n \in 0 .. 2} :
          t = Array(elem, dims)
    BY <1>1
  <2>2. PICK n \in 0 .. 2 : dims \in [1 .. n -> WrittenSizes]
    OBVIOUS
  <2>3. dims \in Seq(Nat \cup {UnknownSize}) /\ Len(dims) \in 0 .. 2
        /\ \A i \in DOMAIN dims : dims[i] <= MaxDim
    BY <1>0, <2>2
  <2>4. elem \in Elements
    BY DEF Elements
  <2>5. ArrayOver(t, Nat \cup {UnknownSize}) /\ t.dims = dims
    BY <2>1, <2>3, <2>4 DEF ArrayOver, IsRecord, Array, Record
  <2> QED  BY <2>3, <2>5 DEF FlatTarget, Within
<1>2. CASE \E n \in WrittenSizes : t = StringOf(n)
  <2>1. PICK n \in WrittenSizes : t = StringOf(n)
    BY <1>2
  <2>2. t = Record("array", "character", <<n>>, <<>>, TRUE, <<>>)
    <3>1. \A b, c : [Record("array", "character", <<n>>, <<>>, b, <<>>) EXCEPT !.str = c] =
                 Record("array", "character", <<n>>, <<>>, c, <<>>)
      BY DEF Record
    <3> QED  BY Zenon, <2>1, <3>1 DEF StringOf, Array
  <2>3. <<n>> \in Seq(Nat \cup {UnknownSize}) /\ Len(<<n>>) = 1
        /\ \A i \in DOMAIN <<n>> : <<n>>[i] <= MaxDim
    BY <1>0
  <2>4. "character" \in Elements
    BY DEF Elements, BasicElements
  <2>5. \A b \in BOOLEAN : LET s == Record("array", "character", <<n>>, <<>>, b, <<>>) IN
                           ArrayOver(s, Nat \cup {UnknownSize}) /\ s.dims = <<n>>
    BY <2>3, <2>4 DEF ArrayOver, IsRecord, Record
  <2>6. ArrayOver(t, Nat \cup {UnknownSize}) /\ t.dims = <<n>>
    BY Zenon, <2>2, <2>5
  <2> QED  BY <2>3, <2>6 DEF FlatTarget, Within
<1>3. CASE t = Interval(UnknownSize)
  <2>1. t.dims = <<UnknownSize>> /\ t.dims[1] = UnknownSize
    BY <1>3, PlainInterval
  <2>2. FlatTarget(t)
    BY <1>3, <2>1 DEF FlatTarget
  <2>3. Within(t, MaxDim)
    BY <1>0, <2>1 DEF Within, UnknownSize
  <2> QED  BY <2>2, <2>3
<1> QED  BY <1>1, <1>2, <1>3 DEF WrittenFields

LEMMA DeclaredIsTarget ==
  ASSUME NEW d \in DeclaredTypes
  PROVE  (FlatTarget(d.target) \/ TupleTarget(d.target)) /\ Within(d.target, MaxDim)
<1>1. CASE d.target \in WrittenFields
  BY <1>1, WrittenFieldIsTarget
<1>2. CASE d.target.fields \in Seq(WrittenFields) /\ d.target = TupleValue(d.target.fields)
  <2> DEFINE t == d.target
  <2>1. t.fields \in Seq(WrittenFields) /\ t = TupleValue(t.fields)
    BY <1>2
  <2> HIDE DEF t
  <2>2. /\ Len(t.fields) \in Nat /\ DOMAIN t.fields = 1 .. Len(t.fields)
        /\ \A i \in 1 .. Len(t.fields) : t.fields[i] \in WrittenFields
    BY <2>1
  <2>3. TupleTarget(t)
    BY <2>1, <2>2, WrittenFieldIsTarget DEF TupleTarget
  <2>4. t.dims = <<>>
    BY <2>1 DEF TupleValue, Record
  <2>5. Within(t, MaxDim)
    BY <2>4 DEF Within
  <2> QED  BY <2>3, <2>5 DEF t
<1> QED  BY <1>1, <1>2, DeclaredTypesAssumption

\* A conversion gives a value; its lengths are small if the operand's are.
LEMMA DeclaredConversion ==
  ASSUME NEW d \in DeclaredTypes, NEW rhs, Value(rhs), NEW config, Ok(Convert(config, d.target, rhs))
  PROVE  LET w == Convert(config, d.target, rhs).value IN
         Settled(w) /\ Value(w) /\ (Small(rhs) => Small(w))
<1> DEFINE w == Convert(config, d.target, rhs).value
<1>1. Settled(w) /\ \A m \in Nat \ {0} : Within(d.target, m) /\ Within(rhs, m) => Within(w, m)
  BY DeclaredIsTarget, Converted
<1> HIDE DEF w
<1>2. Small(rhs) => Small(w)
  BY <1>1, DeclaredIsTarget, MaxDimAssumption, SmallIsWithin
<1> QED  BY <1>1, <1>2 DEF w, Value

(***************************************************************************)
(* The steps.                                                              *)
(***************************************************************************)
LEMMA StepKeeps ==
  ASSUME TypingInv, Next
  PROVE  TypingInv' /\ XKept
<1>a. node # None => Expressed(node)
  BY DEF TypingInv
<1>b. x # None => Stored(x) /\ Expressed(x)
  BY StoredIsExpressed DEF TypingInv
<1>1. CASE Constant
  <2>1. PICK e \in Constants \union ({x} \ {None}) : node' = e
    BY <1>1 DEF Constant
  <2>2. Expressed(e)
    BY <1>b, <2>1, ConstantsAreExpressed
  <2>3. fault = NoFault /\ UNCHANGED <<missingReturn, x, fault>>
    BY <1>1 DEF Constant
  <2>4. TypingInv'
    BY <2>1, <2>2, <2>3 DEF TypingInv, Expressed, Stored
  <2> QED  BY <2>3, <2>4 DEF XKept
<1>2. CASE UnaryOperation
  <2>1. PICK op : Evaluate("unary", node.type, Unary(op, node.value), node.vague, FALSE, <<node>>)
    BY <1>2 DEF UnaryOperation
  <2>2. Value(node.value)
    BY <1>a, <2>1 DEF Evaluate, Expressed
  <2>3. Ok(Unary(op, node.value)) => Value(Unary(op, node.value).value)
    BY <2>2, UnaryGivesValue
  <2> QED  BY <2>1, <2>3, EvaluateKeeps
<1>c. \A p \in Pairs : node # None => /\ p = <<p[1], p[2]>> /\ Len(p) = 2
                                      /\ Value(p[1].value) /\ Value(p[2].value)
  BY PairsAreExpressed DEF Expressed
<1>d. \A size \in Sizes : size \in Nat \ {0}
  BY MaxDimAssumption DEF Sizes
<1>3. CASE BinaryOperation
  <2>1. PICK op \in Operators, p \in Pairs, size \in Sizes :
          Evaluate(op, BinaryOpType(op, p[1].type, p[2].type),
                   Binary(op, p[1].value, p[2].value, size),
                   BlindSpot(Table(op, p[1].type, p[2].type), p[1], p[2]), FALSE, p)
    BY <1>3 DEF BinaryOperation
  <2>2. Value(p[1].value) /\ Value(p[2].value) /\ size \in Nat \ {0}
    BY <1>c, <1>d, <2>1 DEF Evaluate
  <2> DEFINE result == Binary(op, p[1].value, p[2].value, size)
  <2>3. Ok(result) => Value(result.value)
    BY <2>2, BinaryGivesValue DEF Value, Settled
  <2> HIDE DEF result
  <2> QED  BY <2>1, <2>3, EvaluateKeeps DEF result
<1>4. CASE RangeOperation
  <2>1. PICK p \in Pairs, size \in Sizes :
          Evaluate("range", IntegerInterval, Binary("range", p[1].value, p[2].value, size),
                   FALSE, FALSE, p)
    BY <1>4 DEF RangeOperation
  <2>2. Value(p[1].value) /\ Value(p[2].value) /\ size \in Nat \ {0}
    BY <1>c, <1>d, <2>1 DEF Evaluate
  <2> DEFINE result == Binary("range", p[1].value, p[2].value, size)
  <2>3. Ok(result) => Value(result.value)
    BY <2>2, BinaryGivesValue DEF Value, Settled
  <2> HIDE DEF result
  <2> QED  BY <2>1, <2>3, EvaluateKeeps DEF result
<1>5. CASE ConcatenationOperation
  <2>1. PICK p \in Pairs :
          Evaluate("concat", ConcatenationType(p[1].type, p[2].type),
                   Concat(p[1].value, p[2].value),
                   BlindSpot(Table("concat", p[1].type, p[2].type), p[1], p[2]), FALSE, p)
    BY <1>5 DEF ConcatenationOperation
  <2>2. Value(p[1].value) /\ Value(p[2].value)
    BY <1>c, <2>1 DEF Evaluate
  <2> DEFINE result == Concat(p[1].value, p[2].value)
  <2>3. Ok(result) => Value(result.value)
    BY <2>2, ConcatGivesValue
  <2> HIDE DEF result
  <2> QED  BY <2>1, <2>3, EvaluateKeeps DEF result
<1>6. CASE Indexing
  <2>1. PICK a \in Indexings :
          LET types == [i \in DOMAIN a[2] |-> a[2][i].type]
          IN  Evaluate("index", IndexType(a[1].type, types),
                       Indexed(a[1].value, [i \in DOMAIN a[2] |-> a[2][i].value]),
                       AnyVague(<<a[1]>> \o a[2]) \/ BlindIndices(a[1].type, types), FALSE,
                       <<a[1]>> \o a[2])
    BY <1>6 DEF Indexing
  <2>2. Expressed(node)
    BY <1>a, <2>1 DEF Evaluate
  <2> DEFINE indices == [i \in DOMAIN a[2] |-> a[2][i].value]
             result == Indexed(a[1].value, indices)
             n == Len(a[2])
  <2>3. \A e \in Operands : Expressed(e)
    BY OperandsAreExpressed
  <2>4. /\ Expressed(a[1]) /\ n \in 1 .. 2 /\ DOMAIN a[2] = 1 .. n
        /\ \A i \in 1 .. n : Expressed(a[2][i])
    <3>1. CASE a \in {<<node, <<e>>>> : e \in Operands} \cup {<<e, <<node>>>> : e \in Operands}
      <4>1. PICK f, g : a = <<f, <<g>>>> /\ Expressed(f) /\ Expressed(g)
        BY <2>2, <2>3, <3>1
      <4>2. a[1] = f /\ a[2] = <<g>>
        BY <4>1
      <4>3. Len(<<g>>) = 1 /\ DOMAIN <<g>> = 1 .. 1 /\ \A i \in 1 .. 1 : <<g>>[i] = g
        OBVIOUS
      <4> QED  BY <4>1, <4>2, <4>3
    <3>2. CASE a \in {<<node, i>> : i \in Operands \X Operands}
      <4>1. PICK f \in Operands, g \in Operands : a = <<node, <<f, g>>>>
        BY <3>2
      <4>2. a[1] = node /\ a[2] = <<f, g>> /\ Expressed(f) /\ Expressed(g)
        BY <2>3, <4>1
      <4>3. Len(<<f, g>>) = 2 /\ DOMAIN <<f, g>> = 1 .. 2
            /\ \A i \in 1 .. 2 : <<f, g>>[i] \in {f, g}
        OBVIOUS
      <4> QED  BY <2>2, <4>2, <4>3
    <3> QED  BY <3>1, <3>2 DEF Indexings, Indices
  <2>5. Elementwise(indices, n) /\ Value(a[1].value)
    BY <2>4 DEF Elementwise, Expressed
  <2> HIDE DEF indices, n
  <2>6. Ok(result) => Value(result.value)
    BY <2>4, <2>5, IndexedGivesValue
  <2> HIDE DEF result
  <2> QED  BY <2>1, <2>6, EvaluateKeeps DEF result, indices
<1>7. CASE Literal
  <2>1. PICK elements \in {<<node>>} \cup Pairs :
          LET types == [i \in DOMAIN elements |-> elements[i].type]
          IN  Evaluate("literal", VectorLiteralType(types, elements[1].literal),
                       VectorLiteral([i \in DOMAIN elements |-> elements[i].value]),
                       BlindLiteral(elements), TRUE, elements)
    BY <1>7 DEF Literal
  <2>2. Value(node.value) /\ node # None
    BY <1>a, <2>1 DEF Evaluate, Expressed
  <2> DEFINE values == [i \in DOMAIN elements |-> elements[i].value]
             result == VectorLiteral(values)
  <2>3. PICK n \in Nat : /\ DOMAIN elements = 1 .. n
                         /\ \A i \in 1 .. n : Value(elements[i].value)
    <3>1. CASE elements = <<node>>
      <4>1. DOMAIN <<node>> = 1 .. 1 /\ \A i \in 1 .. 1 : <<node>>[i] = node
        OBVIOUS
      <4>2. 1 \in Nat
        OBVIOUS
      <4> QED  BY <2>2, <3>1, <4>1, <4>2
    <3>2. CASE elements \in Pairs
      <4>1. elements = <<elements[1], elements[2]>> /\ Value(elements[1].value)
            /\ Value(elements[2].value)
        BY <1>c, <2>2, <3>2
      <4>2. DOMAIN elements = 1 .. 2 /\ \A i \in 1 .. 2 : i = 1 \/ i = 2
        BY <4>1
      <4>3. 2 \in Nat
        OBVIOUS
      <4> QED  BY <4>1, <4>2, <4>3
    <3> QED  BY <3>1, <3>2
  <2>4. Elementwise(values, n)
    BY <2>3 DEF Elementwise
  <2> HIDE DEF values
  <2>5. Ok(result) => Value(result.value)
    BY <2>4, VectorLiteralGivesValue
  <2> HIDE DEF result
  <2> QED  BY <2>1, <2>5, EvaluateKeeps DEF result, values
<1>8. CASE TupleLiteral
  <2>1. PICK p \in Pairs :
          /\ \A i \in {1, 2} : IsScalar(p[i].value)
          /\ Evaluate("tuple", TupleId(<<p[1].type, p[2].type>>),
                      Fine(TupleValue(<<p[1].value, p[2].value>>)), AnyVague(p), FALSE, p)
    BY <1>8 DEF TupleLiteral
  <2>2. Value(p[1].value) /\ Value(p[2].value)
    BY <1>c, <2>1 DEF Evaluate
  <2> DEFINE result == Fine(TupleValue(<<p[1].value, p[2].value>>))
  <2>3. Value(TupleValue(<<p[1].value, p[2].value>>))
    BY <2>1, <2>2, PairGivesValue
  <2>4. Value(result.value)
    BY <2>3 DEF Fine
  <2> HIDE DEF result
  <2> QED  BY <2>1, <2>4, EvaluateKeeps DEF result
<1>9. CASE Access
  <2>1. PICK position : Evaluate("access", AccessType(node.type, position),
                                 Field(node.value, position), node.vague, FALSE, <<node>>)
    BY <1>9 DEF Access
  <2>2. Value(node.value)
    BY <1>a, <2>1 DEF Evaluate, Expressed
  <2>3. Ok(Field(node.value, position)) => Value(Field(node.value, position).value)
    BY <2>2, FieldGivesValue
  <2> QED  BY <2>1, <2>3, EvaluateKeeps
<1>e. ASSUME NEW d \in DeclaredTypes, NEW config, node # None
      PROVE  LET r == Convert(config, d.target, node.value) IN
             Ok(r) => Value(r.value) /\ Settled(r.value) /\ Small(r.value)
  <2>1. Value(node.value) /\ Small(node.value)
    BY <1>a, <1>e DEF Expressed
  <2> QED  BY <2>1, DeclaredConversion
<1>10. CASE CastExpression
  <2>1. PICK d \in DeclaredTypes :
          Evaluate("cast", d.type, Convert(Cast, d.target, node.value), FALSE, FALSE, <<node>>)
    BY <1>10 DEF CastExpression
  <2> DEFINE result == Convert(Cast, d.target, node.value)
  <2>2. Ok(result) => Value(result.value)
    BY <1>e, <2>1 DEF Evaluate
  <2> HIDE DEF result
  <2> QED  BY <2>1, <2>2, EvaluateKeeps DEF result
<1>11. CASE Pass
  <2>1. PICK d \in DeclaredTypes :
          Evaluate("pass", d.type, Convert(Parameter, d.target, node.value), FALSE, FALSE, <<node>>)
    BY <1>11 DEF Pass
  <2> DEFINE result == Convert(Parameter, d.target, node.value)
  <2>2. Ok(result) => Value(result.value)
    BY <1>e, <2>1 DEF Evaluate
  <2> HIDE DEF result
  <2> QED  BY <2>1, <2>2, EvaluateKeeps DEF result
<1>12. CASE Return
  <2>1. PICK d \in DeclaredTypes :
          Evaluate("return", ReturnType(d.type, node.type),
                   Convert(Declaration, d.target, node.value), FALSE, FALSE, <<node>>)
    BY <1>12 DEF Return
  <2> DEFINE result == Convert(Declaration, d.target, node.value)
  <2>2. Ok(result) => Value(result.value)
    BY <1>e, <2>1 DEF Evaluate
  <2> HIDE DEF result
  <2> QED  BY <2>1, <2>2, EvaluateKeeps DEF result
<1>13. CASE Generate
  <2>1. PICK n \in 0 .. MaxDim :
          Evaluate("generator", Unknown, Generated(n, node.value), FALSE, FALSE, <<node>>)
    BY <1>13 DEF Generate
  <2>2. n \in Nat /\ Value(node.value)
    BY <1>a, <2>1, MaxDimAssumption DEF Evaluate, Expressed
  <2> DEFINE result == Generated(n, node.value)
  <2>3. Ok(result) => Value(result.value)
    BY <2>2, GeneratedGivesValue
  <2> HIDE DEF result
  <2> QED  BY <2>1, <2>3, EvaluateKeeps DEF result
<1>14. CASE DeclareInferred
  <2> DEFINE result == Convert(Declaration, UnknownType, node.value)
  <2>1. x = None /\ Store("inferred", node.type, result, node.vague)
    BY <1>14 DEF DeclareInferred
  <2>2. Value(node.value) /\ Small(node.value)
    BY <1>a, <2>1 DEF Store, Expressed
  <2>3. Ok(result) => Settled(result.value) /\ Small(result.value)
    <3>1. Ok(result) => Settled(result.value) /\ result.value.dims = node.value.dims
      BY <2>2, Inferred
    <3> HIDE DEF result
    <3> QED  BY <2>2, <3>1 DEF Small
  <2> HIDE DEF result
  <2> QED  BY <2>1, <2>3, StoreKeeps
<1>15. CASE Declare
  <2>1. PICK d \in DeclaredTypes :
          /\ x = None
          /\ Store("declare", DeclarationType(d.type, node.type),
                   Convert(Declaration, d.target, node.value), FALSE)
    BY <1>15 DEF Declare
  <2> DEFINE result == Convert(Declaration, d.target, node.value)
  <2>2. Ok(result) => Settled(result.value) /\ Small(result.value)
    BY <1>e, <2>1 DEF Store
  <2> HIDE DEF result
  <2> QED  BY <2>1, <2>2, StoreKeeps DEF result
<1>16. CASE Assign
  <2> DEFINE result == Convert(Assignment, x.value, node.value)
  <2>1. x # None /\ Store("assign", AssignmentType(x.type, node.type), result, x.vague)
    BY <1>16 DEF Assign
  <2>2. Value(node.value) /\ Small(node.value) /\ Settled(x.value) /\ Small(x.value)
    BY <1>a, <1>b, <2>1 DEF Store, Expressed, Stored
  <2>3. Ok(result) => /\ Settled(result.value) /\ Shape(result.value) = Shape(x.value)
                      /\ \A m \in Nat \ {0} :
                           Within(x.value, m) /\ Within(node.value, m) => Within(result.value, m)
    BY <2>2, SettledIsTarget, Converted, ConfigurationFields
  <2> HIDE DEF result
  <2>4. Ok(result) => Small(result.value)
    BY <2>2, <2>3, MaxDimAssumption, SmallIsWithin
  <2> QED  BY <2>1, <2>3, <2>4, StoreKeeps
<1> QED  BY <1>1, <1>2, <1>3, <1>4, <1>5, <1>6, <1>7, <1>8, <1>9, <1>10, <1>11, <1>12, <1>13,
            <1>14, <1>15, <1>16 DEF Next

LEMMA TypingInvInitially ==
  ASSUME Init
  PROVE  TypingInv
BY DEF Init, TypingInv

LEMMA TypingInvSteps ==
  ASSUME TypingInv, [Next]_vars
  PROVE  TypingInv' /\ XKept
<1>1. CASE Next
  BY <1>1, StepKeeps
<1>2. CASE UNCHANGED vars
  BY <1>2 DEF vars, TypingInv, Expressed, Stored, XKept
<1> QED  BY <1>1, <1>2

LEMMA TypingInvAlways == Spec => []TypingInv
<1>1. Init => TypingInv
  BY TypingInvInitially
<1>2. TypingInv /\ [Next]_vars => TypingInv'
  BY TypingInvSteps
<1> QED  BY <1>1, <1>2, PTL DEF Spec

\* Whatever is computed is a value the runtime knows: every expression is an
\* array, an interval or a tuple, a literal has as many elements as its
\* dimensions say, and a variable never holds one that is still to be
\* converted; for every program of the forms, every bound on the lengths and
\* every set of declared types and operators.
THEOREM TypingTypeOK == Spec => []TypeOK
<1>1. TypingInv => TypeOK
  <2> SUFFICES ASSUME TypingInv PROVE TypeOK
    OBVIOUS
  <2>1. ASSUME NEW e, Expressed(e)
        PROVE  /\ e.value.kind \in {"array", "empty", "interval", "tuple"}
               /\ IsType(e.type)
               /\ IsArray(e.value) => Small(e.value)
               /\ IsMixed(e.value) => Len(e.value.items) = TotalLength(e.value)
    <3>1. Value(e.value) /\ IsType(e.type) /\ Small(e.value)
      BY <2>1 DEF Expressed
    <3>2. IsMixed(e.value) => LiteralArray(e.value)
      BY <3>1, FlatArrayFields, ValueFields DEF IsMixed
    <3> QED  BY <3>1, <3>2, ValueFields DEF LiteralArray
  <2>2. ~IsMixed(x.value)
    <3>1. CASE x = None
      BY <3>1 DEF None, Expression, UnknownType, Record, IsMixed
    <3>2. CASE x # None
      <4>1. Settled(x.value)
        BY <3>2 DEF TypingInv, Stored
      <4> QED  BY <4>1, FlatArrayFields, IntervalFields, TupleFields
               DEF Settled, FlatValue, IsMixed
    <3> QED  BY <3>1, <3>2
  <2>3. \A e \in {node, x} \ {None} : Expressed(e)
    BY StoredIsExpressed DEF TypingInv
  <2> QED  BY <2>1, <2>2, <2>3 DEF TypeOK, TypingInv
<1> QED  BY <1>1, TypingInvAlways, PTL

\* An assignment leaves a variable the kind, the element type, the dimensions
\* and the fields it was declared with, whatever it is assigned.
THEOREM AVariableKeepsItsType == Spec => KeepsItsType
<1>1. TypingInv /\ [Next]_vars =>
        [x # None /\ x' # None => Shape(x'.value) = Shape(x.value)]_vars
  BY TypingInvSteps DEF XKept
<1> QED  BY <1>1, TypingInvAlways, PTL DEF Spec, KeepsItsType
=============================================================================
