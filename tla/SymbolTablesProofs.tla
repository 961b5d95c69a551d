------------------------- MODULE SymbolTablesProofs -------------------------
(***************************************************************************)
(* What the two walks of SymbolTables establish, for every program and     *)
(* every choice of names: a call in a program that is accepted reaches a   *)
(* body, typedefs end at a type of the language, scopes are marked as the  *)
(* program nests.                                                          *)
(*                                                                         *)
(* The inductive invariant relates the stack of open nodes to the text     *)
(* read so far, each body to the scope DefWalk made for it, and the        *)
(* counters of a subroutine to its declarations.                           *)
(***************************************************************************)
EXTENDS SymbolTables, TLAPS, WellFoundedInduction, FiniteSetTheorems, SequenceTheorems

(***************************************************************************)
(* Numbers.                                                                *)
(***************************************************************************)
\* Induction on the numbers up to m, for a set of them.
LEMMA IntervalInduction ==
  ASSUME NEW m \in Nat, NEW T, 0 \in T, \A k \in 0 .. m - 1 : k \in T => k + 1 \in T
  PROVE  0 .. m \subseteq T
<1> DEFINE Missing == (0 .. m) \ T
           R == {pair \in Nat \X Nat : pair[1] < pair[2]}
<1>1. SUFFICES ASSUME Missing # {} PROVE FALSE
  OBVIOUS
<1>2. IsWellFoundedOn(R, Nat)
  BY NatLessThanWellFounded DEF OpToRel
<1> HIDE DEF R
<1>3. PICK n \in Missing : \A k \in Missing : ~(<<k, n>> \in R)
  <2>1. Missing \subseteq Nat
    OBVIOUS
  <2> HIDE DEF Missing
  <2> QED  BY <1>1, <1>2, <2>1, WFMin
<1>4. \A k \in Missing : ~(k < n)
  <2>1. \A x, y \in Nat : x < y => <<x, y>> \in R
    BY DEF R
  <2>2. n \in Nat /\ \A k \in Missing : k \in Nat
    OBVIOUS
  <2> QED  BY <1>3, <2>1, <2>2
<1>5. n # 0
  OBVIOUS
<1>6. n - 1 \in 0 .. m - 1 /\ n - 1 \in T /\ n - 1 + 1 = n
  BY <1>4, <1>5
<1> QED  BY <1>6

\* A set of numbers that is not empty has a least one, and a greatest one if
\* it is bounded.
LEMMA Extremes ==
  ASSUME NEW m \in Nat, NEW I \in SUBSET (0 .. m), I # {}
  PROVE  /\ Min(I) \in I /\ \A i \in I : Min(I) <= i
         /\ Max(I) \in I /\ \A i \in I : i <= Max(I)
<1> DEFINE Low == {k \in 0 .. m : \A i \in I : k <= i}
           High == {k \in 0 .. m : \A i \in I : i <= m - k}
<1>1. ASSUME \A x \in I : \E y \in I : y < x PROVE FALSE
  <2>1. 0 \in Low
    OBVIOUS
  <2>2. ASSUME NEW k \in 0 .. m - 1, k \in Low PROVE k + 1 \in Low
    <3>1. k \notin I
      BY <1>1, <2>2
    <3> QED  BY <2>2, <3>1
  <2>3. 0 .. m \subseteq Low
    <3> HIDE DEF Low
    <3> QED  BY <2>1, <2>2, IntervalInduction
  <2>4. \A i \in I : m <= i
    BY <2>3
  <2>5. PICK x \in I, y \in I : y < x
    BY <1>1
  <2> QED  BY <2>4, <2>5
<1>2. ASSUME \A x \in I : \E y \in I : y > x PROVE FALSE
  <2>1. 0 \in High
    OBVIOUS
  <2>2. ASSUME NEW k \in 0 .. m - 1, k \in High PROVE k + 1 \in High
    <3>1. m - k \notin I
      BY <1>2, <2>2
    <3> QED  BY <2>2, <3>1
  <2>3. 0 .. m \subseteq High
    <3> HIDE DEF High
    <3> QED  BY <2>1, <2>2, IntervalInduction
  <2>4. \A i \in I : i <= m - m
    BY <2>3
  <2>5. PICK x \in I, y \in I : y > x
    BY <1>2
  <2> QED  BY <2>4, <2>5
<1>3. \E x \in I : \A y \in I : x <= y
  BY <1>1
<1>4. \E x \in I : \A y \in I : x >= y
  BY <1>2
<1> QED  BY <1>3, <1>4 DEF Min, Max

(***************************************************************************)
(* Sequences.                                                              *)
(***************************************************************************)
LEMMA AppendFacts ==
  ASSUME NEW S, NEW s \in Seq(S), NEW x \in S
  PROVE  /\ Append(s, x) \in Seq(S) /\ Len(s) \in Nat /\ Len(Append(s, x)) = Len(s) + 1
         /\ DOMAIN Append(s, x) = DOMAIN s \cup {Len(s) + 1}
         /\ Len(s) + 1 \notin DOMAIN s /\ DOMAIN s = 1 .. Len(s)
         /\ Append(s, x)[Len(s) + 1] = x
         /\ \A d \in DOMAIN s : Append(s, x)[d] = s[d]
OBVIOUS

LEMMA FrontFacts ==
  ASSUME NEW S, NEW s \in Seq(S), s # <<>>
  PROVE  /\ Front(s) \in Seq(S) /\ Len(Front(s)) = Len(s) - 1
         /\ Last(s) \in S /\ Last(s) = s[Len(s)] /\ Len(s) \in Nat \ {0}
         /\ DOMAIN s = 1 .. Len(s) /\ DOMAIN Front(s) = 1 .. Len(s) - 1
         /\ \A d \in 1 .. Len(s) - 1 : Front(s)[d] = s[d]
<1>1. Len(s) \in Nat \ {0} /\ 1 \in Int /\ Len(s) - 1 \in Int /\ \A i \in 1 .. Len(s) - 1 : s[i] \in S
  OBVIOUS
<1>2. /\ Front(s) \in Seq(S)
      /\ Len(Front(s)) = IF 1 <= Len(s) - 1 THEN Len(s) - 1 - 1 + 1 ELSE 0
      /\ \A i \in 1 .. Len(s) - 1 - 1 + 1 : Front(s)[i] = s[1 + i - 1]
  BY <1>1, SubSeqProperties DEF Front
<1>3. (IF 1 <= Len(s) - 1 THEN Len(s) - 1 - 1 + 1 ELSE 0) = Len(s) - 1
  <2>1. \A n \in Nat \ {0} : (IF 1 <= n - 1 THEN n - 1 - 1 + 1 ELSE 0) = n - 1
    OBVIOUS
  <2> QED  BY <1>1, <2>1
<1>4. ASSUME NEW d \in 1 .. Len(s) - 1 PROVE Front(s)[d] = s[d]
  <2>1. d \in 1 .. Len(s) - 1 - 1 + 1 /\ 1 + d - 1 = d
    BY <1>1
  <2> QED  BY <1>2, <2>1
<1> QED  BY <1>1, <1>2, <1>3, <1>4 DEF Last

LEMMA SetElement ==
  ASSUME NEW S, NEW ss \in Seq(S), NEW s \in 1 .. Len(ss), NEW r \in S,
         NEW tt, tt = [ss EXCEPT ![s] = r]
  PROVE  /\ tt \in Seq(S) /\ Len(tt) = Len(ss) /\ Len(ss) \in Nat
         /\ \A k \in 1 .. Len(ss) : tt[k] = IF k = s THEN r ELSE ss[k]
OBVIOUS

(***************************************************************************)
(* The depth of a node in the text.                                        *)
(***************************************************************************)
\* The depth after a node at depth d.
After(node, d) == IF HasBody(node) THEN d + 1 ELSE IF node.kind = "close" THEN d - 1 ELSE d

LEMMA DepthsUnfold ==
  ASSUME NEW p, Len(p) \in Nat
  PROVE  /\ Depths(p) = [i \in 1 .. Len(p) + 1 |-> Depths(p)[i]]
         /\ Depths(p)[1] = 0
         /\ \A i \in 1 .. Len(p) : Depths(p)[i + 1] = After(p[i], Depths(p)[i])
<1> DEFINE m == Len(p)
           Step(f, k) == [i \in 1 .. k + 1 |->
                            IF i = 1 THEN 0
                            ELSE IF HasBody(p[i - 1]) THEN f[i - 1] + 1
                            ELSE IF p[i - 1].kind = "close" THEN f[i - 1] - 1
                            ELSE f[i - 1]]
           T == {k \in 0 .. m : \E f : f = Step(f, k)}
           depth == CHOOSE f : f = Step(f, m)
<1>0. m \in Nat
  OBVIOUS
<1>5. Depths(p) = depth
  BY DEF Depths
<1> HIDE DEF m
<1>1. 0 \in T
  <2>1. \E f : f = Step(f, 0)
    <3>1. [i \in 1 .. 0 + 1 |-> 0] = Step([i \in 1 .. 0 + 1 |-> 0], 0)
      OBVIOUS
    <3> QED  BY <3>1
  <2>2. 0 \in 0 .. m
    BY <1>0
  <2> HIDE DEF Step
  <2> QED  BY <2>1, <2>2
<1>2. ASSUME NEW k \in 0 .. m - 1, k \in T PROVE k + 1 \in T
  <2>0. k \in Nat
    BY <1>0
  <2>1. PICK f : f = Step(f, k)
    BY <1>2
  <2> DEFINE g == [i \in 1 .. (k + 1) + 1 |->
                     IF i = k + 2 THEN After(p[k + 1], f[k + 1]) ELSE f[i]]
             Then(h, i) == IF i = 1 THEN 0
                           ELSE IF HasBody(p[i - 1]) THEN h[i - 1] + 1
                           ELSE IF p[i - 1].kind = "close" THEN h[i - 1] - 1
                           ELSE h[i - 1]
  <2>2. ASSUME NEW i \in 1 .. (k + 1) + 1
        PROVE  g[i] = Then(g, i)
    <3>1. CASE i = k + 2
      <4>1. i # 1 /\ i - 1 = k + 1 /\ k + 1 \in 1 .. (k + 1) + 1 /\ k + 1 # k + 2
        BY <2>0, <3>1
      <4>2. g[i] = After(p[k + 1], f[k + 1]) /\ g[k + 1] = f[k + 1]
        BY <3>1, <4>1
      <4> HIDE DEF g
      <4> QED  BY <3>1, <4>1, <4>2 DEF After
    <3>2. CASE i # k + 2
      <4>1. i \in 1 .. k + 1 /\ (i # 1 => i - 1 \in 1 .. k + 1)
        BY <2>0, <3>2
      <4>2. f[i] = Then(f, i)
        BY <2>1, <4>1
      <4>3. g[i] = f[i] /\ (i # 1 => g[i - 1] = f[i - 1])
        BY <2>0, <3>2, <4>1
      <4> HIDE DEF g
      <4> QED  BY <4>2, <4>3
    <3> QED  BY <3>1, <3>2
  <2>3. g = Step(g, k + 1)
    BY <2>2
  <2>4. k + 1 \in 0 .. m
    BY <1>0
  <2> QED  BY <2>3, <2>4
<1>3. m \in T
  <2> HIDE DEF T
  <2>1. 0 .. m \subseteq T
    BY <1>0, <1>1, <1>2, IntervalInduction
  <2> QED  BY <1>0, <2>1
<1>4. depth = Step(depth, m)
  BY <1>3
<1> HIDE DEF depth
<1>6. depth = [i \in 1 .. m + 1 |-> depth[i]]
  BY <1>4
<1>7. depth[1] = 0
  BY <1>0, <1>4
<1>8. ASSUME NEW i \in 1 .. m PROVE depth[i + 1] = After(p[i], depth[i])
  <2>1. i + 1 \in 1 .. m + 1 /\ i + 1 # 1 /\ (i + 1) - 1 = i
    BY <1>0
  <2> QED  BY <1>4, <2>1 DEF After
<1> QED  BY <1>5, <1>6, <1>7, <1>8 DEF m

LEMMA DepthsType ==
  ASSUME NEW p, Len(p) \in Nat
  PROVE  \A i \in 1 .. Len(p) + 1 : Depths(p)[i] \in Int
<1> DEFINE m == Len(p)
           T == {k \in 0 .. m : Depths(p)[k + 1] \in Int}
<1>1. /\ m \in Nat /\ Depths(p)[1] = 0
      /\ \A i \in 1 .. m : Depths(p)[i + 1] = After(p[i], Depths(p)[i])
  BY DepthsUnfold
<1> HIDE DEF m
<1>2. 0 \in T
  BY <1>1
<1>3. ASSUME NEW k \in 0 .. m - 1, k \in T PROVE k + 1 \in T
  <2>1. k + 1 \in 1 .. m /\ k + 1 \in 0 .. m
    BY <1>1
  <2> QED  BY <1>1, <1>3, <2>1 DEF After
<1>4. 0 .. m \subseteq T
  <2> HIDE DEF T
  <2> QED  BY <1>1, <1>2, <1>3, IntervalInduction
<1>5. ASSUME NEW i \in 1 .. m + 1 PROVE Depths(p)[i] \in Int
  <2>1. i - 1 \in 0 .. m /\ (i - 1) + 1 = i
    BY <1>1
  <2> QED  BY <1>4, <2>1
<1> QED  BY <1>5 DEF m

\* Reading one more node leaves the depth of those before it alone.
LEMMA DepthsGrow ==
  ASSUME NEW S, NEW p \in Seq(S), NEW x \in S
  PROVE  /\ \A i \in 1 .. Len(p) + 1 : Depths(Append(p, x))[i] = Depths(p)[i]
         /\ Depths(Append(p, x))[Len(p) + 2] = After(x, Depths(p)[Len(p) + 1])
<1> DEFINE m == Len(p)
           q == Append(p, x)
           T == {k \in 0 .. m : Depths(q)[k + 1] = Depths(p)[k + 1]}
<1>1. m \in Nat /\ Len(q) = m + 1 /\ q[m + 1] = x /\ \A i \in 1 .. m : q[i] = p[i]
  OBVIOUS
<1>2. /\ Depths(p)[1] = 0
      /\ \A i \in 1 .. m : Depths(p)[i + 1] = After(p[i], Depths(p)[i])
  BY <1>1, DepthsUnfold
<1>3. /\ Depths(q)[1] = 0
      /\ \A i \in 1 .. m + 1 : Depths(q)[i + 1] = After(q[i], Depths(q)[i])
  <2> HIDE DEF m, q
  <2>1. Len(q) \in Nat
    BY <1>1
  <2> QED  BY <1>1, <2>1, DepthsUnfold
<1> HIDE DEF m, q
<1>4. 0 \in T
  BY <1>1, <1>2, <1>3
<1>5. ASSUME NEW k \in 0 .. m - 1, k \in T PROVE k + 1 \in T
  <2>1. k + 1 \in 1 .. m /\ k + 1 \in 1 .. m + 1 /\ k + 1 \in 0 .. m
    BY <1>1
  <2> QED  BY <1>1, <1>2, <1>3, <1>5, <2>1
<1>6. 0 .. m \subseteq T
  <2> HIDE DEF T
  <2> QED  BY <1>1, <1>4, <1>5, IntervalInduction
<1>7. ASSUME NEW i \in 1 .. m + 1 PROVE Depths(q)[i] = Depths(p)[i]
  <2>1. i - 1 \in 0 .. m /\ (i - 1) + 1 = i
    BY <1>1
  <2> QED  BY <1>6, <2>1
<1>8. Depths(q)[m + 2] = After(x, Depths(p)[m + 1])
  <2>1. m + 1 \in 1 .. m + 1 /\ (m + 1) + 1 = m + 2
    BY <1>1
  <2> QED  BY <1>1, <1>3, <1>7, <2>1
<1> QED  BY <1>7, <1>8 DEF m, q

(***************************************************************************)
(* Resolving a name.                                                       *)
(***************************************************************************)
\* A scope is made inside of an earlier one.
Chained == Len(scopes) \in Nat /\ \A s \in 1 .. Len(scopes) : scopes[s].enclosingScope \in 0 .. s - 1

LEMMA ResolveUnfolds ==
  ASSUME Chained, NEW name
  PROVE  /\ Resolve(name, 0) = nullptr
         /\ \A s \in 1 .. Len(scopes) :
              Resolve(name, s) = IF Here(name, s) # nullptr THEN Here(name, s)
                                 ELSE Resolve(name, scopes[s].enclosingScope)
<1> DEFINE m == Len(scopes)
           out(s) == scopes[s].enclosingScope
           H(s) == Here(name, s)
           Step(f, k) == [s \in 0 .. k |->
                            IF s = 0 THEN nullptr ELSE IF H(s) # nullptr THEN H(s) ELSE f[out(s)]]
           T == {k \in 0 .. m : \E f : f = Step(f, k)}
           from == CHOOSE f : f = Step(f, m)
<1>0. m \in Nat /\ \A s \in 1 .. m : out(s) \in 0 .. s - 1
  BY DEF Chained
<1>5. \A s : Resolve(name, s) = from[s]
  BY DEF Resolve
<1> HIDE DEF m, out, H
<1>1. 0 \in T
  <2>1. \E f : f = Step(f, 0)
    <3>1. [s \in 0 .. 0 |-> nullptr] = Step([s \in 0 .. 0 |-> nullptr], 0)
      OBVIOUS
    <3> QED  BY <3>1
  <2>2. 0 \in 0 .. m
    BY <1>0
  <2> HIDE DEF Step
  <2> QED  BY <2>1, <2>2
<1>2. ASSUME NEW k \in 0 .. m - 1, k \in T PROVE k + 1 \in T
  <2>0. k \in Nat
    BY <1>0
  <2>1. PICK f : f = Step(f, k)
    BY <1>2
  <2> DEFINE g == [s \in 0 .. k + 1 |->
                     IF s = k + 1 THEN IF H(s) # nullptr THEN H(s) ELSE f[out(s)] ELSE f[s]]
             Then(h, s) == IF s = 0 THEN nullptr ELSE IF H(s) # nullptr THEN H(s) ELSE h[out(s)]
  <2>2. ASSUME NEW s \in 0 .. k + 1
        PROVE  g[s] = Then(g, s)
    <3>1. CASE s = k + 1
      <4>1. s # 0 /\ out(s) \in 0 .. k + 1 /\ out(s) # k + 1
        BY <1>0, <2>0, <3>1
      <4>2. g[s] = (IF H(s) # nullptr THEN H(s) ELSE f[out(s)]) /\ g[out(s)] = f[out(s)]
        BY <3>1, <4>1
      <4> HIDE DEF g
      <4> QED  BY <4>1, <4>2
    <3>2. CASE s # k + 1
      <4>1. s \in 0 .. k /\ (s # 0 => out(s) \in 0 .. k + 1 /\ out(s) # k + 1)
        BY <1>0, <2>0, <3>2
      <4>2. f[s] = Then(f, s)
        BY <2>1, <4>1
      <4>3. g[s] = f[s] /\ (s # 0 => g[out(s)] = f[out(s)])
        BY <2>0, <3>2, <4>1
      <4> HIDE DEF g
      <4> QED  BY <4>2, <4>3
    <3> QED  BY <3>1, <3>2
  <2>3. g = Step(g, k + 1)
    BY <2>2
  <2>4. k + 1 \in 0 .. m
    BY <1>0
  <2> QED  BY <2>3, <2>4
<1>3. m \in T
  <2> HIDE DEF T
  <2>1. 0 .. m \subseteq T
    BY <1>0, <1>1, <1>2, IntervalInduction
  <2> QED  BY <1>0, <2>1
<1>4. from = Step(from, m)
  BY <1>3
<1> HIDE DEF from
<1>6. from[0] = nullptr
  BY <1>0, <1>4
<1>7. ASSUME NEW s \in 1 .. m
      PROVE  from[s] = IF H(s) # nullptr THEN H(s) ELSE from[out(s)]
  <2>1. s \in 0 .. m /\ s # 0
    BY <1>0
  <2> QED  BY <1>4, <2>1
<1> QED  BY <1>5, <1>6, <1>7 DEF m, out, H

\* A name resolves to a symbol of a scope, or to none.
LEMMA ResolveType ==
  ASSUME Chained, NEW name, NEW X, nullptr \in X, \A s \in 1 .. Len(scopes) : Here(name, s) \in X
  PROVE  \A s \in 0 .. Len(scopes) : Resolve(name, s) \in X
<1> DEFINE m == Len(scopes)
           out(s) == scopes[s].enclosingScope
           R(s) == Resolve(name, s)
           H(s) == Here(name, s)
           T == {k \in 0 .. m : \A s \in 0 .. k : R(s) \in X}
<1>1. /\ m \in Nat /\ \A s \in 1 .. m : out(s) \in 0 .. s - 1
      /\ R(0) = nullptr /\ \A s \in 1 .. m : R(s) = IF H(s) # nullptr THEN H(s) ELSE R(out(s))
      /\ nullptr \in X /\ \A s \in 1 .. m : H(s) \in X
  BY ResolveUnfolds DEF Chained
<1> HIDE DEF m, out, R, H
<1>2. 0 \in T
  BY <1>1
<1>3. ASSUME NEW k \in 0 .. m - 1, k \in T PROVE k + 1 \in T
  <2>1. k + 1 \in 1 .. m /\ out(k + 1) \in 0 .. k /\ k + 1 \in 0 .. m
    BY <1>1
  <2>2. R(k + 1) \in X
    BY <1>1, <1>3, <2>1
  <2>3. \A s \in 0 .. k + 1 : s = k + 1 \/ s \in 0 .. k
    BY <1>1
  <2> QED  BY <1>3, <2>1, <2>2, <2>3
<1>4. 0 .. m \subseteq T
  <2> HIDE DEF T
  <2> QED  BY <1>1, <1>2, <1>3, IntervalInduction
<1>5. m \in T
  <2> HIDE DEF T
  <2> QED  BY <1>1, <1>4
<1> QED  BY <1>5 DEF m, R

\* The symbol found in a scope is one of its parameters or of its table.
LEMMA HereIsHere ==
  ASSUME NEW name, NEW s, NEW X, nullptr \in X,
         scopes[s].subroutine # noName =>
           subroutines[scopes[s].subroutine].orderedArgs \in Seq(X),
         \A n \in DOMAIN scopes[s].symbols : scopes[s].symbols[n] \in X
  PROVE  Here(name, s) \in X
<1> DEFINE args == subroutines[scopes[s].subroutine].orderedArgs
           found == {i \in 1 .. Len(args) : NameOf(args[i]) = name}
           arg == IF found # {} THEN Min(found) ELSE 0
<1>1. Here(name, s) = IF scopes[s].subroutine # noName /\ arg # 0 THEN args[arg]
                      ELSE IF name \in DOMAIN scopes[s].symbols THEN scopes[s].symbols[name]
                      ELSE nullptr
  BY DEF Here, SelectInSeq
<1>2. CASE scopes[s].subroutine # noName /\ arg # 0
  <2>1. args \in Seq(X) /\ found # {}
    BY <1>2
  <2>2. Len(args) \in Nat /\ found \in SUBSET (0 .. Len(args))
    BY <2>1
  <2>3. Min(found) \in found
    <3> HIDE DEF found, args
    <3> QED  BY <2>1, <2>2, Extremes
  <2>4. arg \in 1 .. Len(args)
    BY <2>1, <2>3
  <2>5. args[arg] \in X
    <3> HIDE DEF arg, args
    <3> QED  BY <2>1, <2>4, ElementOfSeq
  <2> HIDE DEF arg, args
  <2> QED  BY <1>1, <1>2, <2>5
<1>3. CASE ~(scopes[s].subroutine # noName /\ arg # 0)
  <2> HIDE DEF arg, args
  <2> QED  BY <1>1, <1>3
<1> QED  BY <1>2, <1>3

(***************************************************************************)
(* Where a chain of typedefs ends, if it has one link or two.              *)
(***************************************************************************)
LEMMA TargetEnds ==
  ASSUME NEW t, NEW v,
         \/ typeSymbols[t] = v
         \/ /\ typeSymbols[t] \in DOMAIN typeSymbols /\ typeSymbols[typeSymbols[t]] = v
            /\ Typedefs # {},
         v \notin DOMAIN typeSymbols
  PROVE  Target(t) = v
<1> DEFINE m == Cardinality(Typedefs)
           u == typeSymbols[t]
           Link(x) == IF x \in DOMAIN typeSymbols THEN typeSymbols[x] ELSE x
           Chain(f) == [k \in 0 .. m |-> IF k = 0 THEN u
                                         ELSE IF f[k - 1] \in DOMAIN typeSymbols
                                              THEN typeSymbols[f[k - 1]] ELSE f[k - 1]]
           g == [k \in 0 .. m |-> IF k = 0 THEN u ELSE v]
           chain == CHOOSE f : f = Chain(f)
<1>1. Target(t) = chain[m]
  BY DEF Target
<1>2. m \in Nat /\ (Typedefs # {} => m # 0)
  BY NamesAssumption, FS_CardinalityType, FS_EmptySet
<1>3. Link(u) = v /\ Link(v) = v /\ (m = 0 => u = v)
  BY <1>2
<1> HIDE DEF m, u
<1>4. g = Chain(g)
  <2>1. ASSUME NEW k \in 0 .. m
        PROVE  g[k] = IF k = 0 THEN u ELSE Link(g[k - 1])
    <3>1. CASE k = 0
      BY <3>1
    <3>2. CASE k = 1
      <4>1. 0 \in 0 .. m /\ k - 1 = 0
        BY <1>2, <3>2
      <4>2. g[k] = v /\ g[k - 1] = u
        BY <3>2, <4>1
      <4> HIDE DEF g, Link
      <4> QED  BY <1>3, <3>2, <4>2
    <3>3. CASE k # 0 /\ k # 1
      <4>1. k - 1 \in 0 .. m /\ k - 1 # 0
        BY <1>2, <3>3
      <4>2. g[k] = v /\ g[k - 1] = v
        BY <3>3, <4>1
      <4> HIDE DEF g, Link
      <4> QED  BY <1>3, <3>3, <4>2
    <3> QED  BY <3>1, <3>2, <3>3
  <2> QED  BY <2>1
<1>5. chain = Chain(chain)
  <2> HIDE DEF g, Chain
  <2> QED  BY <1>4
<1> HIDE DEF chain
<1>6. /\ chain[0] = u
      /\ \A k \in 1 .. m : chain[k] = Link(chain[k - 1])
  <2>1. 0 \in 0 .. m /\ \A k \in 1 .. m : k \in 0 .. m /\ k # 0
    BY <1>2
  <2> QED  BY <1>5, <2>1
<1> HIDE DEF Link
<1> DEFINE T == {k \in 0 .. m : chain[k] = IF k = 0 THEN u ELSE v}
<1>7. 0 \in T
  BY <1>2, <1>6
<1>8. ASSUME NEW k \in 0 .. m - 1, k \in T PROVE k + 1 \in T
  <2>1. k + 1 \in 1 .. m /\ (k + 1) - 1 = k /\ k + 1 \in 0 .. m /\ k + 1 # 0
    BY <1>2
  <2>2. chain[k + 1] = Link(chain[k])
    BY <1>6, <2>1
  <2>3. chain[k] = u \/ chain[k] = v
    BY <1>8
  <2>4. chain[k + 1] = v
    BY <1>3, <2>2, <2>3
  <2> QED  BY <2>1, <2>4
<1>9. 0 .. m \subseteq T
  <2> HIDE DEF T
  <2> QED  BY <1>2, <1>7, <1>8, IntervalInduction
<1>10. chain[m] = v
  <2>1. m \in T
    <3> HIDE DEF T
    <3> QED  BY <1>2, <1>9
  <2> QED  BY <1>3, <2>1
<1> QED  BY <1>1, <1>10

(***************************************************************************)
(* The inductive invariant.                                                *)
(***************************************************************************)
\* The shape of what the walks keep, whatever the nodes they point at.
SymbolTable == UNION {[N -> Nat \X Nat] : N \in SUBSET Names}

ScopeRecords ==
  [enclosingScope : Nat, subroutine : Subroutines \cup {noName}, symbols : SymbolTable,
   parentIsLoop : BOOLEAN, parentIsConditional : BOOLEAN, containReturn : BOOLEAN]

SubroutineRecords ==
  [scope : Nat, orderedArgs : Seq(Nat \X Nat), numTimesDeclare : Nat, numTimesDefined : Nat]

Numberings == UNION {[K -> Nat] : K \in SUBSET Nat}
Resolutions == UNION {[K -> (Nat \X Nat) \cup {nullptr}] : K \in SUBSET Nat}

Walking == pass \in {"DefWalk", "RefWalk"}

\* The text read so far.
TextOK ==
  /\ shape \in Shapes /\ hasMainProcedure \in BOOLEAN
  /\ pass \in {"DefWalk", "RefWalk", "accepted", "rejected", "crashed"}
  /\ program \in Seq(Nodes) /\ Len(program) <= shape[all]
  /\ \A i \in DOMAIN program :
       program[i].kind \in {"subroutine", "call"} => program[i].subroutine \in Subroutines
  /\ at \in 1 .. Len(program) + 1
  /\ pass = "DefWalk" => at = 1
  /\ pass = "accepted" => at = Len(program) + 1
  /\ open \in Seq(DOMAIN program)

\* The open nodes are those around node i: the k-th is at depth k - 1 and all
\* that follows it is inside of it.
Around(i) ==
  /\ Len(open) = Depth[i]
  /\ \A k \in 1 .. Len(open) :
       /\ open[k] < i /\ HasBody(program[open[k]])
       /\ Depth[open[k]] = k - 1
       /\ \A j \in open[k] + 1 .. i : Depth[j] >= k

StackOK ==
  /\ pass = "DefWalk" => Around(Len(program) + 1)
  /\ pass = "RefWalk" => Around(at)
  /\ Walking => \A i \in 1 .. Len(program) + 1 : Depth[i] >= 0

ScopesOK ==
  /\ scopes \in Seq(ScopeRecords) /\ currentScope \in 1 .. Len(scopes)
  /\ \A s \in 1 .. Len(scopes) :
       /\ scopes[s].enclosingScope \in 0 .. s - 1
       /\ \A n \in DOMAIN scopes[s].symbols : scopes[s].symbols[n] \in SymbolIds

SubroutinesOK ==
  /\ subroutines \in [Subroutines -> SubroutineRecords]
  /\ \A f \in Subroutines :
       /\ subroutines[f].scope \in 0 .. Len(scopes)
       /\ subroutines[f].scope # 0 => scopes[subroutines[f].scope].enclosingScope = 1
       /\ subroutines[f].orderedArgs \in Seq(SymbolIds)
       /\ subroutines[f].numTimesDeclare \in 0 .. 2 /\ subroutines[f].numTimesDefined \in 0 .. 2
       /\ pass = "DefWalk" => subroutines[f].numTimesDefined <= subroutines[f].numTimesDeclare

\* A subroutine has been declared, and defined, as its counters say.
CountersOK ==
  Walking =>
    \A f \in Subroutines :
      /\ subroutines[f].numTimesDeclare = 0 <=> Declarations(f) = {}
      /\ subroutines[f].numTimesDefined # 0 => \E j \in Declarations(f) : program[j].body

\* The calls and declarations RefWalk has let pass.
SeenOK ==
  pass \in {"RefWalk", "accepted"} =>
    \A i \in 1 .. at - 1 :
      /\ program[i].kind = "call" => Declarations(program[i].subroutine) # {}
      /\ program[i].kind = "subroutine" =>
           \E j \in Declarations(program[i].subroutine) : program[j].body

\* A typedef is not yet resolved, is a type of the language, or is one of a
\* typedef that is.
Resolvable(t) ==
  \/ typeSymbols[t] \in {builtIn, unset}
  \/ typeSymbols[t] \in DOMAIN typeSymbols /\ typeSymbols[typeSymbols[t]] = builtIn

IsTypedef(i) == program[i].kind = "typedef"
TypedefName(i) == program[i].names[1]

TypedefsOK ==
  /\ DOMAIN typeSymbols \subseteq Typedefs
  /\ \A t \in DOMAIN typeSymbols : Resolvable(t)
  /\ pass = "DefWalk" => \A t \in DOMAIN typeSymbols : typeSymbols[t] = unset
  /\ Walking =>
       \A i \in DOMAIN program : IsTypedef(i) =>
         /\ TypedefName(i) \in DOMAIN typeSymbols
         /\ i >= at => typeSymbols[TypedefName(i)] = unset
         /\ \A j \in DOMAIN program : IsTypedef(j) /\ j # i => TypedefName(j) # TypedefName(i)

IdentifiersOK ==
  /\ identifiers \in Seq(Numberings)
  /\ \A i \in 1 .. Len(identifiers) : \A k \in DOMAIN identifiers[i] :
       identifiers[i][k] \in 1 .. Len(scopes)
  /\ Walking => Len(identifiers) = Len(program)
  /\ named \subseteq SymbolIds
  /\ resolved \in Seq(Resolutions) /\ Len(resolved) = at - 1
  /\ \A i \in 1 .. Len(resolved) : \A k \in DOMAIN resolved[i] :
       resolved[i][k] \in SymbolIds \cup {nullptr}

(***************************************************************************)
(* Each body has a scope of its own, m of it; body 0 is the top level.     *)
(* The scope a body is left for is the one of the body around it, and a    *)
(* scope is marked for what became of its body.                            *)
(***************************************************************************)
Bodies == {0} \cup {i \in DOMAIN program : HasBody(program[i])}
Innermost == IF open = <<>> THEN 0 ELSE Last(open)
IsOpen(i) == \E k \in 1 .. Len(open) : open[k] = i
BodyAround(o, k) == IF k = 1 THEN 0 ELSE o[k - 1]

\* The scope around the one of a body.
ScopeOutside(ss, s, kind) ==
  LET outer == ss[s].enclosingScope
  IN  IF kind \in {"iterator", "subroutine"} THEN ss[outer].enclosingScope ELSE outer

Closed(s, kinds, m) ==
  \E i \in Bodies \ {0} : ~IsOpen(i) /\ program[i].kind \in kinds /\ m[i] = s

Placed(m) ==
  /\ m \in [Bodies -> 1 .. Len(scopes)] /\ m[0] = 1
  /\ \A i, j \in Bodies : m[i] = m[j] => i = j
  /\ currentScope = m[Innermost]
  /\ \A k \in 1 .. Len(open) :
       /\ scopes[m[open[k]]].enclosingScope # 0
       /\ ScopeOutside(scopes, m[open[k]], program[open[k]].kind) = m[BodyAround(open, k)]

Marks(m) ==
  /\ \A s \in 1 .. Len(scopes) :
       /\ scopes[s].parentIsLoop <=> Closed(s, {"loop", "iterator"}, m)
       /\ scopes[s].parentIsConditional <=> Closed(s, {"conditional"}, m)
       /\ scopes[s].containReturn <=> \E j \in NodesOf({"return"}) : m[Body(j)] = s
  /\ \A j \in NodesOf({"return"}) : Body(j) \in Bodies
  /\ \A i \in Bodies : \A n \in DOMAIN scopes[m[i]].symbols :
       i # 0 => program[scopes[m[i]].symbols[n][1]].kind = "var"

BodiesOK == pass = "DefWalk" => \E m : Placed(m) /\ Marks(m)

\* All of the invariant but subroutines and typedefs.
Rest == TextOK /\ StackOK /\ ScopesOK /\ SeenOK /\ IdentifiersOK /\ BodiesOK /\ MarksFollowNesting

IInv == Rest /\ SubroutinesOK /\ CountersOK /\ TypedefsOK

(***************************************************************************)
(* One more node is read.                                                  *)
(***************************************************************************)
Reads(node) == program \in Seq(Nodes) /\ node \in Nodes /\ program' = Append(program, node)

LEMMA TextGrows ==
  ASSUME NEW node, Reads(node)
  PROVE  /\ Len(program) \in Nat /\ This = Len(program) + 1
         /\ program' \in Seq(Nodes) /\ Len(program') = This /\ program'[This] = node
         /\ DOMAIN program = 1 .. Len(program) /\ DOMAIN program' = DOMAIN program \cup {This}
         /\ This \notin DOMAIN program
         /\ \A i \in DOMAIN program : program'[i] = program[i] /\ program[i] \in Nodes
<1>1. program \in Seq(Nodes) /\ node \in Nodes /\ program' = Append(program, node)
  BY DEF Reads
<1> QED  BY <1>1, AppendFacts DEF This

LEMMA SymbolsGrow ==
  ASSUME NEW node, Reads(node)
  PROVE  /\ SymbolIds \subseteq SymbolIds'
         /\ \A k \in DOMAIN node.names : <<This, k>> \in SymbolIds'
         /\ SymbolIds' \subseteq Nat \X Nat
         /\ \A sym \in SymbolIds :
              sym \in (DOMAIN program) \X Nat /\ program'[sym[1]] = program[sym[1]]
<1> USE TextGrows
<1>1. SymbolIds \subseteq SymbolIds'
  BY DEF SymbolIds
<1>2. ASSUME NEW k \in DOMAIN node.names PROVE <<This, k>> \in SymbolIds'
  BY DEF SymbolIds
<1>3. \A i \in DOMAIN program' : DOMAIN program'[i].names \subseteq Nat /\ i \in Nat
  <2>1. \A i \in DOMAIN program' : program'[i] \in Nodes
    BY DEF Reads
  <2>2. \A x \in Nodes : x.names \in Seq(Names \cup Typedefs)
    BY DEF Nodes
  <2> QED  BY <2>1, <2>2
<1>4. SymbolIds' \subseteq Nat \X Nat
  BY <1>3 DEF SymbolIds
<1>5. ASSUME NEW sym \in SymbolIds
      PROVE  sym \in (DOMAIN program) \X Nat /\ program'[sym[1]] = program[sym[1]]
  <2>1. PICK i \in DOMAIN program : sym \in {i} \X DOMAIN program[i].names
    BY DEF SymbolIds
  <2>2. DOMAIN program[i].names \subseteq Nat
    BY <1>3
  <2>3. sym \in {i} \X Nat
    BY <2>1, <2>2
  <2> QED  BY <2>3
<1> QED  BY <1>1, <1>2, <1>4, <1>5

LEMMA DepthGrows ==
  ASSUME NEW node, Reads(node)
  PROVE  /\ \A i \in 1 .. This : Depth'[i] = Depth[i] /\ Depth[i] \in Int
         /\ Depth'[This + 1] = After(node, Depth[This])
<1>1. program \in Seq(Nodes) /\ node \in Nodes /\ program' = Append(program, node) /\ Len(program) \in Nat
  BY DEF Reads
<1>2. /\ \A i \in 1 .. Len(program) + 1 : Depths(program')[i] = Depths(program)[i]
      /\ Depths(program')[Len(program) + 2] = After(node, Depths(program)[Len(program) + 1])
  BY <1>1, DepthsGrow
<1>3. \A i \in 1 .. Len(program) + 1 : Depths(program)[i] \in Int
  BY <1>1, DepthsType
<1>4. This = Len(program) + 1 /\ This + 1 = Len(program) + 2
  BY <1>1 DEF This
<1> QED  BY <1>2, <1>3, <1>4 DEF Depth

LEMMA BodiesGrow ==
  ASSUME NEW node, Reads(node)
  PROVE  /\ Bodies' = Bodies \cup (IF HasBody(node) THEN {This} ELSE {})
         /\ Bodies \subseteq 0 .. Len(program) /\ This \notin Bodies /\ 0 \in Bodies
         /\ \A i \in 1 .. This : Enclosing(i)' = Enclosing(i) /\ Body(i)' = Body(i)
         /\ \A kinds : NodesOf(kinds)' = NodesOf(kinds) \cup (IF node.kind \in kinds THEN {This} ELSE {})
         /\ \A f : Declarations(f)' = Declarations(f) \cup
                     (IF node.kind = "subroutine" /\ node.subroutine = f THEN {This} ELSE {})
<1> USE TextGrows
<1>1. Bodies' = Bodies \cup (IF HasBody(node) THEN {This} ELSE {})
  BY DEF Bodies, HasBody
<1>2. Bodies \subseteq 0 .. Len(program) /\ This \notin Bodies /\ 0 \in Bodies
  BY DEF Bodies
<1>3. ASSUME NEW i \in 1 .. This
      PROVE  Enclosing(i)' = Enclosing(i) /\ Body(i)' = Body(i)
  <2>1. \A j \in 1 .. (i - 1) : j \in 1 .. This /\ j + 1 \in 1 .. This /\ \A k \in (j + 1) .. i : k \in 1 .. This
    OBVIOUS
  <2>2. \A k \in 1 .. This : Depth'[k] = Depth[k]
    BY DepthGrows
  <2>3. Enclosing(i)' = Enclosing(i)
    BY <2>1, <2>2 DEF Enclosing
  <2> QED  BY <2>3 DEF Body
<1>4. \A kinds : NodesOf(kinds)' = NodesOf(kinds) \cup (IF node.kind \in kinds THEN {This} ELSE {})
  BY DEF NodesOf
<1>5. \A f : Declarations(f)' = Declarations(f) \cup
                     (IF node.kind = "subroutine" /\ node.subroutine = f THEN {This} ELSE {})
  BY DEF Declarations
<1> QED  BY <1>1, <1>2, <1>3, <1>4, <1>5

(***************************************************************************)
(* What a node leaves as it is.                                            *)
(***************************************************************************)
\* A node that has a subroutine's name has the name of one.
SubroutineNamed(node) == node.kind \in {"subroutine", "call"} => node.subroutine \in Subroutines

LEMMA TextStep ==
  ASSUME TextOK, NEW node, Reads(node), SubroutineNamed(node), Len(program) < shape[all],
         UNCHANGED <<shape, at>>, at = 1, open' \in Seq(DOMAIN program'),
         pass' \in {"DefWalk", "rejected"}, hasMainProcedure' \in BOOLEAN
  PROVE  TextOK'
<1> USE TextGrows
<1>1. shape[all] \in Nat
  BY BoundsAssumption DEF TextOK
<1>2. Len(program') <= shape'[all] /\ at' \in 1 .. Len(program') + 1
  BY <1>1 DEF TextOK
<1> QED  BY <1>2 DEF TextOK, SubroutineNamed

LEMMA OpenKept ==
  ASSUME TextOK, NEW node, Reads(node)
  PROVE  open \in Seq(DOMAIN program')
<1> USE TextGrows
<1>1. open \in Seq(DOMAIN program) /\ DOMAIN program \subseteq DOMAIN program'
  BY DEF TextOK
<1> QED  BY <1>1

LEMMA ScopesKept ==
  ASSUME ScopesOK, NEW node, Reads(node), UNCHANGED <<scopes, currentScope>>
  PROVE  ScopesOK'
BY SymbolsGrow DEF ScopesOK

\* Scopes are only ever added, and stay where they are.
Extended ==
  /\ Len(scopes) \in Nat /\ Len(scopes') \in Nat /\ Len(scopes) <= Len(scopes')
  /\ \A s \in 1 .. Len(scopes) : scopes'[s].enclosingScope = scopes[s].enclosingScope

LEMMA Unextended ==
  ASSUME ScopesOK, UNCHANGED scopes
  PROVE  Extended
BY DEF ScopesOK, Extended

LEMMA WiderSequence ==
  ASSUME NEW S, NEW T, S \subseteq T, NEW s \in Seq(S)
  PROVE  s \in Seq(T)
OBVIOUS

LEMMA SubroutinesKept ==
  ASSUME SubroutinesOK, NEW node, Reads(node), Extended, UNCHANGED subroutines,
         pass' = "DefWalk" => pass = "DefWalk"
  PROVE  SubroutinesOK'
<1>1. ASSUME NEW f \in Subroutines
      PROVE  /\ subroutines'[f].scope \in 0 .. Len(scopes')
             /\ subroutines'[f].scope # 0 => scopes'[subroutines'[f].scope].enclosingScope = 1
             /\ subroutines'[f].orderedArgs \in Seq(SymbolIds')
  <2>1. SymbolIds \subseteq SymbolIds'
    BY SymbolsGrow
  <2>2. subroutines[f].orderedArgs \in Seq(SymbolIds')
    <3> HIDE DEF SymbolIds
    <3> QED  BY <2>1, WiderSequence DEF SubroutinesOK
  <2> QED  BY <2>2 DEF SubroutinesOK, Extended
<1> QED  BY <1>1 DEF SubroutinesOK

LEMMA CountersKept ==
  ASSUME CountersOK, NEW node, Reads(node), node.kind # "subroutine", Walking,
         UNCHANGED <<subroutines, pass>>
  PROVE  CountersOK'
<1>1. ASSUME NEW f \in Subroutines PROVE Declarations(f)' = Declarations(f)
  <2>1. Declarations(f)' = Declarations(f) \cup
          (IF node.kind = "subroutine" /\ node.subroutine = f THEN {This} ELSE {})
    BY BodiesGrow
  <2> HIDE DEF Declarations
  <2> QED  BY <2>1
<1>2. \A f : \A j \in Declarations(f) : program'[j] = program[j]
  BY TextGrows DEF Declarations
<1> QED  BY <1>1, <1>2 DEF CountersOK, Walking

LEMMA TypedefsKept ==
  ASSUME TypedefsOK, NEW node, Reads(node), node.kind # "typedef", pass = "DefWalk",
         UNCHANGED <<typeSymbols, pass, at>>
  PROVE  TypedefsOK'
<1> USE TextGrows
<1>1. \A i \in DOMAIN program' : IsTypedef(i)' =>
        i \in DOMAIN program /\ IsTypedef(i) /\ TypedefName(i)' = TypedefName(i)
  BY DEF IsTypedef, TypedefName
<1>2. \A t \in DOMAIN typeSymbols : Resolvable(t)' = Resolvable(t)
  BY DEF Resolvable
<1> HIDE DEF IsTypedef, TypedefName, Resolvable
<1> QED  BY <1>1, <1>2 DEF TypedefsOK, Walking

LEMMA IdentifiersStep ==
  ASSUME IdentifiersOK, NEW node, Reads(node), Walking, pass' = pass,
         Extended, UNCHANGED <<at, named, resolved>>,
         NEW x \in Numberings, \A k \in DOMAIN x : x[k] \in 1 .. Len(scopes'),
         identifiers' = Append(identifiers, x)
  PROVE  IdentifiersOK'
<1>1. /\ identifiers' \in Seq(Numberings) /\ Len(identifiers') = Len(identifiers) + 1
      /\ Len(identifiers) \in Nat /\ identifiers'[Len(identifiers) + 1] = x
      /\ \A i \in 1 .. Len(identifiers) : identifiers'[i] = identifiers[i]
  BY AppendFacts DEF IdentifiersOK
<1>2. ASSUME NEW i \in 1 .. Len(identifiers'), NEW k \in DOMAIN identifiers'[i]
      PROVE  identifiers'[i][k] \in 1 .. Len(scopes')
  BY <1>1 DEF IdentifiersOK, Extended
<1>3. SymbolIds \subseteq SymbolIds'
  BY SymbolsGrow
<1>4. Len(identifiers') = Len(program')
  BY <1>1, TextGrows DEF IdentifiersOK, Walking
<1> HIDE DEF SymbolIds
<1> QED  BY <1>1, <1>2, <1>3, <1>4 DEF IdentifiersOK

LEMMA EmptyNumbering == NoIdentifiers \in Numberings /\ DOMAIN NoIdentifiers = {}
<1>1. NoIdentifiers = [k \in {} |-> 0]
  BY DEF NoIdentifiers
<1>2. [k \in {} |-> 0] \in [{} -> Nat]
  OBVIOUS
<1> QED  BY <1>1, <1>2 DEF Numberings

LEMMA EmptyTable == nullptr \in SymbolTable /\ DOMAIN nullptr = {}
<1>1. nullptr = [n \in {} |-> <<0, 0>>]
  BY DEF nullptr
<1>2. [n \in {} |-> <<0, 0>>] \in [{} -> Nat \X Nat]
  OBVIOUS
<1> QED  BY <1>1, <1>2 DEF SymbolTable


(***************************************************************************)
(* The stack of open nodes.                                                *)
(***************************************************************************)
\* The text before this node is as it was.
Grew ==
  /\ Len(program) \in Nat /\ This = Len(program) + 1 /\ Len(program') = This
  /\ DOMAIN program = 1 .. Len(program) /\ DOMAIN program' = 1 .. This
  /\ \A i \in 1 .. Len(program) : program'[i] = program[i]
  /\ \A i \in 1 .. This : Depth'[i] = Depth[i] /\ Depth[i] \in Int

LEMMA Growing ==
  ASSUME NEW node, Reads(node)
  PROVE  /\ Grew /\ program'[This] = node
         /\ Depth'[This + 1] = After(node, Depth[This])
<1>1. /\ Len(program) \in Nat /\ This = Len(program) + 1
      /\ Len(program') = This /\ program'[This] = node
      /\ DOMAIN program = 1 .. Len(program) /\ DOMAIN program' = DOMAIN program \cup {This}
      /\ \A i \in DOMAIN program : program'[i] = program[i]
  BY TextGrows
<1>2. /\ \A i \in 1 .. This : Depth'[i] = Depth[i] /\ Depth[i] \in Int
      /\ Depth'[This + 1] = After(node, Depth[This])
  BY DepthGrows
<1> QED  BY <1>1, <1>2 DEF Grew

\* The nodes around this one are around the next, if they are left open.
LEMMA StillAround ==
  ASSUME Grew, open \in Seq(DOMAIN program), Around(This),
         NEW k \in 1 .. Len(open), Depth'[This + 1] \in Int, Depth'[This + 1] >= k
  PROVE  /\ open[k] < This + 1 /\ HasBody(program'[open[k]])
         /\ Depth'[open[k]] = k - 1
         /\ \A j \in open[k] + 1 .. This + 1 : Depth'[j] >= k
<1>1. /\ open[k] < This /\ HasBody(program[open[k]]) /\ Depth[open[k]] = k - 1
      /\ \A j \in open[k] + 1 .. This : Depth[j] >= k
  BY DEF Around
<1>2. open[k] \in 1 .. Len(program)
  BY ElementOfSeq DEF Grew
<1>3. ASSUME NEW j \in open[k] + 1 .. This + 1 PROVE Depth'[j] >= k
  <2>1. j = This + 1 \/ (j \in open[k] + 1 .. This /\ j \in 1 .. This)
    BY <1>2 DEF Grew
  <2> QED  BY <1>1, <2>1 DEF Grew
<1>4. open[k] \in 1 .. This
  BY <1>2 DEF Grew
<1> QED  BY <1>1, <1>2, <1>3, <1>4 DEF Grew

LEMMA StackPlain ==
  ASSUME TextOK, StackOK, NEW node, Reads(node), pass = "DefWalk", UNCHANGED <<pass, open>>,
         ~HasBody(node), node.kind # "close"
  PROVE  StackOK'
<1>1. Grew /\ Depth'[This + 1] = Depth[This] /\ open \in Seq(DOMAIN program)
  BY Growing DEF After, TextOK
<1>2. Around(This) /\ \A i \in 1 .. This : Depth[i] >= 0
  BY <1>1 DEF StackOK, Walking, Grew
<1>3. Len(open) = Depth[This] /\ This \in 1 .. This /\ Depth[This] \in Int
  BY <1>1, <1>2 DEF Around, Grew
<1>4. ASSUME NEW k \in 1 .. Len(open)
      PROVE  /\ open[k] < This + 1 /\ HasBody(program'[open[k]])
             /\ Depth'[open[k]] = k - 1
             /\ \A j \in open[k] + 1 .. This + 1 : Depth'[j] >= k
  <2>1. Depth'[This + 1] \in Int /\ Depth'[This + 1] >= k
    BY <1>1, <1>3
  <2> QED  BY <1>1, <1>2, <2>1, StillAround
<1>5. ASSUME NEW i \in 1 .. This + 1 PROVE Depth'[i] >= 0
  <2>1. i = This + 1 \/ i \in 1 .. This
    BY <1>1 DEF Grew
  <2> QED  BY <1>1, <1>2, <1>3, <2>1 DEF Grew
<1>6. Around(Len(program) + 1)'
  BY <1>1, <1>3, <1>4 DEF Around, Grew
<1> QED  BY <1>1, <1>5, <1>6 DEF StackOK, Walking, Grew

LEMMA StackOpens ==
  ASSUME TextOK, StackOK, NEW node, Reads(node), pass = "DefWalk", UNCHANGED pass,
         HasBody(node), open' = Append(open, This)
  PROVE  StackOK' /\ open' \in Seq(DOMAIN program')
<1>1. Grew /\ Depth'[This + 1] = Depth[This] + 1 /\ open \in Seq(DOMAIN program) /\ program'[This] = node
  BY Growing DEF After, TextOK
<1>2. Around(This) /\ \A i \in 1 .. This : Depth[i] >= 0
  BY <1>1 DEF StackOK, Walking, Grew
<1>3. /\ Len(open) = Depth[This] /\ This \in 1 .. This /\ Depth[This] \in Int
      /\ This \in DOMAIN program' /\ Depth'[This] = Depth[This]
  BY <1>1, <1>2 DEF Around, Grew
<1>4. /\ open' \in Seq(DOMAIN program') /\ Len(open') = Len(open) + 1 /\ open'[Len(open) + 1] = This
      /\ \A k \in 1 .. Len(open) : open'[k] = open[k]
      /\ Len(open) \in Nat
  <2>1. open \in Seq(DOMAIN program')
    BY OpenKept
  <2> QED  BY <1>3, <2>1, AppendFacts
<1>5. ASSUME NEW k \in 1 .. Len(open')
      PROVE  /\ open'[k] < This + 1 /\ HasBody(program'[open'[k]])
             /\ Depth'[open'[k]] = k - 1
             /\ \A j \in open'[k] + 1 .. This + 1 : Depth'[j] >= k
  <2>1. CASE k = Len(open) + 1
    <3>1. \A j \in This + 1 .. This + 1 : j = This + 1
      BY <1>1 DEF Grew
    <3> QED  BY <1>1, <1>3, <1>4, <2>1, <3>1 DEF Grew
  <2>2. CASE k # Len(open) + 1
    <3>1. k \in 1 .. Len(open) /\ open'[k] = open[k]
      BY <1>4, <2>2
    <3>2. Depth'[This + 1] \in Int /\ Depth'[This + 1] >= k
      BY <1>1, <1>3, <3>1
    <3>3. /\ open[k] < This + 1 /\ HasBody(program'[open[k]])
          /\ Depth'[open[k]] = k - 1
          /\ \A j \in open[k] + 1 .. This + 1 : Depth'[j] >= k
      BY <1>1, <1>2, <3>1, <3>2, StillAround
    <3> QED  BY <3>1, <3>3
  <2> QED  BY <2>1, <2>2
<1>6. ASSUME NEW i \in 1 .. This + 1 PROVE Depth'[i] >= 0
  <2>1. i = This + 1 \/ i \in 1 .. This
    BY <1>1 DEF Grew
  <2>2. Depth'[This + 1] >= 0
    BY <1>1, <1>3
  <2> QED  BY <1>1, <1>2, <2>1, <2>2 DEF Grew
<1>7. Around(Len(program) + 1)'
  BY <1>1, <1>3, <1>4, <1>5 DEF Around, Grew
<1> QED  BY <1>1, <1>4, <1>6, <1>7 DEF StackOK, Walking, Grew

LEMMA StackCloses ==
  ASSUME TextOK, StackOK, NEW node, Reads(node), pass = "DefWalk", UNCHANGED pass,
         node.kind = "close", open # <<>>, open' = Front(open)
  PROVE  StackOK' /\ open' \in Seq(DOMAIN program')
<1>1. Grew /\ Depth'[This + 1] = Depth[This] - 1 /\ open \in Seq(DOMAIN program)
  <2>1. ~HasBody(node)
    BY DEF HasBody, Openers
  <2> QED  BY <2>1, Growing DEF After, TextOK
<1>2. Around(This) /\ \A i \in 1 .. This : Depth[i] >= 0
  BY <1>1 DEF StackOK, Walking, Grew
<1>3. Len(open) = Depth[This] /\ This \in 1 .. This /\ Depth[This] \in Int
  BY <1>1, <1>2 DEF Around, Grew
<1>4. /\ open' \in Seq(DOMAIN program') /\ Len(open') = Len(open) - 1
      /\ \A k \in 1 .. Len(open) - 1 : open'[k] = open[k]
      /\ Len(open) \in Nat \ {0}
  <2>1. open \in Seq(DOMAIN program')
    BY OpenKept
  <2> QED  BY <2>1, FrontFacts
<1>5. ASSUME NEW k \in 1 .. Len(open')
      PROVE  /\ open'[k] < This + 1 /\ HasBody(program'[open'[k]])
             /\ Depth'[open'[k]] = k - 1
             /\ \A j \in open'[k] + 1 .. This + 1 : Depth'[j] >= k
  <2>1. k \in 1 .. Len(open) /\ k <= Len(open) - 1 /\ open'[k] = open[k]
    BY <1>4
  <2>2. Depth'[This + 1] \in Int /\ Depth'[This + 1] >= k
    BY <1>1, <1>3, <2>1
  <2>3. /\ open[k] < This + 1 /\ HasBody(program'[open[k]])
        /\ Depth'[open[k]] = k - 1
        /\ \A j \in open[k] + 1 .. This + 1 : Depth'[j] >= k
    BY <1>1, <1>2, <2>1, <2>2, StillAround
  <2> QED  BY <2>1, <2>3
<1>6. ASSUME NEW i \in 1 .. This + 1 PROVE Depth'[i] >= 0
  <2>1. i = This + 1 \/ i \in 1 .. This
    BY <1>1 DEF Grew
  <2>2. Depth'[This + 1] >= 0
    BY <1>1, <1>3, <1>4
  <2> QED  BY <1>1, <1>2, <2>1, <2>2 DEF Grew
<1>7. Around(Len(program) + 1)'
  BY <1>1, <1>3, <1>4, <1>5 DEF Around, Grew
<1> QED  BY <1>1, <1>4, <1>6, <1>7 DEF StackOK, Walking, Grew

(***************************************************************************)
(* The scopes of bodies.                                                   *)
(***************************************************************************)
LEMMA OpenBodies ==
  ASSUME TextOK, NEW i, Around(i)
  PROVE  /\ \A k \in 1 .. Len(open) : open[k] \in Bodies \ {0} /\ open[k] \in DOMAIN program
         /\ \A k \in 1 .. Len(open) : BodyAround(open, k) \in Bodies
         /\ Innermost \in Bodies
         /\ open # <<>> => Len(open) \in 1 .. Len(open) /\ Innermost = open[Len(open)]
         /\ \A k, l \in 1 .. Len(open) : open[k] = open[l] => k = l
<1>1. open \in Seq(DOMAIN program) /\ program \in Seq(Nodes)
  BY DEF TextOK
<1>2. ASSUME NEW k \in 1 .. Len(open) PROVE open[k] \in Bodies \ {0} /\ open[k] \in DOMAIN program
  <2>1. open[k] \in DOMAIN program /\ open[k] # 0
    BY <1>1, ElementOfSeq
  <2> QED  BY <2>1 DEF Around, Bodies
<1>3. ASSUME NEW k \in 1 .. Len(open) PROVE BodyAround(open, k) \in Bodies
  <2>1. CASE k = 1
    BY <2>1 DEF BodyAround, Bodies
  <2>2. CASE k # 1
    <3>1. k - 1 \in 1 .. Len(open)
      BY <1>1, <2>2
    <3> QED  BY <1>2, <2>2, <3>1 DEF BodyAround
  <2> QED  BY <2>1, <2>2
<1>4. open # <<>> => Len(open) \in 1 .. Len(open) /\ Innermost = open[Len(open)]
  BY <1>1 DEF Innermost, Last
<1>5. Innermost \in Bodies
  <2>1. CASE open = <<>>
    BY <2>1 DEF Innermost, Bodies
  <2>2. CASE open # <<>>
    BY <1>2, <1>4, <2>2
  <2> QED  BY <2>1, <2>2
<1>6. \A k, l \in 1 .. Len(open) : open[k] = open[l] => k = l
  <2>1. \A k \in 1 .. Len(open) : Depth[open[k]] = k - 1 /\ k \in Int
    BY DEF Around
  <2>2. ASSUME NEW k \in 1 .. Len(open), NEW l \in 1 .. Len(open), open[k] = open[l]
        PROVE  k = l
    <3>1. k - 1 = l - 1 /\ k \in Int /\ l \in Int
      BY <2>1, <2>2
    <3> QED  BY ONLY <3>1
  <2> QED  BY <2>2
<1> QED  BY <1>2, <1>3, <1>4, <1>5, <1>6

LEMMA PlacedPlain ==
  ASSUME TextOK, ScopesOK, Around(This), NEW node, Reads(node), ~HasBody(node),
         Extended, UNCHANGED <<open, currentScope>>, NEW m, Placed(m)
  PROVE  Placed(m)'
<1>1. Bodies' = Bodies
  BY BodiesGrow
<1>2. m \in [Bodies -> 1 .. Len(scopes)]
  BY DEF Placed
<1>3. m \in [Bodies' -> 1 .. Len(scopes')]
  BY <1>1, <1>2 DEF Extended
<1>4. ASSUME NEW k \in 1 .. Len(open)
      PROVE  /\ scopes'[m[open[k]]].enclosingScope # 0
             /\ ScopeOutside(scopes', m[open[k]], program[open[k]].kind) = m[BodyAround(open, k)]'
             /\ program'[open[k]] = program[open[k]]
  <2>1. m[open[k]] \in 1 .. Len(scopes) /\ program'[open[k]] = program[open[k]]
    <3>1. open[k] \in Bodies /\ open[k] \in DOMAIN program
      BY OpenBodies
    <3> QED  BY <1>2, <3>1, TextGrows
  <2>2. scopes[m[open[k]]].enclosingScope \in 1 .. Len(scopes)
    BY <2>1 DEF Placed, ScopesOK
  <2>3. /\ scopes'[m[open[k]]].enclosingScope = scopes[m[open[k]]].enclosingScope
        /\ scopes'[scopes[m[open[k]]].enclosingScope].enclosingScope
             = scopes[scopes[m[open[k]]].enclosingScope].enclosingScope
    BY <2>1, <2>2 DEF Extended
  <2> QED  BY <2>1, <2>2, <2>3 DEF Placed, ScopeOutside, BodyAround
<1> QED  BY <1>1, <1>3, <1>4 DEF Placed, Innermost, ScopeOutside, BodyAround

LEMMA PlacedOpens ==
  ASSUME TextOK, ScopesOK, Around(This), NEW node, Reads(node), HasBody(node),
         Extended, open' = Append(open, This), NEW m, Placed(m),
         NEW c \in Len(scopes) + 1 .. Len(scopes'), currentScope' = c,
         scopes'[c].enclosingScope # 0, ScopeOutside(scopes', c, node.kind) = currentScope,
         NEW n, n = [i \in Bodies' |-> IF i = This THEN c ELSE m[i]]
  PROVE  Placed(n)'
<1>1. /\ Bodies' = Bodies \cup {This} /\ This \notin Bodies /\ 0 \in Bodies
      /\ This # 0
  BY BodiesGrow
<1>2. m \in [Bodies -> 1 .. Len(scopes)]
  BY DEF Placed
<1>3. /\ n \in [Bodies' -> 1 .. Len(scopes')] /\ n[This] = c
      /\ \A i \in Bodies : n[i] = m[i]
  BY <1>1, <1>2 DEF Extended
<1>4. /\ Len(open) \in Nat /\ Len(open') = Len(open) + 1 /\ open'[Len(open) + 1] = This
      /\ \A k \in 1 .. Len(open) : open'[k] = open[k]
  BY AppendFacts DEF TextOK
<1>5. \A i, j \in Bodies' : n[i] = n[j] => i = j
  <2>1. \A i \in Bodies : m[i] # c
    BY <1>2 DEF Extended
  <2> QED  BY <1>1, <1>3, <2>1 DEF Placed
<1>6. Innermost' = This
  BY <1>4 DEF Innermost, Last
<1>7. ASSUME NEW k \in 1 .. Len(open')
      PROVE  /\ scopes'[n[open'[k]]].enclosingScope # 0
             /\ ScopeOutside(scopes', n[open'[k]], program'[open'[k]].kind) = n[BodyAround(open', k)]
  <2>1. CASE k = Len(open) + 1
    <3>1. n[open'[k]] = c /\ program'[open'[k]] = node
      BY <1>3, <1>4, <2>1, TextGrows
    <3>2. BodyAround(open', k) = Innermost /\ Innermost \in Bodies
      <4>1. open = <<>> <=> Len(open) = 0
        BY DEF TextOK
      <4>2. (k = 1 <=> Len(open) = 0) /\ k - 1 = Len(open)
        BY <1>4, <2>1
      <4>3. Len(open) # 0 => open'[Len(open)] = open[Len(open)]
        BY <1>4
      <4>4. BodyAround(open', k) = IF k = 1 THEN 0 ELSE open'[Len(open)]
        BY <4>2 DEF BodyAround
      <4>5. Innermost = IF open = <<>> THEN 0 ELSE open[Len(open)]
        BY DEF Innermost, Last
      <4> QED  BY <4>1, <4>2, <4>3, <4>4, <4>5, OpenBodies
    <3>3. n[BodyAround(open', k)] = currentScope
      BY <1>3, <3>2 DEF Placed
    <3> QED  BY <3>1, <3>3
  <2>2. CASE k # Len(open) + 1
    <3>1. k \in 1 .. Len(open) /\ open'[k] = open[k]
      BY <1>4, <2>2
    <3>2. /\ open[k] \in Bodies /\ program'[open[k]] = program[open[k]]
          /\ BodyAround(open, k) \in Bodies
      BY <3>1, OpenBodies, TextGrows
    <3>3. BodyAround(open', k) = BodyAround(open, k)
      <4>1. k # 1 => k - 1 \in 1 .. Len(open)
        BY <1>4, <3>1
      <4> QED  BY <1>4, <4>1 DEF BodyAround
    <3>4. /\ m[open[k]] \in 1 .. Len(scopes) /\ n[open[k]] = m[open[k]]
          /\ n[BodyAround(open, k)] = m[BodyAround(open, k)]
      BY <1>2, <1>3, <3>2
    <3>5. /\ scopes[m[open[k]]].enclosingScope \in 1 .. Len(scopes)
          /\ ScopeOutside(scopes, m[open[k]], program[open[k]].kind) = m[BodyAround(open, k)]
      <4>1. scopes[m[open[k]]].enclosingScope \in 0 .. m[open[k]] - 1
        BY <3>4 DEF ScopesOK
      <4>2. /\ scopes[m[open[k]]].enclosingScope # 0
            /\ ScopeOutside(scopes, m[open[k]], program[open[k]].kind) = m[BodyAround(open, k)]
        BY <3>1 DEF Placed
      <4> QED  BY <3>4, <4>1, <4>2
    <3>6. /\ scopes'[m[open[k]]].enclosingScope = scopes[m[open[k]]].enclosingScope
          /\ scopes'[scopes[m[open[k]]].enclosingScope].enclosingScope
               = scopes[scopes[m[open[k]]].enclosingScope].enclosingScope
      BY <3>4, <3>5 DEF Extended
    <3>7. ScopeOutside(scopes', n[open[k]], program'[open[k]].kind) = ScopeOutside(scopes, m[open[k]], program[open[k]].kind)
      BY <3>2, <3>4, <3>6 DEF ScopeOutside
    <3> QED  BY <3>1, <3>3, <3>4, <3>5, <3>6, <3>7
  <2> QED  BY <2>1, <2>2
<1>8. n[0] = 1
  BY <1>1, <1>3 DEF Placed
<1> QED  BY <1>3, <1>5, <1>6, <1>7, <1>8 DEF Placed, ScopeOutside, BodyAround

LEMMA PlacedCloses ==
  ASSUME TextOK, ScopesOK, Around(This), NEW node, Reads(node), ~HasBody(node),
         Extended, open # <<>>, open' = Front(open), NEW m, Placed(m),
         currentScope' = ScopeOutside(scopes, currentScope, program[Last(open)].kind)
  PROVE  Placed(m)'
<1>1. Bodies' = Bodies
  BY BodiesGrow
<1>2. m \in [Bodies -> 1 .. Len(scopes)]
  BY DEF Placed
<1>3. m \in [Bodies' -> 1 .. Len(scopes')]
  BY <1>1, <1>2 DEF Extended
<1>4. /\ Len(open) \in Nat \ {0} /\ Len(open') = Len(open) - 1 /\ Last(open) = open[Len(open)]
      /\ \A k \in 1 .. Len(open) - 1 : open'[k] = open[k]
      /\ open' \in Seq(DOMAIN program)
  BY FrontFacts DEF TextOK
<1>5. currentScope' = m[Innermost']
  <2>1. currentScope = m[open[Len(open)]]
    BY <1>4 DEF Placed, Innermost
  <2>2. currentScope' = m[BodyAround(open, Len(open))]
    BY <1>4, <2>1 DEF Placed
  <2>3. Innermost' = BodyAround(open, Len(open))
    <3>1. open' = <<>> <=> Len(open) = 1
      BY <1>4
    <3>2. Len(open) # 1 => Len(open) - 1 \in 1 .. Len(open) - 1
      BY <1>4
    <3> QED  BY <1>4, <3>1, <3>2 DEF Innermost, BodyAround, Last
  <2> QED  BY <2>2, <2>3
<1>6. ASSUME NEW k \in 1 .. Len(open')
      PROVE  /\ scopes'[m[open'[k]]].enclosingScope # 0
             /\ ScopeOutside(scopes', m[open'[k]], program'[open'[k]].kind) = m[BodyAround(open', k)]
  <2>1. k \in 1 .. Len(open) /\ open'[k] = open[k]
    BY <1>4
  <2>2. BodyAround(open', k) = BodyAround(open, k)
    <3>1. k # 1 => k - 1 \in 1 .. Len(open) - 1
      BY <1>4
    <3> QED  BY <1>4, <3>1 DEF BodyAround
  <2>3. m[open[k]] \in 1 .. Len(scopes) /\ program'[open[k]] = program[open[k]]
    <3>1. open[k] \in Bodies /\ open[k] \in DOMAIN program
      BY <2>1, OpenBodies
    <3> QED  BY <1>2, <3>1, TextGrows
  <2>4. /\ scopes[m[open[k]]].enclosingScope \in 1 .. Len(scopes)
        /\ ScopeOutside(scopes, m[open[k]], program[open[k]].kind) = m[BodyAround(open, k)]
    BY <2>1, <2>3 DEF Placed, ScopesOK
  <2>5. /\ scopes'[m[open[k]]].enclosingScope = scopes[m[open[k]]].enclosingScope
        /\ scopes'[scopes[m[open[k]]].enclosingScope].enclosingScope
             = scopes[scopes[m[open[k]]].enclosingScope].enclosingScope
    BY <2>3, <2>4 DEF Extended
  <2>6. ScopeOutside(scopes', m[open[k]], program'[open[k]].kind) = ScopeOutside(scopes, m[open[k]], program[open[k]].kind)
    BY <2>3, <2>5 DEF ScopeOutside
  <2> QED  BY <2>1, <2>2, <2>3, <2>4, <2>5, <2>6
<1> QED  BY <1>1, <1>3, <1>5, <1>6 DEF Placed, ScopeOutside, BodyAround

\* The body that the node now read is in is the innermost open one.
LEMMA BodyOfThis ==
  ASSUME TextOK, StackOK, pass = "DefWalk"
  PROVE  Body(This) = Innermost
<1> DEFINE n == Len(program)
           L == Len(open)
           t == open[L]
           E == Enclosing(This)
<1>1. /\ n \in Nat /\ This = n + 1 /\ DOMAIN program = 1 .. n
      /\ \A i \in 1 .. n + 1 : Depth[i] \in Int
      /\ \A i \in 1 .. n : Depth[i + 1] = After(program[i], Depth[i])
      /\ L \in Nat /\ (open = <<>> <=> L = 0)
  BY DepthsType, DepthsUnfold DEF TextOK, This, Depth
<1>2. Around(This) /\ L = Depth[This] /\ \A i \in 1 .. n + 1 : Depth[i] >= 0
  BY <1>1 DEF StackOK, Walking, Around
<1>3. E = {j \in 1 .. n : Depth[j + 1] > Depth[j] /\ \A k \in (j + 1) .. This : Depth[k] > Depth[j]}
  BY <1>1 DEF Enclosing
<1>4. ASSUME NEW j \in E PROVE j \in 1 .. n /\ Depth[j] < L
  <2>1. This \in (j + 1) .. This
    BY <1>1, <1>3
  <2> QED  BY <1>2, <1>3, <2>1
<1>5. CASE open = <<>>
  <2>1. E = {}
    <3>1. \A j \in 1 .. n : ~(Depth[j] < L)
      BY <1>1, <1>2, <1>5
    <3> HIDE DEF E
    <3> QED  BY <1>4, <3>1
  <2> QED  BY <1>5, <2>1 DEF Body, Innermost
<1>6. CASE open # <<>>
  <2>1. L \in 1 .. L /\ Innermost = t /\ t \in DOMAIN program
    BY <1>2, <1>6, OpenBodies
  <2>2. /\ t < This /\ HasBody(program[t]) /\ Depth[t] = L - 1
        /\ \A j \in t + 1 .. This : Depth[j] >= L
    BY <1>2, <2>1 DEF Around
  <2>3. t \in 1 .. n /\ Depth[t + 1] = L
    BY <1>1, <2>1, <2>2 DEF After
  <2> HIDE DEF t, L, n
  <2>4. t \in E
    <3>1. Depth[t + 1] > Depth[t] /\ t \in 1 .. n
      BY <1>1, <1>2, <2>2, <2>3
    <3>2. \A k \in t + 1 .. This : Depth[k] > Depth[t]
      <4>1. \A k \in t + 1 .. This : k \in 1 .. n + 1
        BY <1>1, <2>3
      <4> QED  BY <1>1, <2>2, <2>3, <4>1
    <3> HIDE DEF E
    <3> QED  BY <1>3, <3>1, <3>2
  <2>5. ASSUME NEW j \in E PROVE j <= t
    <3>1. j \in t + 1 .. This => FALSE
      <4>1. j \in 1 .. n + 1
        BY <1>1, <1>4
      <4> QED  BY <1>1, <1>4, <2>2, <4>1
    <3> QED  BY <1>1, <1>4, <2>3, <3>1
  <2>6. E \in SUBSET (0 .. n) /\ E # {}
    <3> HIDE DEF E
    <3> QED  BY <1>4, <2>4
  <2>7. Max(E) \in E /\ t <= Max(E)
    <3> HIDE DEF E
    <3> QED  BY <1>1, <2>4, <2>6, Extremes
  <2>8. Max(E) = t
    <3> HIDE DEF E
    <3>1. Max(E) <= t /\ Max(E) \in 1 .. n
      BY <1>4, <2>5, <2>7
    <3> QED  BY <1>1, <2>3, <2>7, <3>1
  <2> QED  BY <2>1, <2>6, <2>8 DEF Body
<1> QED  BY <1>5, <1>6

(***************************************************************************)
(* The marks of scopes.                                                    *)
(***************************************************************************)
SameMarks(s) ==
  /\ scopes'[s].parentIsLoop = scopes[s].parentIsLoop
  /\ scopes'[s].parentIsConditional = scopes[s].parentIsConditional

SameReturn(s) == scopes'[s].containReturn = scopes[s].containReturn

Unmarked(scope) == ~scope.parentIsLoop /\ ~scope.parentIsConditional /\ ~scope.containReturn

\* A table gains at most the variable that the node declares.
SameTable(s, node) ==
  \A n \in DOMAIN scopes'[s].symbols :
    \/ n \in DOMAIN scopes[s].symbols /\ scopes'[s].symbols[n] = scopes[s].symbols[n]
    \/ node.kind = "var" /\ scopes'[s].symbols[n][1] = This

\* A body that does not become closed here is closed if it was.
LEMMA ClosedKept ==
  ASSUME TextOK, NEW node, Reads(node), NEW m, NEW n, NEW s, NEW kinds,
         \A i \in Bodies : n[i] = m[i],
         \A i \in Bodies' \ {0} : IsOpen(i)' <=> IsOpen(i) \/ i = This
  PROVE  Closed(s, kinds, n)' <=> Closed(s, kinds, m)
<1>1. \A i \in Bodies \ {0} : i \in Bodies' \ {0} /\ i # This /\ program'[i] = program[i]
  BY BodiesGrow, TextGrows DEF Bodies
<1>2. \A i \in Bodies' \ {0} : i \in Bodies \ {0} \/ (HasBody(node) /\ i = This)
  BY BodiesGrow
<1>3. \A i \in Bodies \ {0} : IsOpen(i)' <=> IsOpen(i)
  BY <1>1
<1>4. Closed(s, kinds, m) => Closed(s, kinds, n)'
  BY <1>1, <1>3 DEF Closed
<1>5. ASSUME Closed(s, kinds, n)' PROVE Closed(s, kinds, m)
  <2>1. PICK i \in Bodies' \ {0} : ~IsOpen(i)' /\ program'[i].kind \in kinds /\ n[i] = s
    BY <1>5 DEF Closed
  <2>2. i \in Bodies \ {0}
    BY <1>2, <2>1
  <2> QED  BY <1>1, <1>3, <2>1, <2>2 DEF Closed
<1> QED  BY <1>4, <1>5

\* What is known of the scopes before the node, and of those after it.
Returned(s, m) == \E j \in NodesOf({"return"}) : m[Body(j)] = s

LEMMA ReturnedKept ==
  ASSUME NEW node, Reads(node), NEW m, NEW n, NEW s, Marks(m),
         \A i \in Bodies : n[i] = m[i]
  PROVE  /\ node.kind # "return" => (Returned(s, n)' <=> Returned(s, m))
         /\ node.kind = "return" => (Returned(s, n)' <=> Returned(s, m) \/ n[Body(This)] = s)
         /\ \A j \in NodesOf({"return"}) : j \in DOMAIN program /\ Body(j) \in Bodies
<1>1. /\ NodesOf({"return"})' = NodesOf({"return"}) \cup (IF node.kind \in {"return"} THEN {This} ELSE {})
      /\ \A i \in 1 .. This : Body(i)' = Body(i)
  BY BodiesGrow
<1>2. /\ \A j \in NodesOf({"return"}) : j \in 1 .. This /\ Body(j) \in Bodies /\ j \in DOMAIN program
      /\ This \in 1 .. This
  BY TextGrows DEF NodesOf, Marks
<1> HIDE DEF NodesOf, Body
<1>3. \A j \in NodesOf({"return"}) : n[Body(j)] = m[Body(j)] /\ Body(j)' = Body(j)
  BY <1>1, <1>2
<1> QED  BY <1>1, <1>2, <1>3 DEF Returned

LEMMA MarksGrow ==
  ASSUME TextOK, StackOK, ScopesOK, pass = "DefWalk", NEW node, Reads(node), Extended,
         NEW m, Placed(m), Marks(m), NEW n, Placed(n)',
         \A i \in Bodies : n[i] = m[i],
         \A i \in Bodies' \ {0} : IsOpen(i)' <=> IsOpen(i) \/ i = This,
         \A s \in 1 .. Len(scopes) :
           /\ SameMarks(s) /\ SameTable(s, node)
           /\ IF node.kind = "return" /\ s = currentScope THEN scopes'[s].containReturn ELSE SameReturn(s),
         \A s \in Len(scopes) + 1 .. Len(scopes') : Unmarked(scopes'[s]),
         HasBody(node) => \A x \in DOMAIN scopes'[n[This]].symbols : FALSE
  PROVE  Marks(n)'
<1>0. /\ Bodies' = Bodies \cup (IF HasBody(node) THEN {This} ELSE {})
      /\ NodesOf({"return"})' = NodesOf({"return"}) \cup (IF node.kind \in {"return"} THEN {This} ELSE {})
      /\ \A i \in 1 .. This : Body(i)' = Body(i)
  BY BodiesGrow
<1>1. Body(This) = Innermost /\ Innermost \in Bodies /\ m[Innermost] = currentScope
  <2>1. Around(This)
    BY TextGrows DEF StackOK
  <2> QED  BY <2>1, BodyOfThis, OpenBodies DEF Placed
<1>2. /\ m \in [Bodies -> 1 .. Len(scopes)]
      /\ Len(scopes) \in Nat /\ Len(scopes') \in Nat /\ Len(scopes) <= Len(scopes')
  BY DEF Placed, Extended
<1>3. ASSUME NEW s \in 1 .. Len(scopes'), NEW kinds
      PROVE  /\ Closed(s, kinds, n)' <=> Closed(s, kinds, m)
             /\ s \notin 1 .. Len(scopes) => ~Closed(s, kinds, m) /\ ~Returned(s, m)
  <2>1. Closed(s, kinds, n)' <=> Closed(s, kinds, m)
    BY ClosedKept
  <2>2. \A i \in Bodies : m[i] \in 1 .. Len(scopes)
    BY <1>2
  <2> QED  BY <2>1, <2>2, ReturnedKept DEF Closed, Returned
<1>4. ASSUME NEW s \in 1 .. Len(scopes')
      PROVE  /\ scopes'[s].parentIsLoop <=> Closed(s, {"loop", "iterator"}, n)'
             /\ scopes'[s].parentIsConditional <=> Closed(s, {"conditional"}, n)'
             /\ scopes'[s].containReturn <=> Returned(s, n)'
  <2>1. CASE s \in 1 .. Len(scopes)
    <3>1. /\ scopes[s].parentIsLoop <=> Closed(s, {"loop", "iterator"}, m)
          /\ scopes[s].parentIsConditional <=> Closed(s, {"conditional"}, m)
          /\ scopes[s].containReturn <=> Returned(s, m)
      BY <2>1 DEF Marks, Returned
    <3>2. /\ node.kind # "return" => (Returned(s, n)' <=> Returned(s, m))
          /\ node.kind = "return" => (Returned(s, n)' <=> Returned(s, m) \/ n[Body(This)] = s)
      BY ReturnedKept
    <3>3. n[Body(This)] = currentScope
      BY <1>1
    <3>4. SameMarks(s) /\ IF node.kind = "return" /\ s = currentScope THEN scopes'[s].containReturn ELSE SameReturn(s)
      BY <2>1
    <3> HIDE DEF Returned
    <3> QED  BY <1>3, <3>1, <3>2, <3>3, <3>4 DEF SameMarks, SameReturn
  <2>2. CASE s \notin 1 .. Len(scopes)
    <3>1. s \in Len(scopes) + 1 .. Len(scopes')
      BY <1>2, <2>2
    <3>2. Unmarked(scopes'[s])
      BY <3>1
    <3>3. ~Closed(s, {"loop", "iterator"}, n)' /\ ~Closed(s, {"conditional"}, n)'
      BY <1>3, <2>2
    <3>4. ~Returned(s, n)'
      <4>1. ~Returned(s, m)
        BY <1>3, <2>2
      <4>2. n[Body(This)] # s
        BY <1>1, <1>2, <2>2
      <4> HIDE DEF Returned
      <4> QED  BY <4>1, <4>2, ReturnedKept
    <3> QED  BY <3>2, <3>3, <3>4 DEF Unmarked
  <2> QED  BY <2>1, <2>2
<1>5. \A j \in NodesOf({"return"})' : Body(j)' \in Bodies'
  <2>1. \A j \in NodesOf({"return"}) : j \in DOMAIN program /\ Body(j) \in Bodies
    BY ReturnedKept
  <2>2. /\ \A j \in DOMAIN program : j \in 1 .. This
        /\ This \in 1 .. This
    BY TextGrows
  <2> HIDE DEF NodesOf, Body
  <2> QED  BY <1>0, <1>1, <2>1, <2>2
<1>6. ASSUME NEW i \in Bodies', NEW x \in DOMAIN scopes'[n[i]].symbols, i # 0
      PROVE  program'[scopes'[n[i]].symbols[x][1]].kind = "var"
  <2>1. CASE i \in Bodies
    <3>1. n[i] = m[i] /\ m[i] \in 1 .. Len(scopes)
      BY <1>2, <2>1
    <3>2. CASE x \in DOMAIN scopes[m[i]].symbols /\ scopes'[m[i]].symbols[x] = scopes[m[i]].symbols[x]
      <4>1. scopes[m[i]].symbols[x] \in SymbolIds /\ program[scopes[m[i]].symbols[x][1]].kind = "var"
        BY <1>6, <2>1, <3>1, <3>2 DEF Marks, ScopesOK
      <4>2. program'[scopes[m[i]].symbols[x][1]] = program[scopes[m[i]].symbols[x][1]]
        BY <4>1, SymbolsGrow
      <4> QED  BY <3>1, <3>2, <4>1, <4>2
    <3>3. CASE node.kind = "var" /\ scopes'[m[i]].symbols[x][1] = This
      BY <3>1, <3>3, TextGrows
    <3>4. SameTable(m[i], node)
      BY <3>1
    <3> QED  BY <3>1, <3>2, <3>3, <3>4 DEF SameTable
  <2>2. CASE i \notin Bodies
    <3>1. i = This /\ HasBody(node)
      BY <1>0, <2>2
    <3> QED  BY <3>1
  <2> QED  BY <2>1, <2>2
<1> QED  BY <1>4, <1>5, <1>6 DEF Marks, Returned

\* The innermost open body becomes closed, and its scope is marked.
LEMMA MarksClose ==
  ASSUME TextOK, StackOK, ScopesOK, pass = "DefWalk", NEW node, Reads(node), Extended,
         node.kind = "close", ~HasBody(node), open # <<>>, open' = Front(open),
         Len(scopes') = Len(scopes), NEW m, Placed(m), Marks(m), Placed(m)',
         NEW kind, kind = program[Last(open)].kind,
         \A s \in 1 .. Len(scopes) :
           /\ scopes'[s].parentIsLoop
                <=> scopes[s].parentIsLoop \/ (s = currentScope /\ kind \in {"loop", "iterator"})
           /\ scopes'[s].parentIsConditional
                <=> scopes[s].parentIsConditional \/ (s = currentScope /\ kind \in {"conditional"})
           /\ SameReturn(s) /\ SameTable(s, node)
  PROVE  Marks(m)'
<1>0. /\ Bodies' = Bodies
      /\ NodesOf({"return"})' = NodesOf({"return"}) \cup (IF node.kind \in {"return"} THEN {This} ELSE {})
      /\ \A i \in 1 .. This : Body(i)' = Body(i)
  BY BodiesGrow
<1> DEFINE t == Last(open)
<1>1. Around(This)
  BY TextGrows DEF StackOK
<1>2. t \in Bodies \ {0} /\ Innermost = t /\ m[t] = currentScope
  <2>1. Len(open) \in 1 .. Len(open) /\ Innermost = open[Len(open)] /\ t = open[Len(open)]
    BY <1>1, OpenBodies DEF Last
  <2>2. open[Len(open)] \in Bodies \ {0}
    BY <1>1, <2>1, OpenBodies
  <2> QED  BY <2>1, <2>2 DEF Placed
<1>3. ASSUME NEW i \in Bodies PROVE IsOpen(i)' <=> IsOpen(i) /\ i # t
  <2>1. /\ Len(open) \in Nat \ {0} /\ Len(open') = Len(open) - 1 /\ t = open[Len(open)]
        /\ \A k \in 1 .. Len(open) - 1 : open'[k] = open[k]
    <3>1. open \in Seq(DOMAIN program)
      BY DEF TextOK
    <3> QED  BY <3>1, FrontFacts
  <2>2. \A k \in 1 .. Len(open) : k \in 1 .. Len(open) - 1 \/ k = Len(open)
    BY <2>1
  <2>3. \A k \in 1 .. Len(open) - 1 : k \in 1 .. Len(open) /\ open[k] # t
    <3>1. \A k \in 1 .. Len(open) - 1 : k \in 1 .. Len(open) /\ k # Len(open)
      BY <2>1
    <3>2. \A k, l \in 1 .. Len(open) : open[k] = open[l] => k = l
      BY <1>1, OpenBodies
    <3>3. Len(open) \in 1 .. Len(open)
      BY <2>1
    <3> QED  BY <2>1, <3>1, <3>2, <3>3
  <2>4. IsOpen(i)' <=> \E k \in 1 .. Len(open) - 1 : open[k] = i
    BY <2>1 DEF IsOpen
  <2>5. IsOpen(i) <=> (i = t \/ \E k \in 1 .. Len(open) - 1 : open[k] = i)
    <3>1. Len(open) \in 1 .. Len(open)
      BY <2>1
    <3> HIDE DEF t
    <3> QED  BY <2>1, <2>2, <2>3, <3>1 DEF IsOpen
  <2>6. i = t => ~\E k \in 1 .. Len(open) - 1 : open[k] = i
    BY <2>3
  <2> HIDE DEF IsOpen, t
  <2> QED  BY <2>4, <2>5, <2>6
<1>4. \A i \in Bodies \ {0} : program'[i] = program[i]
  BY TextGrows DEF Bodies
<1>5. IsOpen(t)
  <2>1. Len(open) \in 1 .. Len(open) /\ t = open[Len(open)]
    BY <1>1, OpenBodies DEF Last
  <2> QED  BY <2>1 DEF IsOpen
<1>6. ASSUME NEW s \in 1 .. Len(scopes), NEW kinds
      PROVE  Closed(s, kinds, m)' <=> Closed(s, kinds, m) \/ (s = currentScope /\ kind \in kinds)
  <2> HIDE DEF t, IsOpen, Bodies
  <2>1. Closed(s, kinds, m)' <=>
          \E i \in Bodies \ {0} : ~(IsOpen(i) /\ i # t) /\ program[i].kind \in kinds /\ m[i] = s
    BY <1>0, <1>3, <1>4 DEF Closed
  <2>2. kind = program[t].kind
    BY DEF t
  <2> QED  BY <1>2, <1>5, <2>1, <2>2 DEF Closed
<1>7. ASSUME NEW s \in 1 .. Len(scopes)
      PROVE  Returned(s, m)' <=> Returned(s, m)
  BY ReturnedKept
<1>8. ASSUME NEW s \in 1 .. Len(scopes')
      PROVE  /\ scopes'[s].parentIsLoop <=> Closed(s, {"loop", "iterator"}, m)'
             /\ scopes'[s].parentIsConditional <=> Closed(s, {"conditional"}, m)'
             /\ scopes'[s].containReturn <=> Returned(s, m)'
  <2>1. s \in 1 .. Len(scopes)
    OBVIOUS
  <2>2. /\ scopes[s].parentIsLoop <=> Closed(s, {"loop", "iterator"}, m)
        /\ scopes[s].parentIsConditional <=> Closed(s, {"conditional"}, m)
        /\ scopes[s].containReturn <=> Returned(s, m)
    BY <2>1 DEF Marks, Returned
  <2> HIDE DEF Returned, Closed
  <2> QED  BY <1>6, <1>7, <2>1, <2>2 DEF SameReturn
<1>9. \A j \in NodesOf({"return"})' : Body(j)' \in Bodies'
  <2>1. \A j \in NodesOf({"return"}) : j \in DOMAIN program /\ Body(j) \in Bodies
    BY ReturnedKept
  <2>2. \A j \in DOMAIN program : j \in 1 .. This
    BY TextGrows
  <2> HIDE DEF NodesOf, Body
  <2> QED  BY <1>0, <2>1, <2>2
<1>10. ASSUME NEW i \in Bodies', NEW x \in DOMAIN scopes'[m[i]].symbols, i # 0
       PROVE  program'[scopes'[m[i]].symbols[x][1]].kind = "var"
  <2>1. i \in Bodies /\ m[i] \in 1 .. Len(scopes)
    BY <1>0 DEF Placed
  <2>2. x \in DOMAIN scopes[m[i]].symbols /\ scopes'[m[i]].symbols[x] = scopes[m[i]].symbols[x]
    BY <2>1 DEF SameTable
  <2>3. scopes[m[i]].symbols[x] \in SymbolIds /\ program[scopes[m[i]].symbols[x][1]].kind = "var"
    BY <1>10, <2>1, <2>2 DEF Marks, ScopesOK
  <2> QED  BY <2>2, <2>3, SymbolsGrow
<1> QED  BY <1>8, <1>9, <1>10 DEF Marks, Returned

(***************************************************************************)
(* Once every body is left, the marks of the scopes follow the nesting of  *)
(* the program.                                                            *)
(***************************************************************************)
LEMMA ImageSize ==
  ASSUME NEW S, IsFiniteSet(S), NEW m, \A i, j \in S : m[i] = m[j] => i = j,
         NEW T, \A x : x \in T <=> \E i \in S : m[i] = x
  PROVE  Cardinality(T) = Cardinality(S)
<1> DEFINE f == [i \in S |-> m[i]]
<1>1. f \in [S -> T]
  OBVIOUS
<1>2. f \in Surjection(S, T)
  <2>1. \A x \in T : \E i \in S : f[i] = x
    OBVIOUS
  <2> QED  BY <1>1, <2>1 DEF Surjection
<1>3. f \in Injection(S, T)
  <2>1. \A i, j \in S : f[i] = f[j] => i = j
    OBVIOUS
  <2> QED  BY <1>1, <2>1 DEF Injection, IsInjective
<1> HIDE DEF f
<1> QED  BY <1>2, <1>3, FS_Surjection

LEMMA NestingMarked ==
  ASSUME TextOK, ScopesOK, NEW m, Placed(m), Marks(m), open = <<>>
  PROVE  /\ Cardinality(NodesOf({"loop", "iterator"})) = Cardinality(LoopBlocks)
         /\ \A s \in LoopBlocks : \A n \in DOMAIN scopes[s].symbols :
              program[scopes[s].symbols[n][1]].kind = "var"
         /\ Cardinality(NodesOf({"conditional"})) = Cardinality(ConditionalBlocks)
         /\ Cardinality({Body(i) : i \in NodesOf({"return"})}) = Cardinality(ReturningBlocks)
<1>1. /\ m \in [Bodies -> 1 .. Len(scopes)]
      /\ \A i, j \in Bodies : m[i] = m[j] => i = j
  BY DEF Placed
<1>2. IsFiniteSet(Bodies)
  <2>1. program \in Seq(Nodes) /\ Len(program) \in Nat /\ DOMAIN program = 1 .. Len(program)
    BY DEF TextOK
  <2>2. IsFiniteSet(0 .. Len(program))
    BY <2>1, FS_Interval
  <2>3. Bodies \in SUBSET (0 .. Len(program))
    BY <2>1 DEF Bodies
  <2> HIDE DEF Bodies
  <2> QED  BY <2>2, <2>3, FS_Subset
<1>3. \A i : ~IsOpen(i)
  BY DEF IsOpen
<1>4. ASSUME NEW kinds, "subroutine" \notin kinds, kinds \subseteq Openers
      PROVE  /\ NodesOf(kinds) \subseteq Bodies \ {0}
             /\ \A s : Closed(s, kinds, m) <=> \E i \in NodesOf(kinds) : m[i] = s
  <2>1. NodesOf(kinds) = {i \in Bodies \ {0} : program[i].kind \in kinds}
    <3>1. DOMAIN program \subseteq Nat \ {0}
      BY DEF TextOK
    <3> QED  BY <1>4, <3>1 DEF NodesOf, Bodies, HasBody
  <2> HIDE DEF Bodies, NodesOf, IsOpen
  <2> QED  BY <1>3, <2>1 DEF Closed
<1>5. ASSUME NEW kinds, "subroutine" \notin kinds, kinds \subseteq Openers,
             NEW S, S = {s \in 1 .. Len(scopes) : Closed(s, kinds, m)}
      PROVE  Cardinality(NodesOf(kinds)) = Cardinality(S)
  <2>1. NodesOf(kinds) \subseteq Bodies /\ IsFiniteSet(NodesOf(kinds))
    <3>1. NodesOf(kinds) \in SUBSET Bodies
      BY <1>4, <1>5
    <3> HIDE DEF Bodies, NodesOf
    <3> QED  BY <1>2, <3>1, FS_Subset
  <2>2. \A x : x \in S <=> \E i \in NodesOf(kinds) : m[i] = x
    <3>1. \A i \in NodesOf(kinds) : m[i] \in 1 .. Len(scopes)
      BY <1>1, <2>1
    <3> HIDE DEF Bodies, NodesOf, Closed
    <3> QED  BY <1>4, <1>5, <3>1
  <2>3. \A i, j \in NodesOf(kinds) : m[i] = m[j] => i = j
    BY <1>1, <2>1
  <2> HIDE DEF Bodies, NodesOf, Closed
  <2> QED  BY <2>1, <2>2, <2>3, ImageSize
<1>6. DOMAIN scopes = 1 .. Len(scopes) /\ "subroutine" \notin {"loop", "iterator"}
      /\ "subroutine" \notin {"conditional"} /\ {"loop", "iterator"} \subseteq Openers
      /\ {"conditional"} \subseteq Openers
  BY DEF Openers, ScopesOK
<1>7. /\ LoopBlocks = {s \in 1 .. Len(scopes) : Closed(s, {"loop", "iterator"}, m)}
      /\ ConditionalBlocks = {s \in 1 .. Len(scopes) : Closed(s, {"conditional"}, m)}
      /\ ReturningBlocks = {s \in 1 .. Len(scopes) : Returned(s, m)}
  <2> HIDE DEF Closed, Returned
  <2>1. \A s \in 1 .. Len(scopes) :
          /\ scopes[s].parentIsLoop <=> Closed(s, {"loop", "iterator"}, m)
          /\ scopes[s].parentIsConditional <=> Closed(s, {"conditional"}, m)
          /\ scopes[s].containReturn <=> Returned(s, m)
    BY DEF Marks, Returned
  <2> QED  BY <1>6, <2>1 DEF LoopBlocks, ConditionalBlocks, ReturningBlocks
<1>8. Cardinality(NodesOf({"loop", "iterator"})) = Cardinality(LoopBlocks)
  BY <1>5, <1>6, <1>7
<1>9. Cardinality(NodesOf({"conditional"})) = Cardinality(ConditionalBlocks)
  BY <1>5, <1>6, <1>7
<1>10. Cardinality({Body(i) : i \in NodesOf({"return"})}) = Cardinality(ReturningBlocks)
  <2> DEFINE S == {Body(i) : i \in NodesOf({"return"})}
  <2>1. S \in SUBSET Bodies
    BY DEF Marks
  <2>2. IsFiniteSet(S)
    <3> HIDE DEF S, Bodies
    <3> QED  BY <1>2, <2>1, FS_Subset
  <2>3. \A s : Returned(s, m) <=> \E b \in S : m[b] = s
    BY DEF Returned
  <2>4. \A x : x \in ReturningBlocks <=> \E b \in S : m[b] = x
    <3> HIDE DEF S, Returned
    <3>1. \A b \in S : m[b] \in 1 .. Len(scopes)
      BY <1>1, <2>1
    <3> QED  BY <1>7, <2>3, <3>1
  <2>5. \A i, j \in S : m[i] = m[j] => i = j
    <3> HIDE DEF S
    <3> QED  BY <1>1, <2>1
  <2> HIDE DEF S
  <2>6. Cardinality(S) = Cardinality(ReturningBlocks)
    BY <2>2, <2>4, <2>5, ImageSize
  <2> QED  BY <2>6 DEF S
<1>11. ASSUME NEW s \in LoopBlocks, NEW n \in DOMAIN scopes[s].symbols
       PROVE  program[scopes[s].symbols[n][1]].kind = "var"
  <2>1. PICK i \in Bodies \ {0} : m[i] = s
    BY <1>7 DEF Closed
  <2> QED  BY <2>1 DEF Marks
<1> QED  BY <1>8, <1>9, <1>10, <1>11

(***************************************************************************)
(* The steps of DefWalk that let a node pass: what they have in common.    *)
(***************************************************************************)
Passes(node) ==
  /\ Reads(node) /\ SubroutineNamed(node) /\ Len(program) < shape[all]
  /\ pass = "DefWalk" /\ pass' = pass
  /\ UNCHANGED <<shape, at, named, resolved>> /\ hasMainProcedure' \in BOOLEAN
  /\ Extended /\ ScopesOK'
  /\ \E x \in Numberings :
       /\ \A k \in DOMAIN x : x[k] \in 1 .. Len(scopes')
       /\ identifiers' = Append(identifiers, x)

MarksLittle(node) ==
  /\ \A s \in 1 .. Len(scopes) :
       /\ SameMarks(s) /\ SameTable(s, node)
       /\ IF node.kind = "return" /\ s = currentScope THEN scopes'[s].containReturn ELSE SameReturn(s)
  /\ \A s \in Len(scopes) + 1 .. Len(scopes') : Unmarked(scopes'[s])

LEMMA PassesRest ==
  ASSUME Rest, NEW node, Passes(node), open' \in Seq(DOMAIN program'), StackOK', BodiesOK'
  PROVE  Rest'
<1>1. at = 1 /\ pass' = "DefWalk"
  BY DEF Rest, TextOK, Passes
<1>2. TextOK'
  BY <1>1, TextStep DEF Rest, Passes
<1>3. IdentifiersOK'
  <2>1. PICK x \in Numberings :
          /\ \A k \in DOMAIN x : x[k] \in 1 .. Len(scopes')
          /\ identifiers' = Append(identifiers, x)
    BY DEF Passes
  <2>2. /\ IdentifiersOK /\ Reads(node) /\ Walking /\ pass' = pass /\ Extended
        /\ UNCHANGED <<at, named, resolved>>
    BY DEF Passes, Rest, Walking
  <2> QED  BY <2>1, <2>2, IdentifiersStep
<1>4. SeenOK' /\ MarksFollowNesting'
  BY <1>1 DEF SeenOK, MarksFollowNesting
<1> QED  BY <1>2, <1>3, <1>4 DEF Rest, Passes

LEMMA PassesPlain ==
  ASSUME Rest, NEW node, Passes(node), MarksLittle(node), ~HasBody(node), node.kind # "close",
         UNCHANGED <<open, currentScope>>
  PROVE  Rest'
<1>1. /\ Reads(node) /\ pass = "DefWalk" /\ UNCHANGED <<pass, open>> /\ Extended
      /\ TextOK /\ StackOK /\ ScopesOK
  BY DEF Passes, Rest
<1>2. open' \in Seq(DOMAIN program')
  BY <1>1, OpenKept
<1>3. StackOK'
  BY <1>1, StackPlain
<1>4. Around(This)
  BY <1>1, TextGrows DEF StackOK
<1>5. PICK m : Placed(m) /\ Marks(m)
  BY <1>1 DEF Rest, BodiesOK
<1>6. Placed(m)'
  BY <1>1, <1>4, <1>5, PlacedPlain
<1>7. \A i \in Bodies' \ {0} : IsOpen(i)' <=> IsOpen(i) \/ i = This
  BY <1>1, BodiesGrow DEF IsOpen
<1>8. Marks(m)'
  BY <1>1, <1>5, <1>6, <1>7, MarksGrow DEF MarksLittle
<1>9. BodiesOK'
  BY <1>6, <1>8 DEF BodiesOK
<1> QED  BY <1>2, <1>3, <1>9, PassesRest

LEMMA PassesOpens ==
  ASSUME Rest, NEW node, Passes(node), MarksLittle(node), HasBody(node),
         node.kind # "return", open' = Append(open, This),
         NEW c \in Len(scopes) + 1 .. Len(scopes'), currentScope' = c,
         scopes'[c].enclosingScope # 0, ScopeOutside(scopes', c, node.kind) = currentScope,
         \A x \in DOMAIN scopes'[c].symbols : FALSE
  PROVE  Rest'
<1>1. /\ Reads(node) /\ pass = "DefWalk" /\ UNCHANGED pass /\ Extended
      /\ TextOK /\ StackOK /\ ScopesOK
  BY DEF Passes, Rest
<1>2. StackOK' /\ open' \in Seq(DOMAIN program')
  BY <1>1, StackOpens
<1>3. Around(This)
  BY <1>1, TextGrows DEF StackOK
<1>4. PICK m : Placed(m) /\ Marks(m)
  BY <1>1 DEF Rest, BodiesOK
<1>5. PICK n : n = [i \in Bodies' |-> IF i = This THEN c ELSE m[i]]
  OBVIOUS
<1>6. Placed(n)'
  BY <1>1, <1>3, <1>4, <1>5, PlacedOpens
<1>7. /\ Bodies' = Bodies \cup {This} /\ This \notin Bodies
      /\ n[This] = c /\ \A i \in Bodies : n[i] = m[i]
  BY <1>1, <1>5, BodiesGrow
<1>8. \A i \in Bodies' \ {0} : IsOpen(i)' <=> IsOpen(i) \/ i = This
  <2>1. /\ Len(open) \in Nat /\ Len(open') = Len(open) + 1 /\ open'[Len(open) + 1] = This
        /\ \A k \in 1 .. Len(open) : open'[k] = open[k]
    BY <1>1, AppendFacts DEF TextOK
  <2>2. /\ \A k \in 1 .. Len(open') : k \in 1 .. Len(open) \/ k = Len(open) + 1
        /\ \A k \in 1 .. Len(open) : k \in 1 .. Len(open')
        /\ Len(open) + 1 \in 1 .. Len(open')
    BY <2>1
  <2> HIDE DEF Bodies
  <2> QED  BY <2>1, <2>2 DEF IsOpen
<1>9. Marks(n)'
  <2>1. HasBody(node) => \A x \in DOMAIN scopes'[n[This]].symbols : FALSE
    BY <1>7
  <2> QED  BY <1>1, <1>4, <1>6, <1>7, <1>8, <2>1, MarksGrow DEF MarksLittle
<1>10. BodiesOK'
  BY <1>6, <1>9 DEF BodiesOK
<1> QED  BY <1>2, <1>10, PassesRest

LEMMA PassesCloses ==
  ASSUME Rest, NEW node, Passes(node), node.kind = "close", open # <<>>, open' = Front(open),
         Len(scopes') = Len(scopes),
         NEW kind, kind = program[Last(open)].kind,
         currentScope' = ScopeOutside(scopes, currentScope, kind),
         \A s \in 1 .. Len(scopes) :
           /\ scopes'[s].parentIsLoop
                <=> scopes[s].parentIsLoop \/ (s = currentScope /\ kind \in {"loop", "iterator"})
           /\ scopes'[s].parentIsConditional
                <=> scopes[s].parentIsConditional \/ (s = currentScope /\ kind \in {"conditional"})
           /\ SameReturn(s) /\ SameTable(s, node)
  PROVE  Rest'
<1>1. /\ Reads(node) /\ pass = "DefWalk" /\ UNCHANGED pass /\ Extended
      /\ TextOK /\ StackOK /\ ScopesOK /\ ~HasBody(node)
  BY DEF Passes, Rest, HasBody, Openers
<1>2. StackOK' /\ open' \in Seq(DOMAIN program')
  BY <1>1, StackCloses
<1>3. Around(This)
  BY <1>1, TextGrows DEF StackOK
<1>4. PICK m : Placed(m) /\ Marks(m)
  BY <1>1 DEF Rest, BodiesOK
<1>5. Placed(m)'
  BY <1>1, <1>3, <1>4, PlacedCloses
<1>6. Marks(m)'
  BY <1>1, <1>4, <1>5, MarksClose
<1>7. BodiesOK'
  BY <1>5, <1>6 DEF BodiesOK
<1> QED  BY <1>2, <1>7, PassesRest

(***************************************************************************)
(* Changes to the scopes.                                                  *)
(***************************************************************************)
\* Scope r differs from scope q in its table alone.
SameButTable(r, q) ==
  /\ r.enclosingScope = q.enclosingScope /\ r.subroutine = q.subroutine
  /\ r.parentIsLoop = q.parentIsLoop /\ r.parentIsConditional = q.parentIsConditional
  /\ r.containReturn = q.containReturn

WithTable(ss, s, t) == [ss EXCEPT ![s].symbols = t]

LEMMA SetTable ==
  ASSUME NEW ss \in Seq(ScopeRecords), NEW s \in 1 .. Len(ss), NEW t \in SymbolTable,
         NEW tt, tt = WithTable(ss, s, t)
  PROVE  /\ tt \in Seq(ScopeRecords) /\ Len(tt) = Len(ss)
         /\ \A r \in 1 .. Len(ss) :
              SameButTable(tt[r], ss[r]) /\ tt[r].symbols = IF r = s THEN t ELSE ss[r].symbols
<1>1. ss[s] \in ScopeRecords
  BY ElementOfSeq
<1>2. [ss[s] EXCEPT !.symbols = t] \in ScopeRecords
  BY <1>1 DEF ScopeRecords
<1>3. tt = [ss EXCEPT ![s] = [ss[s] EXCEPT !.symbols = t]]
  BY DEF WithTable
<1>4. tt \in Seq(ScopeRecords) /\ Len(tt) = Len(ss)
  <2> HIDE DEF ScopeRecords
  <2> QED  BY <1>2, <1>3
<1>5. \A r \in 1 .. Len(ss) : tt[r] = IF r = s THEN [ss[s] EXCEPT !.symbols = t] ELSE ss[r]
  <2> HIDE DEF ScopeRecords
  <2> QED  BY <1>3
<1>6. /\ SameButTable([ss[s] EXCEPT !.symbols = t], ss[s])
      /\ [ss[s] EXCEPT !.symbols = t].symbols = t
  BY <1>1 DEF ScopeRecords, SameButTable
<1>7. \A r : SameButTable(ss[r], ss[r])
  BY DEF SameButTable
<1> QED  BY <1>4, <1>5, <1>6, <1>7

LEMMA NewScope ==
  ASSUME NEW e \in Nat, NEW f \in Subroutines \cup {noName}, NEW x, x = Scope(e, f)
  PROVE  /\ x \in ScopeRecords /\ x.enclosingScope = e /\ x.subroutine = f
         /\ x.symbols = nullptr /\ Unmarked(x) /\ \A n \in DOMAIN x.symbols : FALSE
<1>1. nullptr \in SymbolTable /\ DOMAIN nullptr = {}
  BY EmptyTable
<1>2. /\ x = [enclosingScope |-> e, subroutine |-> f, symbols |-> nullptr,
              parentIsLoop |-> FALSE, parentIsConditional |-> FALSE, containReturn |-> FALSE]
  BY DEF Scope, nullptr
<1> HIDE DEF nullptr
<1> QED  BY <1>1, <1>2 DEF ScopeRecords, Unmarked

LEMMA NewLocalScope ==
  ASSUME NEW e \in Nat, NEW x, x = LocalScope(e)
  PROVE  /\ x \in ScopeRecords /\ x.enclosingScope = e /\ x.subroutine = noName
         /\ x.symbols = nullptr /\ Unmarked(x) /\ \A n \in DOMAIN x.symbols : FALSE
<1>1. noName \in Subroutines \cup {noName} /\ x = Scope(e, noName)
  BY DEF LocalScope
<1> HIDE DEF noName
<1> QED  BY <1>1, NewScope

\* The table of a scope with one more name.
LEMMA DefineTable ==
  ASSUME NEW ss \in Seq(ScopeRecords), NEW s \in 1 .. Len(ss), NEW n \in Names,
         NEW sym \in Nat \X Nat, NEW tt, tt = Define(ss, s, n, sym)
  PROVE  /\ tt \in Seq(ScopeRecords) /\ Len(tt) = Len(ss)
         /\ \A r \in 1 .. Len(ss) : SameButTable(tt[r], ss[r])
         /\ \A r \in 1 .. Len(ss) : r # s => tt[r].symbols = ss[r].symbols
         /\ DOMAIN tt[s].symbols = DOMAIN ss[s].symbols \cup {n}
         /\ \A x \in DOMAIN tt[s].symbols :
              tt[s].symbols[x] = IF x \in DOMAIN ss[s].symbols THEN ss[s].symbols[x] ELSE sym
<1> DEFINE old == ss[s].symbols
           t == [x \in DOMAIN old \cup {n} |-> IF x \in DOMAIN old THEN old[x] ELSE sym]
<1>1. old \in SymbolTable
  <2>1. ss[s] \in ScopeRecords
    BY ElementOfSeq
  <2> QED  BY <2>1 DEF ScopeRecords
<1>2. t \in SymbolTable
  <2>1. PICK N \in SUBSET Names : old \in [N -> Nat \X Nat]
    BY <1>1 DEF SymbolTable
  <2>2. t \in [N \cup {n} -> Nat \X Nat]
    <3> HIDE DEF old
    <3> QED  BY <2>1
  <2>3. N \cup {n} \in SUBSET Names
    OBVIOUS
  <2> HIDE DEF t
  <2> QED  BY <2>2, <2>3 DEF SymbolTable
<1>3. tt = WithTable(ss, s, t)
  BY DEF Define, WithTable
<1>4. /\ DOMAIN t = DOMAIN old \cup {n}
      /\ \A x \in DOMAIN t : t[x] = IF x \in DOMAIN old THEN old[x] ELSE sym
  OBVIOUS
<1> HIDE DEF t, old
<1>5. /\ tt \in Seq(ScopeRecords) /\ Len(tt) = Len(ss)
      /\ \A r \in 1 .. Len(ss) :
           SameButTable(tt[r], ss[r]) /\ tt[r].symbols = IF r = s THEN t ELSE ss[r].symbols
  BY <1>2, <1>3, SetTable
<1> QED  BY <1>4, <1>5 DEF old

LEMMA LineFacts ==
  ASSUME TextOK
  PROVE  NextLine \in Nat /\ SomeLine \subseteq Nat
<1>1. CASE program = <<>>
  BY <1>1 DEF NextLine, SomeLine
<1>2. CASE program # <<>>
  <2>1. Last(program) \in Nodes
    BY <1>2, FrontFacts DEF TextOK
  <2>2. Last(program).line \in Nat
    BY <2>1 DEF Nodes
  <2> QED  BY <1>2, <2>2 DEF NextLine, SomeLine
<1> QED  BY <1>1, <1>2

LEMMA ReadFacts ==
  ASSUME TextOK, NEW node \in Nodes, Read(node)
  PROVE  /\ Reads(node) /\ pass = "DefWalk" /\ Len(program) < shape[all]
         /\ UNCHANGED <<shape, at, named, resolved>>
<1>1. /\ pass = "DefWalk" /\ Len(program) < shape[all] /\ program' = Append(program, node)
      /\ UNCHANGED <<shape, at, named, resolved>>
  BY DEF Read
<1> QED  BY <1>1 DEF Reads, TextOK

(***************************************************************************)
(* The compilation stops.                                                  *)
(***************************************************************************)
LEMMA Stops ==
  ASSUME IInv, pass' \in {"rejected", "crashed"},
         UNCHANGED <<shape, program, at, open, tables, named, resolved>>
  PROVE  IInv'
<1> USE DEF tables
<1>1. TextOK' /\ StackOK' /\ SeenOK' /\ BodiesOK' /\ MarksFollowNesting' /\ CountersOK'
  BY DEF IInv, Rest, TextOK, StackOK, SeenOK, BodiesOK, MarksFollowNesting, CountersOK, Walking
<1>2. SymbolIds' = SymbolIds
  BY DEF SymbolIds
<1> HIDE DEF SymbolIds
<1>3. ScopesOK' /\ SubroutinesOK'
  BY <1>2 DEF IInv, Rest, ScopesOK, SubroutinesOK
<1>4. IdentifiersOK'
  BY <1>2 DEF IInv, Rest, IdentifiersOK, Walking
<1>5. TypedefsOK'
  BY DEF IInv, TypedefsOK, Walking, Resolvable
<1> QED  BY <1>1, <1>3, <1>4, <1>5 DEF IInv, Rest

LEMMA RejectsNode ==
  ASSUME IInv, NEW node, Reads(node), SubroutineNamed(node), Len(program) < shape[all],
         pass = "DefWalk", UNCHANGED <<shape, at, named, resolved>>, Throw
  PROVE  IInv'
<1>1. /\ pass' = "rejected" /\ UNCHANGED <<open, scopes, currentScope, subroutines, typeSymbols,
                                           identifiers, hasMainProcedure>>
  BY DEF Throw, tables
<1>2. TextOK /\ ScopesOK /\ SubroutinesOK /\ at = 1
  BY DEF IInv, Rest, TextOK
<1>3. TextOK'
  <2>1. open' \in Seq(DOMAIN program') /\ hasMainProcedure' \in BOOLEAN
    BY <1>1, <1>2, OpenKept DEF TextOK
  <2>2. UNCHANGED <<shape, at>> /\ pass' \in {"DefWalk", "rejected"}
    BY <1>1
  <2> QED  BY <1>2, <2>1, <2>2, TextStep
<1>4. ScopesOK'
  BY <1>1, <1>2, ScopesKept
<1>5. SubroutinesOK'
  <2>1. Extended /\ UNCHANGED subroutines
    BY <1>1, <1>2, Unextended
  <2> QED  BY <1>1, <1>2, <2>1, SubroutinesKept
<1>6. StackOK' /\ SeenOK' /\ BodiesOK' /\ MarksFollowNesting' /\ CountersOK'
  BY <1>1 DEF StackOK, SeenOK, BodiesOK, MarksFollowNesting, CountersOK, Walking
<1>7. IdentifiersOK'
  <2>1. SymbolIds \subseteq SymbolIds'
    BY SymbolsGrow
  <2> HIDE DEF SymbolIds
  <2> QED  BY <1>1, <2>1 DEF IInv, Rest, IdentifiersOK, Walking
<1>8. TypedefsOK'
  BY <1>1 DEF IInv, TypedefsOK, Walking, Resolvable
<1> QED  BY <1>3, <1>4, <1>5, <1>6, <1>7, <1>8 DEF IInv, Rest

\* A node that is no subroutine and no typedef.
LEMMA PassesOthers ==
  ASSUME IInv, NEW node, Passes(node), Rest', node.kind \notin {"subroutine", "typedef"},
         UNCHANGED <<subroutines, typeSymbols>>
  PROVE  IInv'
<1>1. /\ Reads(node) /\ pass = "DefWalk" /\ UNCHANGED <<pass, at>> /\ Extended /\ Walking
      /\ SubroutinesOK /\ CountersOK /\ TypedefsOK
  BY DEF Passes, IInv, Walking
<1>2. SubroutinesOK'
  BY <1>1, SubroutinesKept
<1>3. CountersOK'
  BY <1>1, CountersKept
<1>4. TypedefsOK'
  BY <1>1, TypedefsKept
<1> QED  BY <1>2, <1>3, <1>4 DEF IInv

\* One that leaves the scopes as they are.
LEMMA PassesQuietly ==
  ASSUME IInv, NEW node, Reads(node), SubroutineNamed(node), Len(program) < shape[all],
         pass = "DefWalk", UNCHANGED <<shape, at, named, resolved>>,
         node.kind \in Kinds \ (Openers \cup {"close", "typedef", "return"}),
         UNCHANGED <<pass, open, scopes, currentScope, subroutines, typeSymbols, hasMainProcedure>>,
         NEW x \in Numberings, \A k \in DOMAIN x : x[k] \in 1 .. Len(scopes),
         identifiers' = Append(identifiers, x)
  PROVE  IInv'
<1>1. ScopesOK /\ TextOK /\ Rest
  BY DEF IInv, Rest
<1>2. ScopesOK' /\ Extended
  BY <1>1, ScopesKept, Unextended
<1>3. Passes(node)
  BY <1>1, <1>2 DEF Passes, TextOK
<1>4. MarksLittle(node)
  <2>1. Len(scopes) \in Nat
    BY <1>1 DEF ScopesOK
  <2> QED  BY <2>1 DEF MarksLittle, SameMarks, SameReturn, SameTable
<1>5. ~HasBody(node) /\ node.kind # "close" /\ node.kind \notin {"subroutine", "typedef"}
  BY DEF HasBody, Openers
<1>6. Rest'
  BY <1>1, <1>3, <1>4, <1>5, PassesPlain
<1> QED  BY <1>3, <1>5, <1>6, PassesOthers

(***************************************************************************)
(* DefWalk, node by node.                                                  *)
(***************************************************************************)
LEMMA UsesNumbering ==
  ASSUME NEW node, NEW s \in Nat
  PROVE  Uses(node, s) \in Numberings /\ \A k \in DOMAIN Uses(node, s) : Uses(node, s)[k] = s
<1>1. CASE node.use = noName
  BY <1>1, EmptyNumbering DEF Uses
<1>2. CASE node.use # noName
  <2>1. Uses(node, s) = [k \in {0} |-> s]
    BY <1>2 DEF Uses
  <2>2. [k \in {0} |-> s] \in [{0} -> Nat] /\ {0} \in SUBSET Nat
    OBVIOUS
  <2> QED  BY <2>1, <2>2 DEF Numberings
<1> QED  BY <1>1, <1>2

LEMMA EmptyLists ==
  /\ \A S : <<>> \in Seq(S)
  /\ \A S : \A x \in S : <<x>> \in Seq(S)
  /\ DOMAIN <<>> = {} /\ \A x : DOMAIN <<x>> = {1} /\ <<x>>[1] = x
OBVIOUS

LEMMA UseStep ==
  ASSUME IInv, VisitUse
  PROVE  IInv'
<1>1. PICK u, line, node :
        /\ u \in Names /\ line \in SomeLine
        /\ node = [Node("use", line) EXCEPT !.use = u]
        /\ Read(node) /\ Identify(Uses(node, currentScope))
        /\ UNCHANGED <<pass, open, scopes, currentScope, subroutines, typeSymbols, hasMainProcedure>>
  BY DEF VisitUse
<1>u. u \in Names /\ line \in SomeLine
  BY <1>1
<1> USE <1>u
<1>2. TextOK /\ ScopesOK
  BY DEF IInv, Rest
<1>3. node \in Nodes /\ node.kind = "use"
  <2>1. line \in Nat /\ "use" \in Kinds /\ <<>> \in Seq(Names \cup Typedefs) /\ <<>> \in Seq(Names)
    BY <1>2, LineFacts, EmptyLists DEF Kinds
  <2>2. node = [kind |-> "use", line |-> line, names |-> <<>>, domains |-> <<>>,
                use |-> u, subroutine |-> noName, body |-> FALSE, const |-> FALSE]
    BY <1>1 DEF Node
  <2> HIDE DEF noName, builtIn, Kinds
  <2> QED  BY <2>1, <2>2 DEF Nodes
<1>4. /\ Reads(node) /\ pass = "DefWalk" /\ Len(program) < shape[all]
      /\ UNCHANGED <<shape, at, named, resolved>>
  BY <1>1, <1>2, <1>3, ReadFacts
<1>5. currentScope \in Nat /\ currentScope \in 1 .. Len(scopes)
  BY <1>2 DEF ScopesOK
<1>6. PICK x : x = Uses(node, currentScope)
  OBVIOUS
<1>7. /\ x \in Numberings /\ \A k \in DOMAIN x : x[k] \in 1 .. Len(scopes)
      /\ identifiers' = Append(identifiers, x)
  BY <1>1, <1>5, <1>6, UsesNumbering DEF Identify
<1>8. node.kind \in Kinds \ (Openers \cup {"close", "typedef", "return"}) /\ SubroutineNamed(node)
  BY <1>3 DEF Kinds, Openers, SubroutineNamed
<1> QED  BY <1>1, <1>4, <1>7, <1>8, PassesQuietly

LEMMA CallStep ==
  ASSUME IInv, VisitCall
  PROVE  IInv'
<1>1. PICK f, node :
        /\ f \in Subroutines
        /\ node = [Node("call", NextLine) EXCEPT !.subroutine = f]
        /\ Read(node) /\ Identify(NoIdentifiers)
        /\ UNCHANGED <<pass, open, scopes, currentScope, subroutines, typeSymbols, hasMainProcedure>>
  BY DEF VisitCall
<1>u. f \in Subroutines
  BY <1>1
<1> USE <1>u
<1>2. TextOK /\ ScopesOK
  BY DEF IInv, Rest
<1>3. node \in Nodes /\ node.kind = "call" /\ node.subroutine \in Subroutines
  <2>1. /\ NextLine \in Nat /\ "call" \in Kinds
        /\ <<>> \in Seq(Names \cup Typedefs) /\ <<>> \in Seq(Names)
    BY <1>2, LineFacts, EmptyLists DEF Kinds
  <2>2. node = [kind |-> "call", line |-> NextLine, names |-> <<>>, domains |-> <<>>,
                use |-> noName, subroutine |-> f, body |-> FALSE, const |-> FALSE]
    BY <1>1 DEF Node
  <2> HIDE DEF noName, builtIn, Kinds
  <2> QED  BY <2>1, <2>2 DEF Nodes
<1>4. /\ Reads(node) /\ pass = "DefWalk" /\ Len(program) < shape[all]
      /\ UNCHANGED <<shape, at, named, resolved>>
  BY <1>1, <1>2, <1>3, ReadFacts
<1>5. PICK x : x = NoIdentifiers
  OBVIOUS
<1>6. /\ x \in Numberings /\ \A k \in DOMAIN x : x[k] \in 1 .. Len(scopes)
      /\ identifiers' = Append(identifiers, x)
  BY <1>1, <1>5, EmptyNumbering DEF Identify
<1>7. node.kind \in Kinds \ (Openers \cup {"close", "typedef", "return"}) /\ SubroutineNamed(node)
  BY <1>3 DEF Kinds, Openers, SubroutineNamed
<1> QED  BY <1>1, <1>4, <1>6, <1>7, PassesQuietly

LEMMA BreakStep ==
  ASSUME IInv, VisitBreak
  PROVE  IInv'
<1>1. PICK node : node = Node("break", NextLine)
  OBVIOUS
<1>2. /\ Read(node)
      /\ \/ Throw
         \/ Identify(NoIdentifiers) /\ UNCHANGED <<pass, open, scopes, currentScope,
                                         subroutines, typeSymbols, hasMainProcedure>>
  BY <1>1 DEF VisitBreak
<1>3. TextOK /\ ScopesOK
  BY DEF IInv, Rest
<1>4. node \in Nodes /\ node.kind = "break"
  <2>1. NextLine \in Nat
    BY <1>3, LineFacts
  <2> QED  BY <1>1, <2>1 DEF Nodes, Node, Kinds
<1>5. /\ Reads(node) /\ pass = "DefWalk" /\ Len(program) < shape[all]
      /\ UNCHANGED <<shape, at, named, resolved>>
  BY <1>2, <1>3, <1>4, ReadFacts
<1>6. node.kind \in Kinds \ (Openers \cup {"close", "typedef", "return"}) /\ SubroutineNamed(node)
  BY <1>4 DEF Kinds, Openers, SubroutineNamed
<1>7. CASE Throw
  BY <1>5, <1>6, <1>7, RejectsNode
<1>8. CASE Identify(NoIdentifiers) /\ UNCHANGED <<pass, open, scopes, currentScope,
                                         subroutines, typeSymbols, hasMainProcedure>>
  <2>1. PICK x : x = NoIdentifiers
    OBVIOUS
  <2>2. /\ x \in Numberings /\ \A k \in DOMAIN x : x[k] \in 1 .. Len(scopes)
        /\ identifiers' = Append(identifiers, x)
    BY <1>8, <2>1, EmptyNumbering DEF Identify
  <2> QED  BY <1>5, <1>6, <1>8, <2>2, PassesQuietly
<1> QED  BY <1>2, <1>7, <1>8

LEMMA ReturnStep ==
  ASSUME IInv, VisitReturn
  PROVE  IInv'
<1>1. PICK node : node = Node("return", NextLine)
  OBVIOUS
<1>2. /\ Read(node) /\ Identify(NoIdentifiers)
      /\ scopes' = [scopes EXCEPT ![currentScope].containReturn = TRUE]
      /\ UNCHANGED <<pass, open, currentScope, subroutines, typeSymbols, hasMainProcedure>>
  BY <1>1 DEF VisitReturn
<1>3. TextOK /\ ScopesOK /\ Rest
  BY DEF IInv, Rest
<1>4. node \in Nodes /\ node.kind = "return"
  <2>1. NextLine \in Nat
    BY <1>3, LineFacts
  <2> QED  BY <1>1, <2>1 DEF Nodes, Node, Kinds
<1>5. /\ Reads(node) /\ pass = "DefWalk" /\ Len(program) < shape[all]
      /\ UNCHANGED <<shape, at, named, resolved>>
  BY <1>2, <1>3, <1>4, ReadFacts
<1>6. /\ scopes' \in Seq(ScopeRecords) /\ Len(scopes') = Len(scopes) /\ Len(scopes) \in Nat
      /\ \A s \in 1 .. Len(scopes) :
           /\ scopes'[s].enclosingScope = scopes[s].enclosingScope
           /\ scopes'[s].symbols = scopes[s].symbols
           /\ SameMarks(s)
           /\ IF s = currentScope THEN scopes'[s].containReturn ELSE SameReturn(s)
  <2>1. scopes[currentScope] \in ScopeRecords /\ scopes \in Seq(ScopeRecords)
    BY <1>3, ElementOfSeq DEF ScopesOK
  <2> DEFINE r == [scopes[currentScope] EXCEPT !.containReturn = TRUE]
  <2>2. r \in ScopeRecords /\ r.containReturn
        /\ r.enclosingScope = scopes[currentScope].enclosingScope
        /\ r.symbols = scopes[currentScope].symbols
        /\ r.parentIsLoop = scopes[currentScope].parentIsLoop
        /\ r.parentIsConditional = scopes[currentScope].parentIsConditional
    BY <2>1 DEF ScopeRecords
  <2>3. scopes' = [scopes EXCEPT ![currentScope] = r]
    BY <1>2
  <2> HIDE DEF r
  <2>4. /\ scopes' \in Seq(ScopeRecords) /\ Len(scopes') = Len(scopes) /\ Len(scopes) \in Nat
        /\ \A s \in 1 .. Len(scopes) : scopes'[s] = IF s = currentScope THEN r ELSE scopes[s]
    <3>1. currentScope \in 1 .. Len(scopes)
      BY <1>3 DEF ScopesOK
    <3> HIDE DEF ScopeRecords
    <3> QED  BY <2>1, <2>2, <2>3, <3>1, SetElement
  <2> QED  BY <2>2, <2>4 DEF SameMarks, SameReturn
<1>7. ScopesOK'
  <2>1. SymbolIds \subseteq SymbolIds'
    BY <1>5, SymbolsGrow
  <2> HIDE DEF SymbolIds
  <2> QED  BY <1>2, <1>3, <1>6, <2>1 DEF ScopesOK
<1>8. Extended
  BY <1>6 DEF Extended
<1>9. SubroutineNamed(node) /\ ~HasBody(node) /\ node.kind \notin {"close", "subroutine", "typedef"}
  BY <1>4 DEF SubroutineNamed, HasBody, Openers
<1>10. Passes(node)
  <2>1. identifiers' = Append(identifiers, NoIdentifiers)
    BY <1>2 DEF Identify
  <2> HIDE DEF NoIdentifiers
  <2> QED  BY <1>2, <1>3, <1>5, <1>7, <1>8, <1>9, <2>1, EmptyNumbering DEF Passes, TextOK
<1>11. MarksLittle(node)
  <2>1. \A s \in 1 .. Len(scopes) : SameTable(s, node)
    BY <1>6 DEF SameTable
  <2> QED  BY <1>4, <1>6, <2>1 DEF MarksLittle
<1>12. Rest'
  BY <1>2, <1>3, <1>9, <1>10, <1>11, PassesPlain
<1> QED  BY <1>2, <1>9, <1>10, <1>12, PassesOthers

LEMMA VariableStep ==
  ASSUME IInv, VisitVariableDeclaration
  PROVE  IInv'
<1>1. PICK n, u, line, const, node :
        /\ n \in Names /\ u \in Names \cup {noName} /\ line \in SomeLine /\ const \in BOOLEAN
        /\ node = [Node("var", line) EXCEPT !.names = <<n>>, !.use = u, !.const = const]
        /\ Read(node)
        /\ \/ Throw
           \/ /\ scopes' = Define(scopes, currentScope, n, <<This, 1>>)
              /\ Identify(Uses(node, currentScope))
              /\ UNCHANGED <<pass, open, currentScope, subroutines, typeSymbols, hasMainProcedure>>
  BY DEF VisitVariableDeclaration
<1>u. n \in Names /\ u \in Names \cup {noName} /\ line \in SomeLine /\ const \in BOOLEAN
  BY <1>1
<1> USE <1>u
<1>2. TextOK /\ ScopesOK /\ Rest
  BY DEF IInv, Rest
<1>3. node \in Nodes /\ node.kind = "var" /\ DOMAIN node.names = {1}
  <2>1. line \in Nat /\ "var" \in Kinds /\ <<n>> \in Seq(Names \cup Typedefs) /\ <<>> \in Seq(Names)
    BY <1>2, LineFacts, EmptyLists DEF Kinds
  <2>2. node = [kind |-> "var", line |-> line, names |-> <<n>>, domains |-> <<>>,
                use |-> u, subroutine |-> noName, body |-> FALSE, const |-> const]
    BY <1>1 DEF Node
  <2> HIDE DEF noName, builtIn, Kinds
  <2>3. node \in Nodes
    BY <2>1, <2>2 DEF Nodes
  <2> QED  BY <2>2, <2>3, EmptyLists
<1>4. /\ Reads(node) /\ pass = "DefWalk" /\ Len(program) < shape[all]
      /\ UNCHANGED <<shape, at, named, resolved>>
  BY <1>1, <1>2, <1>3, ReadFacts
<1>5. SubroutineNamed(node) /\ ~HasBody(node) /\ node.kind \notin {"close", "subroutine", "typedef", "return"}
  BY <1>3 DEF SubroutineNamed, HasBody, Openers
<1>6. CASE Throw
  BY <1>4, <1>5, <1>6, RejectsNode
<1>7. CASE /\ scopes' = Define(scopes, currentScope, n, <<This, 1>>)
           /\ Identify(Uses(node, currentScope))
           /\ UNCHANGED <<pass, open, currentScope, subroutines, typeSymbols, hasMainProcedure>>
  <2>1. currentScope \in 1 .. Len(scopes) /\ scopes \in Seq(ScopeRecords) /\ Len(scopes) \in Nat
    BY <1>2 DEF ScopesOK
  <2>2. This \in Nat /\ <<This, 1>> \in Nat \X Nat /\ <<This, 1>>[1] = This
    BY <1>4, TextGrows
  <2>3. /\ scopes' \in Seq(ScopeRecords) /\ Len(scopes') = Len(scopes)
        /\ \A r \in 1 .. Len(scopes) : SameButTable(scopes'[r], scopes[r])
        /\ \A r \in 1 .. Len(scopes) : r # currentScope => scopes'[r].symbols = scopes[r].symbols
        /\ \A x \in DOMAIN scopes'[currentScope].symbols :
             scopes'[currentScope].symbols[x]
               = IF x \in DOMAIN scopes[currentScope].symbols
                 THEN scopes[currentScope].symbols[x] ELSE <<This, 1>>
    <3>1. PICK sym : sym = <<This, 1>>
      OBVIOUS
    <3>2. PICK tt : tt = Define(scopes, currentScope, n, sym)
      OBVIOUS
    <3>3. /\ tt \in Seq(ScopeRecords) /\ Len(tt) = Len(scopes)
          /\ \A r \in 1 .. Len(scopes) : SameButTable(tt[r], scopes[r])
          /\ \A r \in 1 .. Len(scopes) : r # currentScope => tt[r].symbols = scopes[r].symbols
          /\ \A x \in DOMAIN tt[currentScope].symbols :
               tt[currentScope].symbols[x]
                 = IF x \in DOMAIN scopes[currentScope].symbols
                   THEN scopes[currentScope].symbols[x] ELSE sym
      <4>1. sym \in Nat \X Nat
        BY <2>2, <3>1
      <4>2. PICK ss, s : ss = scopes /\ s = currentScope
        OBVIOUS
      <4> HIDE DEF ScopeRecords, SameButTable, Define
      <4>3. ss \in Seq(ScopeRecords) /\ s \in 1 .. Len(ss) /\ tt = Define(ss, s, n, sym)
        BY <2>1, <3>2, <4>2
      <4>4. /\ tt \in Seq(ScopeRecords) /\ Len(tt) = Len(ss)
            /\ \A r \in 1 .. Len(ss) : SameButTable(tt[r], ss[r])
            /\ \A r \in 1 .. Len(ss) : r # s => tt[r].symbols = ss[r].symbols
            /\ \A x \in DOMAIN tt[s].symbols :
                 tt[s].symbols[x] = IF x \in DOMAIN ss[s].symbols THEN ss[s].symbols[x] ELSE sym
        BY <4>1, <4>3, DefineTable
      <4> QED  BY <4>2, <4>4
    <3>4. scopes' = tt
      BY <1>7, <3>1, <3>2
    <3> QED  BY <3>1, <3>3, <3>4
  <2>4. ASSUME NEW r \in 1 .. Len(scopes), NEW x \in DOMAIN scopes'[r].symbols
        PROVE  \/ x \in DOMAIN scopes[r].symbols /\ scopes'[r].symbols[x] = scopes[r].symbols[x]
               \/ scopes'[r].symbols[x] = <<This, 1>>
    BY <2>3
  <2>5. ScopesOK'
    <3>1. SymbolIds \subseteq SymbolIds' /\ <<This, 1>> \in SymbolIds'
      BY <1>3, <1>4, SymbolsGrow
    <3>2. ASSUME NEW r \in 1 .. Len(scopes), NEW x \in DOMAIN scopes'[r].symbols
          PROVE  scopes'[r].symbols[x] \in SymbolIds'
      <4> HIDE DEF SymbolIds
      <4> QED  BY <1>2, <2>4, <3>1 DEF ScopesOK
    <3> HIDE DEF SymbolIds
    <3> QED  BY <1>2, <1>7, <2>3, <3>2 DEF ScopesOK, SameButTable
  <2>6. Extended
    BY <2>1, <2>3 DEF Extended, SameButTable
  <2>7. Passes(node)
    <3>1. PICK x : x = Uses(node, currentScope)
      OBVIOUS
    <3>2. /\ x \in Numberings /\ \A k \in DOMAIN x : x[k] \in 1 .. Len(scopes')
          /\ identifiers' = Append(identifiers, x)
      BY <1>7, <2>1, <2>3, <3>1, UsesNumbering DEF Identify
    <3> QED  BY <1>2, <1>4, <1>5, <1>7, <2>5, <2>6, <3>2 DEF Passes, TextOK
  <2>8. MarksLittle(node)
    <3>1. \A s \in 1 .. Len(scopes) : SameTable(s, node)
      BY <1>3, <2>2, <2>4 DEF SameTable
    <3> QED  BY <1>5, <2>1, <2>3, <3>1 DEF MarksLittle, SameMarks, SameReturn, SameButTable
  <2>9. Rest'
    BY <1>2, <1>5, <1>7, <2>7, <2>8, PassesPlain
  <2> QED  BY <1>5, <1>7, <2>7, <2>9, PassesOthers
<1> QED  BY <1>1, <1>6, <1>7

LEMMA BlockStep ==
  ASSUME IInv, VisitBlock
  PROVE  IInv'
<1>1. PICK kind, node :
        /\ kind \in {"block", "loop", "conditional"}
        /\ node = Node(kind, NextLine)
        /\ Read(node) /\ Identify(NoIdentifiers)
        /\ open' = Append(open, This)
        /\ scopes' = Append(scopes, LocalScope(currentScope)) /\ currentScope' = Len(scopes) + 1
        /\ UNCHANGED <<pass, subroutines, typeSymbols, hasMainProcedure>>
  BY DEF VisitBlock
<1>u. kind \in {"block", "loop", "conditional"}
  BY <1>1
<1> USE <1>u
<1>2. TextOK /\ ScopesOK /\ Rest
  BY DEF IInv, Rest
<1>3. node \in Nodes /\ node.kind = kind
  <2>1. /\ NextLine \in Nat /\ kind \in Kinds
        /\ <<>> \in Seq(Names \cup Typedefs) /\ <<>> \in Seq(Names)
    BY <1>2, LineFacts, EmptyLists DEF Kinds, Openers
  <2>2. node = [kind |-> kind, line |-> NextLine, names |-> <<>>, domains |-> <<>>,
                use |-> noName, subroutine |-> noName, body |-> FALSE, const |-> FALSE]
    BY <1>1 DEF Node
  <2> HIDE DEF noName, builtIn, Kinds
  <2> QED  BY <2>1, <2>2 DEF Nodes
<1>4. /\ Reads(node) /\ pass = "DefWalk" /\ Len(program) < shape[all]
      /\ UNCHANGED <<shape, at, named, resolved>>
  BY <1>1, <1>2, <1>3, ReadFacts
<1>5. /\ SubroutineNamed(node) /\ HasBody(node)
      /\ node.kind \notin {"close", "subroutine", "typedef", "return", "iterator"}
  BY <1>3 DEF SubroutineNamed, HasBody, Openers
<1>6. PICK c : c = Len(scopes) + 1
  OBVIOUS
<1>7. /\ currentScope \in 1 .. Len(scopes) /\ scopes \in Seq(ScopeRecords) /\ Len(scopes) \in Nat
      /\ scopes' \in Seq(ScopeRecords) /\ Len(scopes') = c /\ scopes'[c] \in ScopeRecords
      /\ scopes'[c].enclosingScope = currentScope /\ Unmarked(scopes'[c])
      /\ \A n \in DOMAIN scopes'[c].symbols : FALSE
      /\ \A s \in 1 .. Len(scopes) : scopes'[s] = scopes[s]
  <2>1. currentScope \in 1 .. Len(scopes) /\ scopes \in Seq(ScopeRecords) /\ currentScope \in Nat
    BY <1>2 DEF ScopesOK
  <2>2. PICK x : x = LocalScope(currentScope)
    OBVIOUS
  <2>3. /\ x \in ScopeRecords /\ x.enclosingScope = currentScope
        /\ Unmarked(x) /\ \A n \in DOMAIN x.symbols : FALSE
    BY <2>1, <2>2, NewLocalScope
  <2>4. scopes' = Append(scopes, x)
    BY <1>1, <2>2
  <2> HIDE DEF ScopeRecords
  <2> QED  BY <1>6, <2>1, <2>3, <2>4, AppendFacts
<1>8. ScopesOK'
  <2>1. SymbolIds \subseteq SymbolIds'
    BY <1>4, SymbolsGrow
  <2>2. \A s \in 1 .. Len(scopes') : s \in 1 .. Len(scopes) \/ s = c
    BY <1>6, <1>7
  <2> HIDE DEF SymbolIds
  <2> QED  BY <1>1, <1>2, <1>6, <1>7, <2>1, <2>2 DEF ScopesOK
<1>9. Extended
  BY <1>6, <1>7 DEF Extended
<1>10. Passes(node)
  <2>1. identifiers' = Append(identifiers, NoIdentifiers)
    BY <1>1 DEF Identify
  <2> HIDE DEF NoIdentifiers
  <2> QED  BY <1>1, <1>2, <1>4, <1>5, <1>8, <1>9, <2>1, EmptyNumbering DEF Passes, TextOK
<1>11. MarksLittle(node)
  <2>1. \A s \in Len(scopes) + 1 .. Len(scopes') : s = c
    BY <1>6, <1>7
  <2> QED  BY <1>5, <1>7, <2>1 DEF MarksLittle, SameMarks, SameReturn, SameTable
<1>12. Rest'
  <2>1. c \in Len(scopes) + 1 .. Len(scopes') /\ currentScope' = c /\ scopes'[c].enclosingScope # 0
    BY <1>1, <1>6, <1>7
  <2>2. ScopeOutside(scopes', c, node.kind) = currentScope
    BY <1>5, <1>7 DEF ScopeOutside
  <2> QED  BY <1>1, <1>2, <1>5, <1>7, <1>10, <1>11, <2>1, <2>2, PassesOpens
<1> QED  BY <1>1, <1>5, <1>10, <1>12, PassesOthers

\* The scope of the names in a header, which holds them and nothing else.
WithHeader(node) ==
  DefineDomains(Append(scopes, LocalScope(currentScope)), Len(scopes) + 1, node)

LEMMA HeaderScope ==
  ASSUME TextOK, ScopesOK, NEW node, Reads(node), node.names \in Seq(Names),
         NEW tt, tt = WithHeader(node)
  PROVE  /\ tt \in Seq(ScopeRecords) /\ Len(tt) = Len(scopes) + 1
         /\ \A s \in 1 .. Len(scopes) :
              SameButTable(tt[s], scopes[s]) /\ tt[s].symbols = scopes[s].symbols
         /\ \A s \in Len(scopes) + 1 .. Len(tt) :
              /\ tt[s].enclosingScope = currentScope /\ Unmarked(tt[s])
              /\ \A x \in DOMAIN tt[s].symbols : tt[s].symbols[x] \in SymbolIds'
         /\ DomainScope(Append(scopes, LocalScope(currentScope)), Len(scopes) + 1) = currentScope
         /\ Len(scopes) \in Nat /\ currentScope \in 1 .. Len(scopes) /\ currentScope \in Nat
<1>0. PICK own, inner : own = Len(scopes) + 1 /\ inner = Append(scopes, LocalScope(currentScope))
  OBVIOUS
<1>1. currentScope \in 1 .. Len(scopes) /\ scopes \in Seq(ScopeRecords) /\ currentScope \in Nat
      /\ Len(scopes) \in Nat
  BY DEF ScopesOK
<1>2. PICK x : x = LocalScope(currentScope)
  OBVIOUS
<1>3. x \in ScopeRecords /\ x.enclosingScope = currentScope /\ Unmarked(x)
  BY <1>1, <1>2, NewLocalScope
<1>4. /\ inner \in Seq(ScopeRecords) /\ Len(inner) = own /\ inner[own] = x
      /\ \A s \in 1 .. Len(scopes) : inner[s] = scopes[s]
  <2>1. inner = Append(scopes, x)
    BY <1>0, <1>2
  <2> HIDE DEF ScopeRecords
  <2> QED  BY <1>0, <1>1, <1>3, <2>1, AppendFacts
<1>5. PICK t : t = [n \in Range(node.names) |-> <<This, SelectInSeq(node.names, LAMBDA m : m = n)>>]
  OBVIOUS
<1>6. ASSUME NEW n \in DOMAIN t
      PROVE  \E k \in DOMAIN node.names : t[n] = <<This, k>>
  <2> DEFINE found == {k \in 1 .. Len(node.names) : node.names[k] = n}
  <2>1. found \in SUBSET (0 .. Len(node.names)) /\ Len(node.names) \in Nat
        /\ DOMAIN node.names = 1 .. Len(node.names)
    OBVIOUS
  <2>2. found # {}
    BY <1>5, <2>1 DEF Range
  <2>3. SelectInSeq(node.names, LAMBDA m : m = n) = Min(found)
    BY <2>2 DEF SelectInSeq
  <2>4. Min(found) \in found
    <3> HIDE DEF found
    <3> QED  BY <2>1, <2>2, Extremes
  <2>5. Min(found) \in DOMAIN node.names
    BY <2>1, <2>4
  <2>6. t[n] = <<This, Min(found)>>
    BY <1>5, <2>3
  <2> HIDE DEF found
  <2> QED  BY <2>5, <2>6
<1>7. /\ This \in Nat /\ DOMAIN node.names \subseteq Nat
      /\ \A k \in DOMAIN node.names : <<This, k>> \in SymbolIds'
  BY TextGrows, SymbolsGrow
<1>8. \A n \in DOMAIN t : t[n] \in Nat \X Nat /\ t[n] \in SymbolIds'
  <2> HIDE DEF SymbolIds
  <2> QED  BY <1>6, <1>7
<1>9. t \in SymbolTable
  <2>1. DOMAIN t \in SUBSET Names
    BY <1>5, ElementOfSeq DEF Range
  <2>2. t = [n \in DOMAIN t |-> t[n]]
    BY <1>5
  <2>3. t \in [DOMAIN t -> Nat \X Nat]
    BY <1>8, <2>2
  <2> QED  BY <2>1, <2>3 DEF SymbolTable
<1>10. tt = WithTable(inner, own, t)
  BY <1>0, <1>5 DEF DefineDomains, WithTable, WithHeader
<1>11. own \in 1 .. Len(inner)
  BY <1>0, <1>1, <1>4
<1>12. /\ tt \in Seq(ScopeRecords) /\ Len(tt) = Len(inner)
       /\ \A r \in 1 .. Len(inner) :
            SameButTable(tt[r], inner[r]) /\ tt[r].symbols = IF r = own THEN t ELSE inner[r].symbols
  <2>1. inner \in Seq(ScopeRecords) /\ t \in SymbolTable /\ own \in 1 .. Len(inner) /\ tt = WithTable(inner, own, t)
    BY <1>4, <1>9, <1>10, <1>11
  <2> QED  BY ONLY <2>1, SetTable
<1>13. ASSUME NEW s \in 1 .. Len(scopes)
       PROVE  SameButTable(tt[s], scopes[s]) /\ tt[s].symbols = scopes[s].symbols
  <2>1. s \in 1 .. Len(inner) /\ s # own
    BY <1>0, <1>1, <1>4
  <2> QED  BY <1>4, <1>12, <2>1
<1>14. tt[own].enclosingScope = currentScope /\ Unmarked(tt[own]) /\ tt[own].symbols = t
  BY <1>3, <1>4, <1>11, <1>12 DEF SameButTable, Unmarked
<1>15. DomainScope(inner, own) = currentScope
  BY <1>3, <1>4 DEF DomainScope
<1>16. \A s \in Len(scopes) + 1 .. Len(tt) : s = own
  BY <1>0, <1>1, <1>4, <1>12
<1> HIDE DEF SymbolIds
<1> QED  BY <1>0, <1>1, <1>4, <1>8, <1>12, <1>13, <1>14, <1>15, <1>16

LEMMA GeneratorStep ==
  ASSUME IInv, VisitGenerator
  PROVE  IInv'
<1>1. PICK n, d, u, node :
        /\ n \in Names /\ d \in Names /\ u \in Names
        /\ node = [Node("generator", NextLine) EXCEPT !.names = <<n>>, !.domains = <<d>>, !.use = u]
        /\ LET own == Len(scopes) + 1
               inner == Append(scopes, LocalScope(currentScope))
           IN  /\ Read(node) /\ scopes' = DefineDomains(inner, own, node)
               /\ Identify([k \in {0, 1} |-> IF k = 0 THEN own ELSE DomainScope(inner, own)])
        /\ UNCHANGED <<pass, open, currentScope, subroutines, typeSymbols, hasMainProcedure>>
  BY DEF VisitGenerator
<1>u. n \in Names /\ d \in Names /\ u \in Names
  BY <1>1
<1> USE <1>u
<1>0. PICK own, inner, tt : /\ own = Len(scopes) + 1 /\ inner = Append(scopes, LocalScope(currentScope))
                            /\ tt = DefineDomains(inner, own, node)
  OBVIOUS
<1>01. /\ Read(node) /\ scopes' = tt
      /\ Identify([k \in {0, 1} |-> IF k = 0 THEN own ELSE DomainScope(inner, own)])
  BY <1>0, <1>1
<1>2. TextOK /\ ScopesOK /\ Rest
  BY DEF IInv, Rest
<1>3. node \in Nodes /\ node.kind = "generator" /\ node.names \in Seq(Names)
  <2>1. /\ NextLine \in Nat /\ "generator" \in Kinds
        /\ <<n>> \in Seq(Names \cup Typedefs) /\ <<n>> \in Seq(Names) /\ <<d>> \in Seq(Names)
    BY <1>2, LineFacts, EmptyLists DEF Kinds
  <2>2. node = [kind |-> "generator", line |-> NextLine, names |-> <<n>>, domains |-> <<d>>,
                use |-> u, subroutine |-> noName, body |-> FALSE, const |-> FALSE]
    BY <1>1 DEF Node
  <2> HIDE DEF noName, builtIn, Kinds
  <2> QED  BY <2>1, <2>2 DEF Nodes
<1>4. /\ Reads(node) /\ pass = "DefWalk" /\ Len(program) < shape[all]
      /\ UNCHANGED <<shape, at, named, resolved>>
  BY <1>01, <1>2, <1>3, ReadFacts
<1>5. SubroutineNamed(node) /\ ~HasBody(node)
      /\ node.kind \notin {"close", "subroutine", "typedef", "return"}
  BY <1>3 DEF SubroutineNamed, HasBody, Openers
<1>6. /\ scopes' \in Seq(ScopeRecords) /\ Len(scopes') = own
      /\ \A s \in 1 .. Len(scopes) :
           SameButTable(scopes'[s], scopes[s]) /\ scopes'[s].symbols = scopes[s].symbols
      /\ scopes'[own].enclosingScope = currentScope /\ Unmarked(scopes'[own])
      /\ \A x \in DOMAIN scopes'[own].symbols : scopes'[own].symbols[x] \in SymbolIds'
      /\ DomainScope(inner, own) = currentScope
      /\ Len(scopes) \in Nat /\ currentScope \in 1 .. Len(scopes) /\ currentScope \in Nat
  <2>1. TextOK /\ ScopesOK /\ Reads(node) /\ node.names \in Seq(Names)
    BY <1>2, <1>3, <1>4
  <2> HIDE DEF SymbolIds
  <2>2. /\ own = Len(scopes) + 1 /\ inner = Append(scopes, LocalScope(currentScope))
        /\ tt = DefineDomains(inner, own, node)
    BY <1>0
  <2>3. tt = WithHeader(node)
    BY <2>2 DEF WithHeader
  <2>4. /\ tt \in Seq(ScopeRecords) /\ Len(tt) = Len(scopes) + 1
        /\ \A s \in 1 .. Len(scopes) :
             SameButTable(tt[s], scopes[s]) /\ tt[s].symbols = scopes[s].symbols
        /\ \A s \in Len(scopes) + 1 .. Len(tt) :
             /\ tt[s].enclosingScope = currentScope /\ Unmarked(tt[s])
             /\ \A x \in DOMAIN tt[s].symbols : tt[s].symbols[x] \in SymbolIds'
        /\ DomainScope(Append(scopes, LocalScope(currentScope)), Len(scopes) + 1) = currentScope
        /\ Len(scopes) \in Nat /\ currentScope \in 1 .. Len(scopes) /\ currentScope \in Nat
    BY ONLY <2>1, <2>3, HeaderScope
  <2>5. own \in Len(scopes) + 1 .. Len(tt) /\ scopes' = tt
    BY <1>01, <2>2, <2>4
  <2>6. DomainScope(inner, own) = currentScope
    BY <2>2, <2>4
  <2> QED  BY <2>2, <2>4, <2>5, <2>6
<1>7. ScopesOK'
  <2>1. SymbolIds \subseteq SymbolIds'
    BY <1>4, SymbolsGrow
  <2>2. \A s \in 1 .. Len(scopes') : s \in 1 .. Len(scopes) \/ s = own
    BY <1>0, <1>6
  <2>3. ASSUME NEW s \in 1 .. Len(scopes')
        PROVE  /\ scopes'[s].enclosingScope \in 0 .. s - 1
               /\ \A x \in DOMAIN scopes'[s].symbols : scopes'[s].symbols[x] \in SymbolIds'
    <3> HIDE DEF SymbolIds
    <3>1. CASE s \in 1 .. Len(scopes)
      BY <1>2, <1>6, <2>1, <3>1 DEF ScopesOK, SameButTable
    <3>2. CASE s = own
      BY <1>0, <1>6, <3>2
    <3> QED  BY <2>2, <3>1, <3>2
  <2>4. currentScope' \in 1 .. Len(scopes')
    BY <1>0, <1>1, <1>6
  <2> HIDE DEF SymbolIds
  <2> QED  BY <1>6, <2>3, <2>4 DEF ScopesOK
<1>8. Extended
  BY <1>0, <1>6 DEF Extended, SameButTable
<1>9. Passes(node)
  <2>1. PICK x : x = [k \in {0, 1} |-> IF k = 0 THEN own ELSE currentScope]
    OBVIOUS
  <2>2. own \in Nat /\ own \in 1 .. Len(scopes') /\ currentScope \in 1 .. Len(scopes')
    BY <1>0, <1>6
  <2>3. /\ x \in [{0, 1} -> Nat] /\ {0, 1} \in SUBSET Nat
        /\ \A k \in DOMAIN x : x[k] \in 1 .. Len(scopes')
    BY <1>6, <2>1, <2>2
  <2>4. x \in Numberings
    BY <2>3 DEF Numberings
  <2>5. identifiers' = Append(identifiers, x)
    BY <1>01, <1>6, <2>1 DEF Identify
  <2> QED  BY <1>1, <1>2, <1>4, <1>5, <1>7, <1>8, <2>3, <2>4, <2>5 DEF Passes, TextOK
<1>10. MarksLittle(node)
  <2>1. \A s \in Len(scopes) + 1 .. Len(scopes') : s = own
    BY <1>0, <1>6
  <2> QED  BY <1>5, <1>6, <2>1 DEF MarksLittle, SameMarks, SameReturn, SameTable, SameButTable
<1>11. Rest'
  BY <1>1, <1>2, <1>5, <1>9, <1>10, PassesPlain
<1> QED  BY <1>1, <1>5, <1>9, <1>11, PassesOthers

LEMMA IteratorStep ==
  ASSUME IInv, VisitIteratorLoop
  PROVE  IInv'
<1>1. PICK k, ns, ds, node, own, inner :
        /\ k \in DomainLists /\ ns \in [1 .. k -> Names] /\ ds \in [1 .. k -> Names]
        /\ node = [Node("iterator", NextLine) EXCEPT !.names = ns, !.domains = ds]
        /\ own = Len(scopes) + 1 /\ inner = Append(scopes, LocalScope(currentScope))
        /\ Read(node) /\ open' = Append(open, This)
        /\ scopes' = Append(DefineDomains(inner, own, node), LocalScope(own))
        /\ currentScope' = own + 1
        /\ Identify([i \in 1 .. k |-> DomainScope(inner, own)])
        /\ UNCHANGED <<pass, subroutines, typeSymbols, hasMainProcedure>>
  BY DEF VisitIteratorLoop
<1>u. k \in DomainLists
  BY <1>1
<1> USE <1>u
<1>2. TextOK /\ ScopesOK /\ Rest
  BY DEF IInv, Rest
<1>3. node \in Nodes /\ node.kind = "iterator" /\ node.names \in Seq(Names)
  <2>1. ns \in Seq(Names) /\ ds \in Seq(Names) /\ ns \in Seq(Names \cup Typedefs)
    <3>1. k \in Nat /\ ns \in [1 .. k -> Names] /\ ds \in [1 .. k -> Names]
      BY <1>1, ListsAssumption
    <3>2. ns \in Seq(Names) /\ ds \in Seq(Names)
      BY <3>1, SeqDef
    <3> QED  BY <3>2, WiderSequence
  <2>2. NextLine \in Nat /\ "iterator" \in Kinds
    BY <1>2, LineFacts DEF Kinds, Openers
  <2>3. node = [kind |-> "iterator", line |-> NextLine, names |-> ns, domains |-> ds,
                use |-> noName, subroutine |-> noName, body |-> FALSE, const |-> FALSE]
    BY <1>1 DEF Node
  <2> HIDE DEF noName, builtIn, Kinds
  <2> QED  BY <2>1, <2>2, <2>3 DEF Nodes
<1>4. /\ Reads(node) /\ pass = "DefWalk" /\ Len(program) < shape[all]
      /\ UNCHANGED <<shape, at, named, resolved>>
  BY <1>1, <1>2, <1>3, ReadFacts
<1>5. SubroutineNamed(node) /\ HasBody(node)
      /\ node.kind \notin {"close", "subroutine", "typedef", "return"}
  BY <1>3 DEF SubroutineNamed, HasBody, Openers
<1>6. PICK tt, c : tt = DefineDomains(inner, own, node) /\ c = own + 1
  OBVIOUS
<1>7. /\ tt \in Seq(ScopeRecords) /\ Len(tt) = own
      /\ \A s \in 1 .. Len(scopes) :
           SameButTable(tt[s], scopes[s]) /\ tt[s].symbols = scopes[s].symbols
      /\ tt[own].enclosingScope = currentScope /\ Unmarked(tt[own])
      /\ \A x \in DOMAIN tt[own].symbols : tt[own].symbols[x] \in SymbolIds'
      /\ DomainScope(inner, own) = currentScope
      /\ Len(scopes) \in Nat /\ currentScope \in 1 .. Len(scopes) /\ currentScope \in Nat
  <2>1. TextOK /\ ScopesOK /\ Reads(node) /\ node.names \in Seq(Names)
    BY <1>2, <1>3, <1>4
  <2>2. /\ own = Len(scopes) + 1 /\ inner = Append(scopes, LocalScope(currentScope))
        /\ tt = DefineDomains(inner, own, node)
    BY <1>1, <1>6
  <2> HIDE DEF SymbolIds
  <2>3. tt = WithHeader(node)
    BY <2>2 DEF WithHeader
  <2>4. /\ tt \in Seq(ScopeRecords) /\ Len(tt) = Len(scopes) + 1
        /\ \A s \in 1 .. Len(scopes) :
             SameButTable(tt[s], scopes[s]) /\ tt[s].symbols = scopes[s].symbols
        /\ \A s \in Len(scopes) + 1 .. Len(tt) :
             /\ tt[s].enclosingScope = currentScope /\ Unmarked(tt[s])
             /\ \A x \in DOMAIN tt[s].symbols : tt[s].symbols[x] \in SymbolIds'
        /\ DomainScope(Append(scopes, LocalScope(currentScope)), Len(scopes) + 1) = currentScope
        /\ Len(scopes) \in Nat /\ currentScope \in 1 .. Len(scopes) /\ currentScope \in Nat
    BY ONLY <2>1, <2>3, HeaderScope
  <2>5. own \in Len(scopes) + 1 .. Len(tt)
    BY <2>2, <2>4
  <2>6. DomainScope(inner, own) = currentScope
    BY <2>2, <2>4
  <2> QED  BY <2>2, <2>4, <2>5, <2>6
<1>8. /\ scopes' \in Seq(ScopeRecords) /\ Len(scopes') = c
      /\ scopes'[c].enclosingScope = own /\ Unmarked(scopes'[c])
      /\ \A x \in DOMAIN scopes'[c].symbols : FALSE
      /\ \A s \in 1 .. own : scopes'[s] = tt[s]
      /\ own \in 1 .. own /\ own = Len(scopes) + 1 /\ c = Len(scopes) + 2
      /\ \A s \in 1 .. Len(scopes) : s \in 1 .. own
  <2>1. own \in Nat
    BY <1>1, <1>7
  <2>2. PICK x : x = LocalScope(own)
    OBVIOUS
  <2>3. x \in ScopeRecords /\ x.enclosingScope = own /\ Unmarked(x) /\ \A n \in DOMAIN x.symbols : FALSE
    BY <2>1, <2>2, NewLocalScope
  <2>4. scopes' = Append(tt, x)
    BY <1>1, <1>6, <2>2
  <2>5. /\ scopes' \in Seq(ScopeRecords) /\ Len(scopes') = own + 1 /\ scopes'[own + 1] = x
        /\ \A s \in 1 .. own : scopes'[s] = tt[s]
    <3> HIDE DEF ScopeRecords
    <3> QED  BY <1>7, <2>3, <2>4, AppendFacts
  <2> QED  BY <1>1, <1>6, <1>7, <2>3, <2>5
<1>9. ScopesOK'
  <2>1. SymbolIds \subseteq SymbolIds'
    BY <1>4, SymbolsGrow
  <2>2. \A s \in 1 .. Len(scopes') : s \in 1 .. Len(scopes) \/ s = own \/ s = c
    BY <1>7, <1>8
  <2>3. currentScope' \in 1 .. Len(scopes')
    BY <1>1, <1>6, <1>7, <1>8
  <2>4. ASSUME NEW s \in 1 .. Len(scopes')
        PROVE  /\ scopes'[s].enclosingScope \in 0 .. s - 1
               /\ \A n \in DOMAIN scopes'[s].symbols : scopes'[s].symbols[n] \in SymbolIds'
    <3> HIDE DEF SymbolIds
    <3>1. CASE s \in 1 .. Len(scopes)
      BY <1>2, <1>7, <1>8, <2>1, <3>1 DEF ScopesOK, SameButTable
    <3>2. CASE s = own
      BY <1>7, <1>8, <3>2
    <3>3. CASE s = c
      BY <1>7, <1>8, <3>3
    <3> QED  BY <2>2, <3>1, <3>2, <3>3
  <2> HIDE DEF SymbolIds
  <2> QED  BY <1>8, <2>3, <2>4 DEF ScopesOK
<1>10. Extended
  BY <1>7, <1>8 DEF Extended, SameButTable
<1>11. Passes(node)
  <2>1. PICK x : x = [i \in 1 .. k |-> currentScope]
    OBVIOUS
  <2>2. currentScope \in 1 .. Len(scopes')
    BY <1>7, <1>8
  <2>3. /\ x \in [1 .. k -> Nat] /\ 1 .. k \in SUBSET Nat
        /\ \A i \in DOMAIN x : x[i] \in 1 .. Len(scopes')
    BY <1>7, <2>1, <2>2
  <2>4. x \in Numberings
    BY <2>3 DEF Numberings
  <2>5. identifiers' = Append(identifiers, x)
    BY <1>1, <1>7, <2>1 DEF Identify
  <2> QED  BY <1>1, <1>2, <1>4, <1>5, <1>9, <1>10, <2>3, <2>4, <2>5 DEF Passes, TextOK
<1>12. MarksLittle(node)
  <2>1. \A s \in Len(scopes) + 1 .. Len(scopes') : s = own \/ s = c
    BY <1>7, <1>8
  <2>2. ASSUME NEW s \in 1 .. Len(scopes)
        PROVE  SameMarks(s) /\ SameTable(s, node) /\ SameReturn(s)
    <3>1. SameButTable(scopes'[s], scopes[s]) /\ scopes'[s].symbols = scopes[s].symbols
      BY <1>7, <1>8
    <3> QED  BY <3>1 DEF SameMarks, SameReturn, SameTable, SameButTable
  <2>3. \A s \in Len(scopes) + 1 .. Len(scopes') : Unmarked(scopes'[s])
    <3>1. Unmarked(scopes'[own]) /\ Unmarked(scopes'[c])
      BY <1>7, <1>8
    <3> QED  BY <2>1, <3>1
  <2> QED  BY <1>5, <2>2, <2>3 DEF MarksLittle
<1>13. Rest'
  <2>1. c \in Len(scopes) + 1 .. Len(scopes') /\ currentScope' = c /\ scopes'[c].enclosingScope # 0
    BY <1>1, <1>6, <1>7, <1>8
  <2>2. ScopeOutside(scopes', c, node.kind) = currentScope
    BY <1>3, <1>7, <1>8 DEF ScopeOutside
  <2> QED  BY <1>1, <1>2, <1>5, <1>8, <1>11, <1>12, <2>1, <2>2, PassesOpens
<1> QED  BY <1>1, <1>5, <1>11, <1>13, PassesOthers

LEMMA AtTheTop ==
  ASSUME Rest, pass = "DefWalk", AtGlobal
  PROVE  currentScope = 1 /\ open = <<>>
<1>1. open = <<>> /\ Innermost = 0
  BY DEF AtGlobal, Innermost
<1>2. PICK m : Placed(m)
  BY DEF Rest, BodiesOK
<1> QED  BY <1>1, <1>2 DEF Placed

\* The scope of a subroutine, which its first declaration makes.
ScopeNumber(f) == IF subroutines[f].scope = 0 THEN Len(scopes) + 1 ELSE subroutines[f].scope
KnownScopes(f) == IF subroutines[f].scope = 0 THEN Append(scopes, Scope(1, f)) ELSE scopes

\* The counters of a subroutine that is declared once more.
LEMMA DeclaredFacts ==
  ASSUME TextOK, SubroutinesOK, NEW node, Reads(node), node.names \in Seq(Names),
         node.subroutine \in Subroutines, node.kind = "subroutine", NEW sub, sub = Declared(node),
         NEW old, old = subroutines[node.subroutine]
  PROVE  /\ sub \in SubroutineRecords /\ sub.orderedArgs \in Seq(SymbolIds')
         /\ sub.scope = ScopeNumber(node.subroutine)
         /\ sub.numTimesDeclare = old.numTimesDeclare + 1
         /\ HasBody(node) => sub.numTimesDefined = old.numTimesDefined + 1
         /\ ~HasBody(node) => sub.numTimesDefined = old.numTimesDefined
<1>1. old \in SubroutineRecords /\ old.orderedArgs \in Seq(SymbolIds) /\ Len(scopes) \in Nat
  BY DEF SubroutinesOK
<1>2. PICK a, b, c, d :
        /\ a = (IF old.scope = 0 THEN Len(scopes) + 1 ELSE old.scope)
        /\ b = old.orderedArgs \o [k \in DOMAIN node.names |-> <<This, k>>]
        /\ c = old.numTimesDeclare + 1
        /\ d = (IF HasBody(node) THEN old.numTimesDefined + 1 ELSE old.numTimesDefined)
  OBVIOUS
<1>3. sub = [old EXCEPT !.scope = a, !.orderedArgs = b, !.numTimesDeclare = c, !.numTimesDefined = d]
  <2>1. HasBody(node) <=> node.body
    BY DEF HasBody, Openers
  <2>2. /\ Declared(node) = [old EXCEPT !.scope = IF @ = 0 THEN Len(scopes) + 1 ELSE @,
                                      !.orderedArgs = @ \o [k \in DOMAIN node.names |-> <<This, k>>],
                                      !.numTimesDeclare = @ + 1,
                                      !.numTimesDefined = IF node.body THEN @ + 1 ELSE @]
    BY DEF Declared
  <2> QED  BY <1>1, <1>2, <2>1, <2>2 DEF SubroutineRecords
<1>4. a \in Nat /\ c \in Nat /\ d \in Nat
  <2>1. old.scope \in Nat /\ old.numTimesDeclare \in Nat /\ old.numTimesDefined \in Nat
    BY <1>1 DEF SubroutineRecords
  <2>2. /\ a = (IF old.scope = 0 THEN Len(scopes) + 1 ELSE old.scope)
        /\ c = old.numTimesDeclare + 1
        /\ d = (IF HasBody(node) THEN old.numTimesDefined + 1 ELSE old.numTimesDefined)
    BY <1>2
  <2>3. Len(scopes) \in Nat
    BY <1>1
  <2> QED  BY ONLY <2>1, <2>2, <2>3
<1>5. b \in Seq(SymbolIds') /\ b \in Seq(Nat \X Nat)
  <2>1. PICK t : t = [k \in DOMAIN node.names |-> <<This, k>>]
    OBVIOUS
  <2>2. Len(node.names) \in Nat /\ DOMAIN node.names = 1 .. Len(node.names)
    OBVIOUS
  <2>3. SymbolIds \subseteq SymbolIds' /\ SymbolIds' \subseteq Nat \X Nat
        /\ \A k \in DOMAIN node.names : <<This, k>> \in SymbolIds'
    BY SymbolsGrow
  <2> HIDE DEF SymbolIds
  <2>4. t \in [1 .. Len(node.names) -> SymbolIds']
    BY <2>1, <2>2, <2>3
  <2>5. t \in Seq(SymbolIds') /\ old.orderedArgs \in Seq(SymbolIds')
    <3>1. PICK X : X = SymbolIds'
      OBVIOUS
    <3>2. t \in Seq(X)
      BY ONLY <2>2, <2>4, <3>1, SeqDef
    <3>3. old.orderedArgs \in Seq(X)
      BY <1>1, <2>3, <3>1, WiderSequence
    <3> QED  BY <3>1, <3>2, <3>3
  <2>6. b = old.orderedArgs \o t
    BY <1>2, <2>1
  <2>7. b \in Seq(SymbolIds')
    BY <2>5, <2>6, ConcatProperties
  <2> QED  BY <2>3, <2>7, WiderSequence
<1>6. sub = [scope |-> a, orderedArgs |-> b, numTimesDeclare |-> c, numTimesDefined |-> d]
  BY <1>1, <1>3 DEF SubroutineRecords
<1> HIDE DEF SymbolIds
<1>7. sub \in SubroutineRecords
  BY <1>4, <1>5, <1>6 DEF SubroutineRecords
<1>8. sub.scope = a /\ sub.orderedArgs = b /\ sub.numTimesDeclare = c /\ sub.numTimesDefined = d
  BY <1>6
<1>9. a = ScopeNumber(node.subroutine)
  BY <1>2 DEF ScopeNumber
<1>10. /\ c = old.numTimesDeclare + 1
       /\ HasBody(node) => d = old.numTimesDefined + 1
       /\ ~HasBody(node) => d = old.numTimesDefined
  BY <1>2
<1> QED  BY ONLY <1>5, <1>7, <1>8, <1>9, <1>10

\* The scopes once the subroutine has one.
LEMMA KnownFacts ==
  ASSUME TextOK, ScopesOK, SubroutinesOK, NEW f \in Subroutines, NEW a, NEW known,
         a = ScopeNumber(f), known = KnownScopes(f)
  PROVE  /\ known \in Seq(ScopeRecords) /\ Len(scopes) \in Nat \ {0}
         /\ Len(known) \in {Len(scopes), Len(scopes) + 1}
         /\ \A s \in 1 .. Len(scopes) : known[s] = scopes[s]
         /\ \A s \in Len(scopes) + 1 .. Len(known) :
              /\ known[s].enclosingScope = 1 /\ Unmarked(known[s])
              /\ \A n \in DOMAIN known[s].symbols : FALSE
         /\ a \in 1 .. Len(known) /\ known[a].enclosingScope = 1
<1>1. scopes \in Seq(ScopeRecords) /\ Len(scopes) \in Nat \ {0}
  BY DEF ScopesOK
<1>2. CASE subroutines[f].scope # 0
  BY <1>1, <1>2 DEF SubroutinesOK, ScopeNumber, KnownScopes
<1>3. CASE subroutines[f].scope = 0
  <2>1. PICK x : x = Scope(1, f)
    OBVIOUS
  <2>2. /\ x \in ScopeRecords /\ x.enclosingScope = 1
        /\ Unmarked(x) /\ \A n \in DOMAIN x.symbols : FALSE
    BY <2>1, NewScope
  <2>3. known = Append(scopes, x) /\ a = Len(scopes) + 1
    BY <1>3, <2>1 DEF ScopeNumber, KnownScopes
  <2>4. /\ known \in Seq(ScopeRecords) /\ Len(known) = Len(scopes) + 1 /\ known[Len(scopes) + 1] = x
        /\ \A s \in 1 .. Len(scopes) : known[s] = scopes[s]
    <3> HIDE DEF ScopeRecords
    <3> QED  BY <1>1, <2>2, <2>3, AppendFacts
  <2>5. \A s \in Len(scopes) + 1 .. Len(known) : s = Len(scopes) + 1
    BY <1>1, <2>4
  <2> QED  BY <1>1, <2>2, <2>3, <2>4, <2>5
<1> QED  BY <1>2, <1>3

\* One subroutine of the table changes.
LEMMA SetSubroutine ==
  ASSUME SubroutinesOK, NEW f \in Subroutines, NEW sub \in SubroutineRecords,
         subroutines' = [subroutines EXCEPT ![f] = sub]
  PROVE  /\ subroutines' \in [Subroutines -> SubroutineRecords]
         /\ \A g \in Subroutines : subroutines'[g] = IF g = f THEN sub ELSE subroutines[g]
<1>1. subroutines \in [Subroutines -> SubroutineRecords]
  BY DEF SubroutinesOK
<1> HIDE DEF SubroutineRecords
<1> QED  BY <1>1

\* The subroutine has been declared once more, and may now have a scope.
LEMMA SubroutineDeclared ==
  ASSUME IInv, NEW node, Passes(node), Rest', node.kind = "subroutine",
         NEW f \in Subroutines, node.subroutine = f, UNCHANGED typeSymbols,
         NEW sub \in SubroutineRecords, subroutines' = [subroutines EXCEPT ![f] = sub],
         sub.orderedArgs \in Seq(SymbolIds'), sub.scope \in 1 .. Len(scopes'),
         scopes'[sub.scope].enclosingScope = 1,
         ~(sub.numTimesDeclare > 2), sub.numTimesDeclare = subroutines[f].numTimesDeclare + 1,
         HasBody(node) => sub.numTimesDefined = subroutines[f].numTimesDefined + 1,
         ~HasBody(node) => sub.numTimesDefined = subroutines[f].numTimesDefined
  PROVE  IInv'
<1>1. /\ Reads(node) /\ pass = "DefWalk" /\ UNCHANGED <<pass, at>> /\ Extended /\ Walking
      /\ SubroutinesOK /\ CountersOK /\ TypedefsOK
  BY DEF Passes, IInv, Walking
<1>2. /\ subroutines' \in [Subroutines -> SubroutineRecords]
      /\ \A g \in Subroutines : subroutines'[g] = IF g = f THEN sub ELSE subroutines[g]
  BY <1>1, SetSubroutine
<1>3. ASSUME NEW g \in Subroutines
      PROVE  /\ subroutines'[g].scope \in 0 .. Len(scopes')
             /\ subroutines'[g].scope # 0 => scopes'[subroutines'[g].scope].enclosingScope = 1
             /\ subroutines'[g].orderedArgs \in Seq(SymbolIds')
             /\ subroutines'[g].numTimesDeclare \in 0 .. 2 /\ subroutines'[g].numTimesDefined \in 0 .. 2
             /\ subroutines'[g].numTimesDefined <= subroutines'[g].numTimesDeclare
  <2>1. CASE g = f
    <3>1. subroutines'[g] = sub
      BY <1>2, <2>1
    <3>2. /\ subroutines[f].numTimesDeclare \in 0 .. 2 /\ subroutines[f].numTimesDefined \in 0 .. 2
          /\ subroutines[f].numTimesDefined <= subroutines[f].numTimesDeclare
      BY <1>1 DEF SubroutinesOK
    <3>3. /\ sub.numTimesDeclare \in 0 .. 2 /\ sub.numTimesDefined \in 0 .. 2
          /\ sub.numTimesDefined <= sub.numTimesDeclare
      BY <3>2
    <3>4. sub.scope \in 0 .. Len(scopes')
      BY <1>1 DEF Extended
    <3> HIDE DEF SymbolIds, SubroutineRecords
    <3> QED  BY <3>1, <3>3, <3>4
  <2>2. CASE g # f
    <3>1. subroutines'[g] = subroutines[g]
      BY <1>2, <2>2
    <3>2. subroutines[g].orderedArgs \in Seq(SymbolIds')
      <4>1. SymbolIds \subseteq SymbolIds'
        BY <1>1, SymbolsGrow
      <4> HIDE DEF SymbolIds
      <4> QED  BY <1>1, <4>1, WiderSequence DEF SubroutinesOK
    <3>3. /\ subroutines[g].scope \in 0 .. Len(scopes')
          /\ subroutines[g].scope # 0 => scopes'[subroutines[g].scope].enclosingScope = 1
      BY <1>1 DEF SubroutinesOK, Extended
    <3> HIDE DEF SymbolIds, SubroutineRecords
    <3> QED  BY <1>1, <3>1, <3>2, <3>3 DEF SubroutinesOK
  <2> QED  BY <2>1, <2>2
<1>4. SubroutinesOK'
  <2> HIDE DEF SymbolIds
  <2> QED  BY <1>2, <1>3 DEF SubroutinesOK
<1>5. CountersOK'
  <2>1. /\ \A g : Declarations(g)' = Declarations(g) \cup
              (IF node.kind = "subroutine" /\ node.subroutine = g THEN {This} ELSE {})
        /\ program'[This] = node
        /\ \A g : \A j \in Declarations(g) : program'[j] = program[j]
    BY <1>1, BodiesGrow, TextGrows DEF Declarations
  <2>2. ASSUME NEW g \in Subroutines
        PROVE  /\ subroutines'[g].numTimesDeclare = 0 <=> Declarations(g)' = {}
               /\ subroutines'[g].numTimesDefined # 0 => \E j \in Declarations(g)' : program'[j].body
    <3> HIDE DEF Declarations
    <3>1. CASE g # f
      <4>1. Declarations(g)' = Declarations(g) /\ subroutines'[g] = subroutines[g]
        BY <1>2, <2>1, <3>1
      <4> QED  BY <1>1, <2>1, <4>1 DEF CountersOK
    <3>2. CASE g = f
      <4>1. Declarations(g)' = Declarations(g) \cup {This} /\ subroutines'[g] = sub
        BY <1>2, <2>1, <3>2
      <4>2. sub.numTimesDeclare # 0
        BY <1>1 DEF SubroutinesOK
      <4>3. CASE HasBody(node)
        <5>1. node.body
          BY <4>3 DEF HasBody
        <5> QED  BY <2>1, <4>1, <4>2, <5>1
      <4>4. CASE ~HasBody(node)
        <5>1. sub.numTimesDefined # 0 => \E j \in Declarations(f) : program[j].body
          BY <1>1, <4>4 DEF CountersOK
        <5> QED  BY <2>1, <3>2, <4>1, <4>2, <5>1
      <4> QED  BY <4>3, <4>4
    <3> QED  BY <3>1, <3>2
  <2> HIDE DEF Declarations
  <2> QED  BY <2>2 DEF CountersOK
<1>6. TypedefsOK'
  BY <1>1, TypedefsKept
<1> QED  BY <1>4, <1>5, <1>6 DEF IInv

LEMMA SubroutineStep ==
  ASSUME IInv, VisitSubroutineDeclDef
  PROVE  IInv'
<1>1. PICK f \in Subroutines, parameters \in ParameterLists, body \in BOOLEAN :
        LET node == [Node("subroutine", NextLine) EXCEPT !.subroutine = f,
                       !.names = parameters, !.body = body]
            sub == Declared(node)
            known == IF subroutines[f].scope = 0 THEN Append(scopes, Scope(1, f)) ELSE scopes
        IN  /\ AtGlobal /\ Read(node)
            /\ IF sub.numTimesDeclare > 2 THEN Throw
               ELSE /\ subroutines' = [subroutines EXCEPT ![f] = sub]
                    /\ hasMainProcedure' = (hasMainProcedure \/ f = main)
                    /\ Identify(NoIdentifiers)
                    /\ UNCHANGED <<pass, typeSymbols>>
                    /\ IF body
                       THEN /\ open' = Append(open, This)
                            /\ scopes' = Append(known, LocalScope(sub.scope))
                            /\ currentScope' = Len(known) + 1
                       ELSE /\ scopes' = known
                            /\ UNCHANGED <<open, currentScope>>
  BY ZenonT(30) DEF VisitSubroutineDeclDef
<1>2. PICK node, sub, known, old :
        /\ node = [Node("subroutine", NextLine) EXCEPT !.subroutine = f, !.names = parameters, !.body = body]
        /\ sub = Declared(node) /\ old = subroutines[f]
        /\ known = IF subroutines[f].scope = 0 THEN Append(scopes, Scope(1, f)) ELSE scopes
  OBVIOUS
<1>3. /\ AtGlobal /\ Read(node)
      /\ sub.numTimesDeclare > 2 => Throw
      /\ ~(sub.numTimesDeclare > 2) =>
           /\ subroutines' = [subroutines EXCEPT ![f] = sub]
           /\ hasMainProcedure' = (hasMainProcedure \/ f = main)
           /\ Identify(NoIdentifiers) /\ UNCHANGED <<pass, typeSymbols>>
           /\ body => /\ open' = Append(open, This)
                      /\ scopes' = Append(known, LocalScope(sub.scope))
                      /\ currentScope' = Len(known) + 1
           /\ ~body => scopes' = known /\ UNCHANGED <<open, currentScope>>
  BY <1>1, <1>2
<1>4. TextOK /\ ScopesOK /\ Rest /\ SubroutinesOK /\ CountersOK /\ TypedefsOK
  BY DEF IInv, Rest
<1>5. node \in Nodes /\ node.kind = "subroutine" /\ node.names \in Seq(Names)
      /\ node.subroutine = f /\ (HasBody(node) <=> body)
  <2>1. /\ NextLine \in Nat /\ "subroutine" \in Kinds
        /\ parameters \in Seq(Names) /\ <<>> \in Seq(Names)
    BY <1>4, LineFacts, EmptyLists, ListsAssumption DEF Kinds, Openers
  <2>2. parameters \in Seq(Names \cup Typedefs)
    BY <2>1, WiderSequence
  <2>3. node = [kind |-> "subroutine", line |-> NextLine, names |-> parameters, domains |-> <<>>,
                use |-> noName, subroutine |-> f, body |-> body, const |-> FALSE]
    BY <1>2 DEF Node
  <2>4. HasBody(node) <=> body
    BY <2>3 DEF HasBody, Openers
  <2> HIDE DEF noName, builtIn, Kinds
  <2> QED  BY <2>1, <2>2, <2>3, <2>4 DEF Nodes
<1>6. /\ Reads(node) /\ pass = "DefWalk" /\ Len(program) < shape[all]
      /\ UNCHANGED <<shape, at, named, resolved>> /\ SubroutineNamed(node)
  BY <1>3, <1>4, <1>5, ReadFacts DEF SubroutineNamed
<1>7. CASE sub.numTimesDeclare > 2
  BY <1>3, <1>6, <1>7, RejectsNode
<1>8. CASE ~(sub.numTimesDeclare > 2)
  <2>1. /\ subroutines' = [subroutines EXCEPT ![f] = sub]
        /\ hasMainProcedure' \in BOOLEAN /\ identifiers' = Append(identifiers, NoIdentifiers)
        /\ UNCHANGED <<pass, typeSymbols>>
    BY <1>3, <1>4, <1>8 DEF Identify, TextOK
  <2>2. /\ sub \in SubroutineRecords /\ sub.orderedArgs \in Seq(SymbolIds')
        /\ sub.scope = ScopeNumber(f)
        /\ sub.numTimesDeclare = old.numTimesDeclare + 1
        /\ HasBody(node) => sub.numTimesDefined = old.numTimesDefined + 1
        /\ ~HasBody(node) => sub.numTimesDefined = old.numTimesDefined
    <3> HIDE DEF SymbolIds
    <3>1. node.names \in Seq(Names) /\ node.subroutine \in Subroutines /\ node.kind = "subroutine"
          /\ old = subroutines[node.subroutine] /\ sub = Declared(node) /\ node.subroutine = f
      BY <1>2, <1>5
    <3> QED  BY ONLY <1>4, <1>6, <3>1, DeclaredFacts
  <2>3. /\ known \in Seq(ScopeRecords) /\ Len(scopes) \in Nat \ {0}
        /\ Len(known) \in {Len(scopes), Len(scopes) + 1}
        /\ \A s \in 1 .. Len(scopes) : known[s] = scopes[s]
        /\ \A s \in Len(scopes) + 1 .. Len(known) :
             /\ known[s].enclosingScope = 1 /\ Unmarked(known[s])
             /\ \A n \in DOMAIN known[s].symbols : FALSE
        /\ sub.scope \in 1 .. Len(known) /\ known[sub.scope].enclosingScope = 1
    <3>1. PICK a : a = sub.scope
      OBVIOUS
    <3>2. a = ScopeNumber(f) /\ known = KnownScopes(f)
      BY <1>2, <2>2, <3>1 DEF KnownScopes
    <3>3. /\ known \in Seq(ScopeRecords) /\ Len(scopes) \in Nat \ {0}
          /\ Len(known) \in {Len(scopes), Len(scopes) + 1}
          /\ \A s \in 1 .. Len(scopes) : known[s] = scopes[s]
          /\ \A s \in Len(scopes) + 1 .. Len(known) :
               /\ known[s].enclosingScope = 1 /\ Unmarked(known[s])
               /\ \A n \in DOMAIN known[s].symbols : FALSE
          /\ a \in 1 .. Len(known) /\ known[a].enclosingScope = 1
      BY ONLY <1>4, <3>2, KnownFacts
    <3> QED  BY <3>1, <3>3
  <2>4. currentScope = 1 /\ open = <<>>
    BY <1>3, <1>4, <1>6, AtTheTop
  <2>5. SymbolIds \subseteq SymbolIds'
    BY <1>6, SymbolsGrow
  <2>6. \A s \in 1 .. Len(known) :
          /\ known[s].enclosingScope \in 0 .. s - 1
          /\ \A n \in DOMAIN known[s].symbols : known[s].symbols[n] \in SymbolIds'
    <3>1. \A s \in 1 .. Len(known) : s \in 1 .. Len(scopes) \/ s \in Len(scopes) + 1 .. Len(known)
      BY <2>3
    <3>2. \A s \in 1 .. Len(scopes) :
            /\ known[s].enclosingScope \in 0 .. s - 1
            /\ \A n \in DOMAIN known[s].symbols : known[s].symbols[n] \in SymbolIds'
      <4> HIDE DEF SymbolIds
      <4> QED  BY <1>4, <2>3, <2>5 DEF ScopesOK
    <3>3. \A s \in Len(scopes) + 1 .. Len(known) :
            /\ known[s].enclosingScope \in 0 .. s - 1
            /\ \A n \in DOMAIN known[s].symbols : known[s].symbols[n] \in SymbolIds'
      BY <2>3
    <3> HIDE DEF SymbolIds
    <3> QED  BY <3>1, <3>2, <3>3
  <2>7. CASE ~HasBody(node)
    <3>1. scopes' = known /\ UNCHANGED <<open, currentScope>>
      BY <1>3, <1>5, <1>8, <2>7
    <3>2. ScopesOK'
      <4>1. currentScope' \in 1 .. Len(scopes')
        BY <2>3, <2>4, <3>1
      <4> HIDE DEF SymbolIds
      <4> QED  BY <2>3, <2>6, <3>1, <4>1 DEF ScopesOK
    <3>3. Extended
      BY <2>3, <3>1 DEF Extended
    <3>4. Passes(node)
      <4>1. identifiers' = Append(identifiers, NoIdentifiers)
        BY <2>1
      <4> HIDE DEF NoIdentifiers
      <4> QED  BY <1>6, <2>1, <3>2, <3>3, <4>1, EmptyNumbering DEF Passes
    <3>5. MarksLittle(node)
      BY <1>5, <2>3, <3>1 DEF MarksLittle, SameMarks, SameReturn, SameTable
    <3>6. Rest'
      BY <1>4, <1>5, <2>7, <3>1, <3>4, <3>5, PassesPlain
    <3> HIDE DEF SymbolIds
    <3> QED  BY <1>2, <1>5, <1>8, <2>1, <2>2, <2>3, <3>1, <3>4, <3>6, SubroutineDeclared
  <2>8. CASE HasBody(node)
    <3>1. /\ open' = Append(open, This)
          /\ scopes' = Append(known, LocalScope(sub.scope)) /\ currentScope' = Len(known) + 1
      BY <1>3, <1>5, <1>8, <2>8
    <3>2. PICK c, x : c = Len(known) + 1 /\ x = LocalScope(sub.scope)
      OBVIOUS
    <3>3. /\ sub.scope \in Nat /\ x \in ScopeRecords /\ x.enclosingScope = sub.scope
          /\ Unmarked(x) /\ \A n \in DOMAIN x.symbols : FALSE
      <4>1. sub.scope \in Nat
        BY <2>3
      <4> QED  BY <3>2, <4>1, NewLocalScope
    <3>4. /\ scopes' \in Seq(ScopeRecords) /\ Len(scopes') = c /\ scopes'[c] = x /\ Len(known) \in Nat
          /\ \A s \in 1 .. Len(known) : scopes'[s] = known[s]
      <4>1. scopes' = Append(known, x)
        BY <3>1, <3>2
      <4> HIDE DEF ScopeRecords
      <4> QED  BY <2>3, <3>2, <3>3, <4>1, AppendFacts
    <3>5. \A s \in 1 .. Len(scopes') : s \in 1 .. Len(known) \/ s = c
      BY <3>2, <3>4
    <3>6. ScopesOK'
      <4>1. currentScope' \in 1 .. Len(scopes')
        BY <3>1, <3>2, <3>4
      <4>2. /\ scopes'[c].enclosingScope \in 0 .. c - 1
            /\ \A n \in DOMAIN scopes'[c].symbols : scopes'[c].symbols[n] \in SymbolIds'
        BY <2>3, <3>2, <3>3, <3>4
      <4> HIDE DEF SymbolIds
      <4> QED  BY <2>6, <3>4, <3>5, <4>1, <4>2 DEF ScopesOK
    <3>7. Extended
      BY <2>3, <3>2, <3>4 DEF Extended
    <3>8. Passes(node)
      <4>1. identifiers' = Append(identifiers, NoIdentifiers)
        BY <2>1
      <4> HIDE DEF NoIdentifiers
      <4> QED  BY <1>6, <2>1, <3>6, <3>7, <4>1, EmptyNumbering DEF Passes
    <3>9. MarksLittle(node)
      <4>1. \A s \in 1 .. Len(scopes) : scopes'[s] = scopes[s]
        BY <2>3, <3>4
      <4>2. ASSUME NEW s \in Len(scopes) + 1 .. Len(scopes') PROVE Unmarked(scopes'[s])
        <5>1. s = c \/ (s \in 1 .. Len(known) /\ s \in Len(scopes) + 1 .. Len(known))
          BY <2>3, <3>2, <3>4
        <5> QED  BY <2>3, <3>3, <3>4, <5>1
      <4> QED  BY <1>5, <4>1, <4>2 DEF MarksLittle, SameMarks, SameReturn, SameTable
    <3>10. Rest'
      <4>1. c \in Len(scopes) + 1 .. Len(scopes') /\ currentScope' = c /\ scopes'[c].enclosingScope # 0
        BY <2>3, <3>1, <3>2, <3>3, <3>4
      <4>2. ScopeOutside(scopes', c, node.kind) = currentScope
        BY <1>5, <2>3, <2>4, <3>3, <3>4 DEF ScopeOutside
      <4>3. node.kind # "return" /\ \A n \in DOMAIN scopes'[c].symbols : FALSE
        BY <1>5, <3>3, <3>4
      <4> QED  BY <1>4, <2>8, <3>1, <3>8, <3>9, <4>1, <4>2, <4>3, PassesOpens
    <3>11. sub.scope \in 1 .. Len(scopes') /\ scopes'[sub.scope].enclosingScope = 1
      BY <2>3, <3>2, <3>4
    <3> HIDE DEF SymbolIds
    <3> QED  BY <1>2, <1>5, <1>8, <2>1, <2>2, <3>8, <3>10, <3>11, SubroutineDeclared
  <2> QED  BY <2>7, <2>8
<1> QED  BY <1>7, <1>8

LEMMA TypedefStep ==
  ASSUME IInv, VisitTypedefStatement
  PROVE  IInv'
<1>1. PICK t, target, node :
        /\ t \in Typedefs /\ target \in Typedefs \cup {builtIn}
        /\ node = [Node("typedef", NextLine) EXCEPT !.names = <<t>>, !.use = target]
        /\ Read(node)
        /\ t \in DOMAIN typeSymbols => Throw
        /\ t \notin DOMAIN typeSymbols =>
             /\ typeSymbols' = [s \in DOMAIN typeSymbols \cup {t} |-> unset]
             /\ Identify(NoIdentifiers)
             /\ UNCHANGED <<pass, open, scopes, currentScope, subroutines, hasMainProcedure>>
  BY DEF VisitTypedefStatement
<1>u. t \in Typedefs /\ target \in Typedefs \cup {builtIn}
  BY <1>1
<1> USE <1>u
<1>2. TextOK /\ ScopesOK /\ Rest /\ SubroutinesOK /\ CountersOK /\ TypedefsOK
  BY DEF IInv, Rest
<1>3. node \in Nodes /\ node.kind = "typedef" /\ node.names[1] = t
  <2>1. /\ NextLine \in Nat /\ "typedef" \in Kinds
        /\ <<t>> \in Seq(Names \cup Typedefs) /\ <<>> \in Seq(Names)
    BY <1>2, LineFacts, EmptyLists DEF Kinds, Openers
  <2>2. node = [kind |-> "typedef", line |-> NextLine, names |-> <<t>>, domains |-> <<>>,
                use |-> target, subroutine |-> noName, body |-> FALSE, const |-> FALSE]
    BY <1>1 DEF Node
  <2> HIDE DEF noName, builtIn, Kinds
  <2> QED  BY <2>1, <2>2 DEF Nodes
<1>4. /\ Reads(node) /\ pass = "DefWalk" /\ Len(program) < shape[all]
      /\ UNCHANGED <<shape, at, named, resolved>>
  BY <1>1, <1>2, <1>3, ReadFacts
<1>5. SubroutineNamed(node) /\ ~HasBody(node) /\ node.kind \notin {"close", "subroutine", "return"}
  BY <1>3 DEF SubroutineNamed, HasBody, Openers
<1>6. CASE t \in DOMAIN typeSymbols
  BY <1>1, <1>4, <1>5, <1>6, RejectsNode
<1>7. CASE t \notin DOMAIN typeSymbols
  <2>1. /\ typeSymbols' = [s \in DOMAIN typeSymbols \cup {t} |-> unset]
        /\ identifiers' = Append(identifiers, NoIdentifiers)
        /\ UNCHANGED <<pass, open, scopes, currentScope, subroutines, hasMainProcedure>>
    BY <1>1, <1>7 DEF Identify
  <2>2. ScopesOK' /\ Extended
    BY <1>2, <1>4, <2>1, ScopesKept, Unextended
  <2>3. Passes(node)
    <3> HIDE DEF NoIdentifiers
    <3> QED  BY <1>2, <1>4, <1>5, <2>1, <2>2, EmptyNumbering DEF Passes, TextOK
  <2>4. MarksLittle(node)
    <3>1. Len(scopes) \in Nat
      BY <1>2 DEF ScopesOK
    <3> QED  BY <1>5, <2>1, <3>1 DEF MarksLittle, SameMarks, SameReturn, SameTable
  <2>5. Rest'
    BY <1>2, <1>5, <2>1, <2>3, <2>4, PassesPlain
  <2>6. SubroutinesOK' /\ CountersOK'
    <3>1. Walking
      BY <1>4 DEF Walking
    <3> QED  BY <1>2, <1>3, <1>4, <2>1, <2>2, <3>1, SubroutinesKept, CountersKept
  <2>7. TypedefsOK'
    <3>1. /\ DOMAIN typeSymbols' = DOMAIN typeSymbols \cup {t}
          /\ \A s \in DOMAIN typeSymbols' : typeSymbols'[s] = unset
      BY <2>1
    <3>2. /\ \A i \in DOMAIN program : program'[i] = program[i]
          /\ DOMAIN program' = DOMAIN program \cup {This} /\ This \notin DOMAIN program
          /\ program'[This] = node
      BY <1>4, TextGrows
    <3>3. ASSUME NEW i \in DOMAIN program', IsTypedef(i)'
          PROVE  /\ i = This => TypedefName(i)' = t
                 /\ i # This => i \in DOMAIN program /\ IsTypedef(i) /\ TypedefName(i)' = TypedefName(i)
                                /\ TypedefName(i) \in DOMAIN typeSymbols
      <4>1. i = This => TypedefName(i)' = t
        BY <1>3, <3>2 DEF TypedefName
      <4>2. i # This => i \in DOMAIN program /\ IsTypedef(i) /\ TypedefName(i)' = TypedefName(i)
        BY <3>2, <3>3 DEF TypedefName, IsTypedef
      <4>3. \A j \in DOMAIN program : IsTypedef(j) => TypedefName(j) \in DOMAIN typeSymbols
        BY <1>2, <1>4 DEF TypedefsOK, Walking
      <4> QED  BY <4>1, <4>2, <4>3
    <3>4. \A i, j \in DOMAIN program :
            IsTypedef(i) /\ IsTypedef(j) /\ j # i => TypedefName(j) # TypedefName(i)
      BY <1>2, <1>4 DEF TypedefsOK, Walking
    <3>5. ASSUME NEW i \in DOMAIN program', IsTypedef(i)'
          PROVE  /\ TypedefName(i)' \in DOMAIN typeSymbols'
                 /\ typeSymbols'[TypedefName(i)'] = unset
                 /\ \A j \in DOMAIN program' : IsTypedef(j)' /\ j # i => TypedefName(j)' # TypedefName(i)'
      <4>1. TypedefName(i)' \in DOMAIN typeSymbols'
        BY <3>1, <3>3, <3>5
      <4>2. ASSUME NEW j \in DOMAIN program', IsTypedef(j)', j # i
            PROVE  TypedefName(j)' # TypedefName(i)'
        <5> HIDE DEF TypedefName, IsTypedef
        <5> QED  BY <1>7, <3>3, <3>4, <3>5, <4>2
      <4> QED  BY <3>1, <4>1, <4>2
    <3>6. DOMAIN typeSymbols' \subseteq Typedefs
      BY <1>2, <3>1 DEF TypedefsOK
    <3> HIDE DEF TypedefName, IsTypedef
    <3> QED  BY <3>1, <3>5, <3>6 DEF TypedefsOK, Resolvable
  <2> QED  BY <2>5, <2>6, <2>7 DEF IInv
<1> QED  BY <1>6, <1>7

LEMMA LeaveStep ==
  ASSUME IInv, Leave
  PROVE  IInv'
<1>1. PICK node, kind :
        /\ node = Node("close", NextLine) /\ kind = program[Last(open)].kind
        /\ ~AtGlobal /\ Read(node) /\ Identify(NoIdentifiers)
        /\ scopes' = Marked(kind) /\ currentScope' = PoppedScope(kind)
        /\ open' = Front(open)
        /\ UNCHANGED <<pass, subroutines, typeSymbols, hasMainProcedure>>
  BY DEF Leave
<1>2. TextOK /\ ScopesOK /\ Rest
  BY DEF IInv, Rest
<1>3. node \in Nodes /\ node.kind = "close"
  <2>1. /\ NextLine \in Nat /\ "close" \in Kinds
        /\ <<>> \in Seq(Names \cup Typedefs) /\ <<>> \in Seq(Names)
    BY <1>2, LineFacts, EmptyLists DEF Kinds
  <2>2. node = [kind |-> "close", line |-> NextLine, names |-> <<>>, domains |-> <<>>,
                use |-> noName, subroutine |-> noName, body |-> FALSE, const |-> FALSE]
    BY <1>1 DEF Node
  <2> HIDE DEF noName, builtIn, Kinds
  <2> QED  BY <2>1, <2>2 DEF Nodes
<1>4. /\ Reads(node) /\ pass = "DefWalk" /\ Len(program) < shape[all]
      /\ UNCHANGED <<shape, at, named, resolved>>
  BY <1>1, <1>2, <1>3, ReadFacts
<1>5. /\ SubroutineNamed(node) /\ ~HasBody(node) /\ open # <<>>
      /\ node.kind \notin {"subroutine", "typedef", "return"}
  BY <1>1, <1>3 DEF SubroutineNamed, HasBody, Openers, AtGlobal
<1>6. /\ scopes' \in Seq(ScopeRecords) /\ Len(scopes') = Len(scopes) /\ Len(scopes) \in Nat
      /\ \A s \in 1 .. Len(scopes) :
           /\ scopes'[s].enclosingScope = scopes[s].enclosingScope
           /\ scopes'[s].symbols = scopes[s].symbols
           /\ scopes'[s].parentIsLoop
                <=> scopes[s].parentIsLoop \/ (s = currentScope /\ kind \in {"loop", "iterator"})
           /\ scopes'[s].parentIsConditional
                <=> scopes[s].parentIsConditional \/ (s = currentScope /\ kind \in {"conditional"})
           /\ SameReturn(s)
  <2>1. /\ scopes[currentScope] \in ScopeRecords /\ scopes \in Seq(ScopeRecords)
        /\ currentScope \in 1 .. Len(scopes)
    BY <1>2, ElementOfSeq DEF ScopesOK
  <2> DEFINE q == scopes[currentScope]
             r == [q EXCEPT !.parentIsLoop = @ \/ kind \in {"loop", "iterator"},
                            !.parentIsConditional = @ \/ kind = "conditional"]
  <2>2. /\ r \in ScopeRecords /\ r.enclosingScope = q.enclosingScope /\ r.symbols = q.symbols
        /\ r.parentIsLoop <=> q.parentIsLoop \/ kind \in {"loop", "iterator"}
        /\ r.parentIsConditional <=> q.parentIsConditional \/ kind \in {"conditional"}
        /\ r.containReturn = q.containReturn
    BY <2>1 DEF ScopeRecords
  <2>3. scopes' = [scopes EXCEPT ![currentScope] = r]
    BY <1>1, <2>1 DEF Marked
  <2> HIDE DEF r
  <2>4. /\ scopes' \in Seq(ScopeRecords) /\ Len(scopes') = Len(scopes) /\ Len(scopes) \in Nat
        /\ \A s \in 1 .. Len(scopes) : scopes'[s] = IF s = currentScope THEN r ELSE scopes[s]
    <3> HIDE DEF ScopeRecords
    <3> QED  BY <2>1, <2>2, <2>3, SetElement
  <2>5. ASSUME NEW s \in 1 .. Len(scopes)
        PROVE  /\ scopes'[s].enclosingScope = scopes[s].enclosingScope
               /\ scopes'[s].symbols = scopes[s].symbols
               /\ scopes'[s].parentIsLoop
                    <=> scopes[s].parentIsLoop \/ (s = currentScope /\ kind \in {"loop", "iterator"})
               /\ scopes'[s].parentIsConditional
                    <=> scopes[s].parentIsConditional \/ (s = currentScope /\ kind \in {"conditional"})
               /\ SameReturn(s)
    <3>1. CASE s = currentScope
      BY <2>2, <2>4, <3>1 DEF SameReturn
    <3>2. CASE s # currentScope
      BY <2>4, <3>2 DEF SameReturn
    <3> QED  BY <3>1, <3>2
  <2> QED  BY <2>4, <2>5
<1>7. currentScope' = ScopeOutside(scopes, currentScope, kind)
  BY <1>1 DEF PoppedScope, ScopeOutside
<1>8. Extended
  BY <1>6 DEF Extended
<1>9. ScopesOK'
  <2>1. SymbolIds \subseteq SymbolIds'
    BY <1>4, SymbolsGrow
  <2>2. currentScope' \in 1 .. Len(scopes')
    <3>1. PICK m : Placed(m)
      BY <1>2, <1>4 DEF Rest, BodiesOK
    <3>2. Around(This)
      BY <1>2, <1>4, TextGrows DEF Rest, StackOK
    <3>3. /\ Len(open) \in 1 .. Len(open) /\ Innermost = open[Len(open)] /\ Last(open) = open[Len(open)]
          /\ BodyAround(open, Len(open)) \in Bodies
      BY <1>2, <1>5, <3>2, OpenBodies DEF Last
    <3>4. currentScope = m[open[Len(open)]] /\ m \in [Bodies -> 1 .. Len(scopes)]
          /\ ScopeOutside(scopes, m[open[Len(open)]], program[open[Len(open)]].kind)
               = m[BodyAround(open, Len(open))]
      BY <3>1, <3>3 DEF Placed
    <3>5. currentScope' = m[BodyAround(open, Len(open))]
      BY <1>1, <1>7, <3>3, <3>4
    <3> HIDE DEF Bodies, BodyAround
    <3> QED  BY <1>6, <3>3, <3>4, <3>5
  <2> HIDE DEF SymbolIds
  <2> QED  BY <1>2, <1>6, <2>1, <2>2 DEF ScopesOK
<1>10. Passes(node)
  <2>1. identifiers' = Append(identifiers, NoIdentifiers)
    BY <1>1 DEF Identify
  <2> HIDE DEF NoIdentifiers
  <2> QED  BY <1>1, <1>2, <1>4, <1>5, <1>8, <1>9, <2>1, EmptyNumbering DEF Passes, TextOK
<1>11. Rest'
  <2>1. \A s \in 1 .. Len(scopes) : SameTable(s, node)
    BY <1>6 DEF SameTable
  <2> QED  BY <1>1, <1>2, <1>3, <1>5, <1>6, <1>7, <1>10, <2>1, PassesCloses
<1> QED  BY <1>1, <1>5, <1>10, <1>11, PassesOthers

(***************************************************************************)
(* From the first walk to the second.                                      *)
(***************************************************************************)
\* Nothing that MarksFollowNesting speaks of changes.
LEMMA NestingKept ==
  ASSUME MarksFollowNesting, UNCHANGED <<program, scopes>>, pass' = "RefWalk" => pass = "RefWalk"
  PROVE  MarksFollowNesting'
<1>1. \A i : Body(i)' = Body(i)
  BY DEF Body, Enclosing, Depth
<1>2. /\ \A kinds : NodesOf(kinds)' = NodesOf(kinds)
      /\ LoopBlocks' = LoopBlocks /\ ConditionalBlocks' = ConditionalBlocks
      /\ ReturningBlocks' = ReturningBlocks
  BY DEF NodesOf, LoopBlocks, ConditionalBlocks, ReturningBlocks
<1>3. {Body(i)' : i \in NodesOf({"return"})'} = {Body(i) : i \in NodesOf({"return"})}
  BY <1>1, <1>2
<1> HIDE DEF Body, NodesOf, LoopBlocks, ConditionalBlocks, ReturningBlocks
<1> QED  BY <1>2, <1>3 DEF MarksFollowNesting

LEMMA MainStep ==
  ASSUME IInv, CheckMain
  PROVE  IInv'
<1>1. /\ pass = "DefWalk" /\ AtGlobal /\ pass' \in {"RefWalk", "rejected"}
      /\ UNCHANGED <<shape, program, at, open, tables, named, resolved>>
  BY DEF CheckMain
<1>2. CASE pass' = "rejected"
  BY <1>1, <1>2, Stops
<1>3. CASE pass' = "RefWalk"
  <2> USE DEF tables
  <2>1. TextOK /\ StackOK /\ ScopesOK /\ Rest /\ SubroutinesOK /\ CountersOK /\ TypedefsOK /\ IdentifiersOK
    BY DEF IInv, Rest
  <2>2. at = 1 /\ open = <<>> /\ TextOK'
    BY <1>1, <1>3, <2>1 DEF TextOK, AtGlobal
  <2>3. Around(at)'
    <3>1. Depth[1] = 0
      BY <2>1, DepthsUnfold DEF TextOK, Depth
    <3>2. Len(open) = 0
      BY <2>2
    <3> QED  BY <1>1, <2>2, <3>1, <3>2 DEF Around, Depth
  <2>4. StackOK'
    BY <1>1, <1>3, <2>1, <2>3 DEF StackOK, Walking, Depth
  <2>5. ScopesOK' /\ SubroutinesOK'
    <3>1. SymbolIds' = SymbolIds
      BY <1>1 DEF SymbolIds
    <3> HIDE DEF SymbolIds
    <3> QED  BY <1>1, <1>3, <2>1, <3>1 DEF ScopesOK, SubroutinesOK
  <2>6. CountersOK'
    <3>1. \A f : Declarations(f)' = Declarations(f)
      BY <1>1 DEF Declarations
    <3> HIDE DEF Declarations
    <3> QED  BY <1>1, <2>1, <3>1 DEF CountersOK, Walking
  <2>7. SeenOK'
    BY <1>1, <2>2 DEF SeenOK
  <2>8. TypedefsOK'
    BY <1>1, <1>3, <2>1 DEF TypedefsOK, Walking, Resolvable, IsTypedef, TypedefName
  <2>9. IdentifiersOK'
    <3>1. SymbolIds' = SymbolIds
      BY <1>1 DEF SymbolIds
    <3> HIDE DEF SymbolIds
    <3> QED  BY <1>1, <1>3, <2>1, <3>1 DEF IdentifiersOK, Walking
  <2>10. BodiesOK'
    BY <1>3 DEF BodiesOK
  <2>11. MarksFollowNesting'
    <3>1. PICK m : Placed(m) /\ Marks(m)
      BY <1>1, <2>1 DEF Rest, BodiesOK
    <3>2. /\ Cardinality(NodesOf({"loop", "iterator"})) = Cardinality(LoopBlocks)
          /\ \A s \in LoopBlocks : \A n \in DOMAIN scopes[s].symbols :
               program[scopes[s].symbols[n][1]].kind = "var"
          /\ Cardinality(NodesOf({"conditional"})) = Cardinality(ConditionalBlocks)
          /\ Cardinality({Body(i) : i \in NodesOf({"return"})}) = Cardinality(ReturningBlocks)
      BY <2>1, <2>2, <3>1, NestingMarked
    <3>3. \A i : Body(i)' = Body(i)
      BY <1>1 DEF Body, Enclosing, Depth
    <3>4. /\ \A kinds : NodesOf(kinds)' = NodesOf(kinds)
          /\ LoopBlocks' = LoopBlocks /\ ConditionalBlocks' = ConditionalBlocks
          /\ ReturningBlocks' = ReturningBlocks
      BY <1>1 DEF NodesOf, LoopBlocks, ConditionalBlocks, ReturningBlocks
    <3>5. {Body(i)' : i \in NodesOf({"return"})'} = {Body(i) : i \in NodesOf({"return"})}
      BY <3>3, <3>4
    <3> HIDE DEF Body, NodesOf, LoopBlocks, ConditionalBlocks, ReturningBlocks
    <3> QED  BY <1>1, <3>2, <3>4, <3>5 DEF MarksFollowNesting
  <2> QED  BY <2>2, <2>4, <2>5, <2>6, <2>7, <2>8, <2>9, <2>10, <2>11 DEF IInv, Rest
<1> QED  BY <1>1, <1>2, <1>3

LEMMA TypeWalkStep ==
  ASSUME IInv, TypeWalkIdentifiers
  PROVE  IInv'
<1>1. /\ pass = "RefWalk" /\ at = Len(program) + 1 /\ pass' \in {"accepted", "rejected"}
      /\ UNCHANGED <<shape, program, at, open, tables, named, resolved>>
  BY DEF TypeWalkIdentifiers
<1>2. CASE pass' = "rejected"
  BY <1>1, <1>2, Stops
<1>3. CASE pass' = "accepted"
  <2> USE DEF tables
  <2>1. TextOK /\ ScopesOK /\ SubroutinesOK /\ SeenOK /\ TypedefsOK /\ IdentifiersOK
    BY DEF IInv, Rest
  <2>2. TextOK'
    BY <1>1, <1>3, <2>1 DEF TextOK
  <2>3. StackOK' /\ CountersOK' /\ BodiesOK' /\ MarksFollowNesting'
    BY <1>3 DEF StackOK, CountersOK, BodiesOK, MarksFollowNesting, Walking
  <2>4. ScopesOK' /\ SubroutinesOK' /\ IdentifiersOK'
    <3>1. SymbolIds' = SymbolIds
      BY <1>1 DEF SymbolIds
    <3> HIDE DEF SymbolIds
    <3> QED  BY <1>1, <1>3, <2>1, <3>1 DEF ScopesOK, SubroutinesOK, IdentifiersOK, Walking
  <2>5. SeenOK'
    <3>1. \A f : Declarations(f)' = Declarations(f)
      BY <1>1 DEF Declarations
    <3> HIDE DEF Declarations
    <3> QED  BY <1>1, <2>1, <3>1 DEF SeenOK
  <2>6. TypedefsOK'
    BY <1>1, <1>3, <2>1 DEF TypedefsOK, Walking, Resolvable
  <2> QED  BY <2>2, <2>3, <2>4, <2>5, <2>6 DEF IInv, Rest
<1> QED  BY <1>1, <1>2, <1>3

(***************************************************************************)
(* The steps of RefWalk: what they have in common.                         *)
(***************************************************************************)
LEMMA SymbolIdsType ==
  ASSUME TextOK
  PROVE  SymbolIds \subseteq Nat \X Nat
<1>1. \A i \in DOMAIN program : program[i] \in Nodes /\ i \in Nat
  BY DEF TextOK
<1>2. \A x \in Nodes : DOMAIN x.names \subseteq Nat
  BY DEF Nodes
<1> QED  BY <1>1, <1>2 DEF SymbolIds

\* The identifiers of a node resolve to symbols, or to none.
LEMMA SymbolsType ==
  ASSUME TextOK, ScopesOK, SubroutinesOK, IdentifiersOK, Walking, at \in DOMAIN program
  PROVE  Symbols \in Resolutions /\ \A k \in DOMAIN Symbols : Symbols[k] \in SymbolIds \cup {nullptr}
<1> DEFINE X == SymbolIds \cup {nullptr}
           K == DOMAIN identifiers[at]
<1>1. Chained /\ scopes \in Seq(ScopeRecords)
  BY DEF ScopesOK, Chained
<1>2. ASSUME NEW name, NEW s \in 1 .. Len(scopes) PROVE Here(name, s) \in X
  <2>1. scopes[s] \in ScopeRecords
    BY <1>1, ElementOfSeq
  <2>2. scopes[s].subroutine \in Subroutines \cup {noName}
    BY <2>1 DEF ScopeRecords
  <2>3. scopes[s].subroutine # noName => subroutines[scopes[s].subroutine].orderedArgs \in Seq(X)
    <3>1. SymbolIds \subseteq X
      OBVIOUS
    <3>2. \A f \in Subroutines : subroutines[f].orderedArgs \in Seq(SymbolIds)
      BY DEF SubroutinesOK
    <3> HIDE DEF X, SymbolIds, noName
    <3> QED  BY <2>2, <3>1, <3>2, WiderSequence
  <2>4. \A n \in DOMAIN scopes[s].symbols : scopes[s].symbols[n] \in X
    <3> HIDE DEF SymbolIds
    <3> QED  BY DEF ScopesOK
  <2>5. nullptr \in X
    OBVIOUS
  <2> HIDE DEF X
  <2> QED  BY <2>3, <2>4, <2>5, HereIsHere
<1>3. ASSUME NEW name, NEW s \in 0 .. Len(scopes) PROVE Resolve(name, s) \in X
  <2>1. nullptr \in X
    OBVIOUS
  <2> HIDE DEF X
  <2> QED  BY <1>1, <1>2, <2>1, ResolveType
<1>4. at \in 1 .. Len(identifiers)
  BY DEF IdentifiersOK, Walking, TextOK
<1>5. /\ identifiers[at] \in Numberings
      /\ \A k \in K : identifiers[at][k] \in 1 .. Len(scopes)
  BY <1>4, ElementOfSeq DEF IdentifiersOK
<1>6. K \in SUBSET Nat
  BY <1>5 DEF Numberings
<1>7. \A k \in K : identifiers[at][k] \in 0 .. Len(scopes)
  BY <1>1, <1>5 DEF Chained
<1>8. Symbols = [k \in K |-> Resolve(UsedName(program[at], k), identifiers[at][k])]
  BY DEF Symbols
<1> HIDE DEF K
<1>9. DOMAIN Symbols = K /\ \A k \in K : Symbols[k] \in X
  <2> HIDE DEF X
  <2> QED  BY <1>3, <1>7, <1>8
<1>10. X \subseteq (Nat \X Nat) \cup {nullptr}
  BY SymbolIdsType
<1>11. Symbols \in [K -> (Nat \X Nat) \cup {nullptr}]
  <2> HIDE DEF X
  <2>1. Symbols = [k \in K |-> Symbols[k]]
    BY <1>8
  <2> QED  BY <1>9, <1>10, <2>1
<1> QED  BY <1>6, <1>9, <1>11 DEF Resolutions

\* The node visited lets the walk pass on to the next.
Advances ==
  /\ pass = "RefWalk" /\ at \in DOMAIN program /\ at' = at + 1
  /\ resolved' = Append(resolved, Symbols)
  /\ UNCHANGED <<shape, program, scopes, currentScope, identifiers, hasMainProcedure>>

\* The stack follows the node visited.
Follows ==
  \/ HasBody(program[at]) /\ open' = Append(open, at)
  \/ program[at].kind = "close" /\ open' = Front(open)
  \/ ~HasBody(program[at]) /\ program[at].kind # "close" /\ open' = open

\* The nodes around the node visited are around the next, if they are left
\* open.
LEMMA AroundNext ==
  ASSUME TextOK, Around(at), at \in DOMAIN program, NEW k \in 1 .. Len(open),
         Depth[at + 1] \in Int, Depth[at + 1] >= k
  PROVE  /\ open[k] < at + 1 /\ HasBody(program[open[k]])
         /\ Depth[open[k]] = k - 1
         /\ \A j \in open[k] + 1 .. at + 1 : Depth[j] >= k
<1>1. /\ open[k] < at /\ HasBody(program[open[k]]) /\ Depth[open[k]] = k - 1
      /\ \A j \in open[k] + 1 .. at : Depth[j] >= k
  BY DEF Around
<1>2. DOMAIN program = 1 .. Len(program) /\ Len(program) \in Nat /\ open \in Seq(DOMAIN program)
  BY DEF TextOK
<1>3. open[k] \in DOMAIN program
  BY <1>2, ElementOfSeq
<1>4. at \in Int /\ open[k] \in Int
  BY <1>2, <1>3
<1>5. ASSUME NEW j \in open[k] + 1 .. at + 1 PROVE Depth[j] >= k
  <2>1. j = at + 1 \/ j \in open[k] + 1 .. at
    BY <1>4
  <2> QED  BY <1>1, <2>1
<1> QED  BY <1>1, <1>4, <1>5

LEMMA StackMoves ==
  ASSUME TextOK, StackOK, Advances, Follows, pass' # "DefWalk"
  PROVE  StackOK' /\ open' \in Seq(DOMAIN program')
<1>1. /\ Around(at) /\ \A i \in 1 .. Len(program) + 1 : Depth[i] >= 0
      /\ at \in DOMAIN program /\ at' = at + 1 /\ program' = program
  BY DEF Advances, StackOK, Walking
<1>2. /\ Len(program) \in Nat /\ DOMAIN program = 1 .. Len(program)
      /\ open \in Seq(DOMAIN program) /\ Len(open) \in Nat
  BY DEF TextOK
<1>3. /\ \A i \in 1 .. Len(program) + 1 : Depth[i] \in Int
      /\ Depth[at + 1] = After(program[at], Depth[at])
  BY <1>1, <1>2, DepthsUnfold, DepthsType DEF Depth
<1>4. /\ at \in 1 .. Len(program) + 1 /\ at + 1 \in 1 .. Len(program) + 1 /\ at \in Nat
      /\ Len(open) = Depth[at] /\ Depth[at] \in Int /\ Depth[at + 1] \in Int /\ Depth[at + 1] >= 0
  <2>1. at \in 1 .. Len(program) + 1 /\ at + 1 \in 1 .. Len(program) + 1 /\ at \in Nat
    BY <1>1, <1>2
  <2> QED  BY <1>1, <1>3, <2>1 DEF Around
<1>5. Depth' = Depth
  BY <1>1 DEF Depth
<1> DEFINE Inside(o, k) == /\ o[k] < at + 1 /\ HasBody(program[o[k]])
                           /\ Depth[o[k]] = k - 1
                           /\ \A j \in o[k] + 1 .. at + 1 : Depth[j] >= k
<1>6. ASSUME NEW k \in 1 .. Len(open), Depth[at + 1] >= k
      PROVE  Inside(open, k)
  BY <1>1, <1>4, <1>6, AroundNext
<1>7. open' \in Seq(DOMAIN program) /\ Len(open') = Depth[at + 1] /\ \A k \in 1 .. Len(open') : Inside(open', k)
  <2>1. CASE HasBody(program[at]) /\ open' = Append(open, at)
    <3>1. Depth[at + 1] = Len(open) + 1
      BY <1>3, <1>4, <2>1 DEF After
    <3>2. /\ open' \in Seq(DOMAIN program) /\ Len(open') = Len(open) + 1 /\ open'[Len(open) + 1] = at
          /\ \A k \in 1 .. Len(open) : open'[k] = open[k]
      BY <1>1, <1>2, <2>1, AppendFacts
    <3>3. ASSUME NEW k \in 1 .. Len(open') PROVE Inside(open', k)
      <4>1. CASE k = Len(open) + 1
        <5>1. \A j \in at + 1 .. at + 1 : j = at + 1
          BY <1>4
        <5> QED  BY <1>2, <1>4, <2>1, <3>1, <3>2, <4>1, <5>1
      <4>2. CASE k # Len(open) + 1
        <5>1. k \in 1 .. Len(open) /\ open'[k] = open[k] /\ Depth[at + 1] >= k
          BY <1>2, <3>1, <3>2, <4>2
        <5>2. Inside(open, k)
          BY <1>6, <5>1
        <5> QED  BY <5>1, <5>2
      <4> QED  BY <4>1, <4>2
    <3> QED  BY <3>1, <3>2, <3>3
  <2>2. CASE program[at].kind = "close" /\ open' = Front(open)
    <3>1. Depth[at + 1] = Len(open) - 1
      <4>1. ~HasBody(program[at])
        BY <2>2 DEF HasBody, Openers
      <4> QED  BY <1>3, <1>4, <2>2, <4>1 DEF After
    <3>2. Len(open) # 0 /\ open # <<>>
      BY <1>2, <1>4, <3>1
    <3>3. /\ open' \in Seq(DOMAIN program) /\ Len(open') = Len(open) - 1
          /\ \A k \in 1 .. Len(open) - 1 : open'[k] = open[k]
      BY <1>2, <2>2, <3>2, FrontFacts
    <3>4. ASSUME NEW k \in 1 .. Len(open') PROVE Inside(open', k)
      <4>1. k \in 1 .. Len(open) /\ open'[k] = open[k] /\ Depth[at + 1] >= k
        BY <1>2, <3>1, <3>3
      <4>2. Inside(open, k)
        BY <1>6, <4>1
      <4> QED  BY <4>1, <4>2
    <3> QED  BY <3>1, <3>3, <3>4
  <2>3. CASE ~HasBody(program[at]) /\ program[at].kind # "close" /\ open' = open
    <3>1. Depth[at + 1] = Len(open)
      BY <1>3, <1>4, <2>3 DEF After
    <3>2. ASSUME NEW k \in 1 .. Len(open) PROVE Inside(open, k)
      <4>1. Depth[at + 1] >= k
        BY <1>2, <3>1
      <4> QED  BY <1>6, <4>1
    <3> QED  BY <1>2, <2>3, <3>1, <3>2
  <2> QED  BY <2>1, <2>2, <2>3 DEF Follows
<1>8. Around(at)'
  BY <1>1, <1>5, <1>7 DEF Around
<1>9. \A i \in 1 .. Len(program') + 1 : Depth'[i] >= 0
  BY <1>1, <1>5
<1> QED  BY <1>1, <1>7, <1>8, <1>9 DEF StackOK

\* All of the invariant but subroutines and typedefs, if the node visited is
\* no call or declaration of a subroutine without a body.
LEMMA AdvancesRest ==
  ASSUME IInv, Advances, Follows, pass' \in {"RefWalk", "rejected"}, named' \subseteq SymbolIds,
         pass' = "RefWalk" /\ program[at].kind = "call" =>
           Declarations(program[at].subroutine) # {},
         pass' = "RefWalk" /\ program[at].kind = "subroutine" =>
           \E j \in Declarations(program[at].subroutine) : program[j].body
  PROVE  Rest'
<1>1. /\ TextOK /\ StackOK /\ ScopesOK /\ SubroutinesOK /\ SeenOK /\ IdentifiersOK
      /\ MarksFollowNesting /\ Walking /\ pass = "RefWalk"
  BY DEF IInv, Rest, Walking, Advances
<1>2. /\ at \in DOMAIN program /\ at' = at + 1 /\ resolved' = Append(resolved, Symbols)
      /\ UNCHANGED <<shape, program, scopes, currentScope, identifiers, hasMainProcedure>>
  BY DEF Advances
<1>3. StackOK' /\ open' \in Seq(DOMAIN program')
  BY <1>1, StackMoves
<1>4. Len(program) \in Nat /\ DOMAIN program = 1 .. Len(program) /\ at \in Nat
  BY <1>1, <1>2 DEF TextOK
<1>5. TextOK'
  <2>1. at' \in 1 .. Len(program') + 1
    BY <1>2, <1>4
  <2> QED  BY <1>1, <1>2, <1>3, <2>1 DEF TextOK
<1>6. SymbolIds' = SymbolIds
  BY <1>2 DEF SymbolIds
<1>7. ScopesOK'
  <2> HIDE DEF SymbolIds
  <2> QED  BY <1>1, <1>2, <1>6 DEF ScopesOK
<1>8. \A f : Declarations(f)' = Declarations(f)
  BY <1>2 DEF Declarations
<1>9. SeenOK'
  <2>1. ASSUME pass' = "RefWalk", NEW i \in 1 .. at' - 1
        PROVE  /\ program[i].kind = "call" => Declarations(program[i].subroutine) # {}
               /\ program[i].kind = "subroutine" =>
                    \E j \in Declarations(program[i].subroutine) : program[j].body
    <3>1. i = at \/ i \in 1 .. at - 1
      BY <1>2, <1>4
    <3> HIDE DEF Declarations
    <3> QED  BY <1>1, <2>1, <3>1 DEF SeenOK
  <2> HIDE DEF Declarations
  <2> QED  BY <1>2, <1>8, <2>1 DEF SeenOK
<1>10. IdentifiersOK'
  <2>1. Symbols \in Resolutions /\ \A k \in DOMAIN Symbols : Symbols[k] \in SymbolIds \cup {nullptr}
    BY <1>1, <1>2, SymbolsType
  <2>2. resolved \in Seq(Resolutions) /\ Len(resolved) = at - 1
    BY <1>1 DEF IdentifiersOK
  <2> HIDE DEF SymbolIds, Symbols, Resolutions
  <2>3. /\ resolved' \in Seq(Resolutions) /\ Len(resolved') = Len(resolved) + 1
        /\ Len(resolved) \in Nat /\ resolved'[Len(resolved) + 1] = Symbols
        /\ \A i \in 1 .. Len(resolved) : resolved'[i] = resolved[i]
    BY <1>2, <2>1, <2>2, AppendFacts
  <2>4. ASSUME NEW i \in 1 .. Len(resolved'), NEW k \in DOMAIN resolved'[i]
        PROVE  resolved'[i][k] \in SymbolIds \cup {nullptr}
    <3>1. i = Len(resolved) + 1 \/ i \in 1 .. Len(resolved)
      BY <2>3
    <3> QED  BY <1>1, <2>1, <2>3, <3>1 DEF IdentifiersOK
  <2>5. Len(resolved') = at' - 1
    BY <1>2, <1>4, <2>2, <2>3
  <2> QED  BY <1>1, <1>2, <1>6, <2>3, <2>4, <2>5 DEF IdentifiersOK, Walking
<1>11. BodiesOK'
  BY DEF BodiesOK
<1>12. MarksFollowNesting'
  BY <1>1, <1>2, NestingKept
<1> QED  BY <1>3, <1>5, <1>7, <1>9, <1>10, <1>11, <1>12 DEF Rest

\* What the subroutines and typedefs keep when the node visited changes none.
LEMMA SubroutinesLeft ==
  ASSUME SubroutinesOK, CountersOK, Walking, UNCHANGED <<program, scopes, subroutines>>,
         pass' # "DefWalk"
  PROVE  SubroutinesOK' /\ CountersOK'
<1>1. SymbolIds' = SymbolIds /\ \A f : Declarations(f)' = Declarations(f)
  BY DEF SymbolIds, Declarations
<1> HIDE DEF SymbolIds, Declarations
<1> QED  BY <1>1 DEF SubroutinesOK, CountersOK

LEMMA TypedefsLeft ==
  ASSUME TypedefsOK, TextOK, pass = "RefWalk", at' = at + 1, UNCHANGED <<program, typeSymbols>>,
         pass' # "DefWalk"
  PROVE  TypedefsOK'
<1>1. \A i \in DOMAIN program : i >= at' => i >= at
  BY DEF TextOK
<1>2. \A i : IsTypedef(i)' = IsTypedef(i) /\ TypedefName(i)' = TypedefName(i)
  BY DEF IsTypedef, TypedefName
<1>3. \A t : Resolvable(t)' = Resolvable(t)
  BY DEF Resolvable
<1> HIDE DEF IsTypedef, TypedefName, Resolvable
<1> QED  BY <1>1, <1>2, <1>3 DEF TypedefsOK, Walking

(***************************************************************************)
(* RefWalk, node by node.                                                  *)
(***************************************************************************)
\* A node that changes neither subroutines nor typedefs.
LEMMA AdvancesOthers ==
  ASSUME IInv, Advances, pass' = pass, UNCHANGED <<subroutines, typeSymbols>>, Rest'
  PROVE  IInv'
<1>1. /\ SubroutinesOK /\ CountersOK /\ TypedefsOK /\ TextOK /\ Walking /\ pass' # "DefWalk"
      /\ UNCHANGED <<program, scopes>> /\ at' = at + 1 /\ pass = "RefWalk"
  BY DEF IInv, Rest, Walking, Advances
<1>2. SubroutinesOK' /\ CountersOK'
  BY <1>1, SubroutinesLeft
<1>3. TypedefsOK'
  BY <1>1, TypedefsLeft
<1> QED  BY <1>2, <1>3 DEF IInv

LEMMA RefIdentifiersStep ==
  ASSUME IInv, RefIdentifiers, UNCHANGED <<shape, program>>
  PROVE  IInv'
<1>1. /\ pass = "RefWalk" /\ at \in DOMAIN program
      /\ program[at].kind \in {"var", "use", "generator", "iterator", "block", "loop", "conditional",
                               "return", "break"}
  BY DEF RefIdentifiers, Visit
<1>2. \/ Reject
      \/ /\ resolved' = Append(resolved, Symbols) /\ at' = at + 1
         /\ open' = IF program[at].kind \in Openers THEN Append(open, at) ELSE open
         /\ UNCHANGED <<pass, tables, named>>
  BY DEF RefIdentifiers
<1>3. CASE Reject
  BY <1>3, Stops DEF Reject
<1>4. CASE /\ resolved' = Append(resolved, Symbols) /\ at' = at + 1
           /\ open' = IF program[at].kind \in Openers THEN Append(open, at) ELSE open
           /\ UNCHANGED <<pass, tables, named>>
  <2>1. Advances /\ UNCHANGED <<subroutines, typeSymbols>> /\ pass' = pass
    <3> HIDE DEF Symbols
    <3> QED  BY <1>1, <1>4 DEF Advances, tables
  <2>2. Follows
    BY <1>1, <1>4 DEF Follows, HasBody, Openers
  <2>3. named' \subseteq SymbolIds
    <3> HIDE DEF SymbolIds
    <3> QED  BY <1>4 DEF IInv, Rest, IdentifiersOK
  <2>4. pass' \in {"RefWalk", "rejected"}
    BY <1>1, <1>4
  <2>5. Rest'
    BY <1>1, <2>1, <2>2, <2>3, <2>4, AdvancesRest
  <2> QED  BY <2>1, <2>5, AdvancesOthers
<1> QED  BY <1>2, <1>3, <1>4

LEMMA RefCallStep ==
  ASSUME IInv, RefCall, UNCHANGED <<shape, program>>
  PROVE  IInv'
<1>1. pass = "RefWalk" /\ at \in DOMAIN program /\ program[at].kind = "call"
  BY DEF RefCall, Visit
<1> DEFINE f == program[at].subroutine
<1>2. \/ Reject
      \/ /\ subroutines[f].numTimesDeclare # 0
         /\ resolved' = Append(resolved, Symbols) /\ at' = at + 1
         /\ UNCHANGED <<pass, open, tables, named>>
  BY DEF RefCall
<1>3. CASE Reject
  BY <1>3, Stops DEF Reject
<1>4. CASE /\ subroutines[f].numTimesDeclare # 0
           /\ resolved' = Append(resolved, Symbols) /\ at' = at + 1
           /\ UNCHANGED <<pass, open, tables, named>>
  <2>1. Advances /\ UNCHANGED <<subroutines, typeSymbols>> /\ pass' = pass
    <3> HIDE DEF Symbols
    <3> QED  BY <1>1, <1>4 DEF Advances, tables
  <2>2. Follows
    BY <1>1, <1>4 DEF Follows, HasBody, Openers
  <2>3. named' \subseteq SymbolIds
    <3> HIDE DEF SymbolIds
    <3> QED  BY <1>4 DEF IInv, Rest, IdentifiersOK
  <2>4. f \in Subroutines /\ pass' \in {"RefWalk", "rejected"}
    BY <1>1, <1>4 DEF IInv, Rest, TextOK
  <2>5. Declarations(f) # {}
    <3> HIDE DEF f, Declarations
    <3> QED  BY <1>1, <1>4, <2>4 DEF IInv, CountersOK, Walking
  <2>6. Rest'
    <3> HIDE DEF Declarations
    <3> QED  BY <1>1, <2>1, <2>2, <2>3, <2>4, <2>5, AdvancesRest
  <2> QED  BY <2>1, <2>6, AdvancesOthers
<1> QED  BY <1>2, <1>3, <1>4

\* Half of the parameters go, never the last declaration.
LEMMA WithoutDuplicatesFacts ==
  ASSUME TextOK, NEW sub \in SubroutineRecords, sub.orderedArgs \in Seq(SymbolIds),
         sub.numTimesDeclare \in 1 .. 2, NEW new, new = WithoutDuplicates(sub)
  PROVE  /\ new \in SubroutineRecords /\ new.orderedArgs \in Seq(SymbolIds)
         /\ new.numTimesDeclare \in 1 .. 2
         /\ new.scope = sub.scope /\ new.numTimesDefined = sub.numTimesDefined
<1>1. CASE sub.numTimesDeclare = 1
  BY <1>1 DEF WithoutDuplicates
<1>2. CASE sub.numTimesDeclare = 2
  <2>1. PICK X, args, n : X = SymbolIds /\ args = sub.orderedArgs /\ n = Len(args) \div 2 + 1
    OBVIOUS
  <2>2. args \in Seq(X) /\ Len(args) \in Nat /\ n \in Nat \ {0}
    <3>1. args \in Seq(X) /\ Len(args) \in Nat
      <4> HIDE DEF SymbolIds
      <4> QED  BY <2>1
    <3>2. \A k \in Nat : k \div 2 + 1 \in Nat \ {0}
      OBVIOUS
    <3> QED  BY <2>1, <3>1, <3>2
  <2>3. \A i \in n .. Len(args) : args[i] \in X
    BY ONLY <2>2
  <2>4. PICK half : half = SubSeq(args, n, Len(args))
    OBVIOUS
  <2>5. half \in Seq(X)
    <3>1. n \in Int /\ Len(args) \in Int
      BY ONLY <2>2
    <3> QED  BY ONLY <2>2, <2>3, <2>4, <3>1, SubSeqProperties
  <2>6. new = [scope |-> sub.scope, orderedArgs |-> half, numTimesDeclare |-> 1,
               numTimesDefined |-> sub.numTimesDefined]
    <3>1. new = [sub EXCEPT !.orderedArgs = SubSeq(@, Len(@) \div 2 + 1, Len(@)),
                            !.numTimesDeclare = @ - 1]
      BY <1>2 DEF WithoutDuplicates
    <3>2. new = [sub EXCEPT !.orderedArgs = half, !.numTimesDeclare = 1]
      BY <1>2, <2>1, <2>4, <3>1 DEF SubroutineRecords
    <3> QED  BY <3>2 DEF SubroutineRecords
  <2>7. half \in Seq(Nat \X Nat) /\ sub.scope \in Nat /\ sub.numTimesDefined \in Nat
    <3>1. X \subseteq Nat \X Nat
      BY <2>1, SymbolIdsType
    <3>2. sub.scope \in Nat /\ sub.numTimesDefined \in Nat
      BY DEF SubroutineRecords
    <3> QED  BY ONLY <2>5, <3>1, <3>2, WiderSequence
  <2>8. new \in SubroutineRecords
    BY ONLY <2>6, <2>7 DEF SubroutineRecords
  <2>9. /\ new.orderedArgs = half /\ new.numTimesDeclare = 1
        /\ new.scope = sub.scope /\ new.numTimesDefined = sub.numTimesDefined
    BY ONLY <2>6
  <2> HIDE DEF SymbolIds
  <2> QED  BY <2>1, <2>5, <2>8, <2>9
<1>3. sub.numTimesDeclare = 1 \/ sub.numTimesDeclare = 2
  OBVIOUS
<1> QED  BY <1>1, <1>2, <1>3

\* A declaration of f is behind.
LEMMA Finishes ==
  ASSUME IInv, NEW f \in Subroutines, FinishSubroutine(f), UNCHANGED <<shape, program>>,
         pass = "RefWalk", at \in DOMAIN program, Follows, named' \subseteq SymbolIds,
         Declarations(f) # {}, program[at].kind # "call",
         program[at].kind = "subroutine" => program[at].subroutine = f
  PROVE  IInv'
<1>1. /\ SubroutinesOK /\ CountersOK /\ TypedefsOK /\ TextOK /\ Walking
  BY DEF IInv, Rest, Walking
<1>2. PICK sub : sub = WithoutDuplicates(subroutines[f])
  OBVIOUS
<1>3. /\ subroutines' = [subroutines EXCEPT ![f] = sub]
      /\ pass' = IF subroutines[f].numTimesDefined = 0 THEN "rejected" ELSE pass
      /\ UNCHANGED typeSymbols /\ Advances
  <2>1. subroutines' = [subroutines EXCEPT ![f] = WithoutDuplicates(@)]
    BY DEF FinishSubroutine
  <2>2. subroutines' = [subroutines EXCEPT ![f] = sub]
    BY <1>2, <2>1
  <2> HIDE DEF Symbols, WithoutDuplicates
  <2> QED  BY <2>2 DEF FinishSubroutine, Advances
<1>4. /\ pass' \in {"RefWalk", "rejected"} /\ pass' # "DefWalk"
      /\ pass' = "RefWalk" => subroutines[f].numTimesDefined # 0
  BY <1>3
<1>5. Rest'
  <2>1. pass' = "RefWalk" => \E j \in Declarations(f) : program[j].body
    <3> HIDE DEF Declarations
    <3> QED  BY <1>1, <1>4 DEF CountersOK
  <2> HIDE DEF Declarations
  <2> QED  BY <1>3, <1>4, <2>1, AdvancesRest
<1>6. /\ subroutines[f] \in SubroutineRecords /\ subroutines[f].orderedArgs \in Seq(SymbolIds)
      /\ subroutines[f].numTimesDeclare \in 1 .. 2 /\ subroutines[f].numTimesDefined \in 0 .. 2
      /\ subroutines[f].scope \in 0 .. Len(scopes)
      /\ subroutines[f].scope # 0 => scopes[subroutines[f].scope].enclosingScope = 1
  <2>1. subroutines[f].numTimesDeclare \in 0 .. 2 /\ subroutines[f].numTimesDeclare # 0
    <3> HIDE DEF Declarations
    <3> QED  BY <1>1 DEF SubroutinesOK, CountersOK
  <2> HIDE DEF SymbolIds, SubroutineRecords
  <2> QED  BY <1>1, <2>1 DEF SubroutinesOK
<1>7. /\ sub \in SubroutineRecords /\ sub.orderedArgs \in Seq(SymbolIds)
      /\ sub.numTimesDeclare \in 1 .. 2
      /\ sub.scope = subroutines[f].scope /\ sub.numTimesDefined = subroutines[f].numTimesDefined
  <2> HIDE DEF SymbolIds, SubroutineRecords, WithoutDuplicates
  <2> QED  BY <1>1, <1>2, <1>6, WithoutDuplicatesFacts
<1>8. /\ subroutines' \in [Subroutines -> SubroutineRecords]
      /\ \A g \in Subroutines : subroutines'[g] = IF g = f THEN sub ELSE subroutines[g]
  <2> HIDE DEF SubroutineRecords
  <2> QED  BY <1>1, <1>3, <1>7, SetSubroutine
<1>9. SymbolIds' = SymbolIds /\ \A g : Declarations(g)' = Declarations(g)
  BY DEF SymbolIds, Declarations
<1>10. scopes' = scopes
  BY DEF FinishSubroutine
<1>11. ASSUME NEW g \in Subroutines
       PROVE  /\ subroutines'[g].scope \in 0 .. Len(scopes)
              /\ subroutines'[g].scope # 0 => scopes[subroutines'[g].scope].enclosingScope = 1
              /\ subroutines'[g].orderedArgs \in Seq(SymbolIds)
              /\ subroutines'[g].numTimesDeclare \in 0 .. 2 /\ subroutines'[g].numTimesDefined \in 0 .. 2
              /\ subroutines'[g].numTimesDeclare = 0 <=> subroutines[g].numTimesDeclare = 0
              /\ subroutines'[g].numTimesDefined = subroutines[g].numTimesDefined
  <2> HIDE DEF SymbolIds, SubroutineRecords
  <2>1. CASE g = f
    <3>1. subroutines'[g] = sub
      BY <1>8, <2>1
    <3> QED  BY <1>6, <1>7, <2>1, <3>1
  <2>2. CASE g # f
    <3>1. subroutines'[g] = subroutines[g]
      BY <1>8, <2>2
    <3> QED  BY <1>1, <3>1 DEF SubroutinesOK
  <2> QED  BY <2>1, <2>2
<1>12. SubroutinesOK'
  <2> HIDE DEF SymbolIds, SubroutineRecords
  <2> QED  BY <1>4, <1>8, <1>9, <1>10, <1>11 DEF SubroutinesOK
<1>13. CountersOK'
  <2> HIDE DEF Declarations, SymbolIds
  <2> QED  BY <1>1, <1>9, <1>11 DEF CountersOK
<1>14. TypedefsOK'
  <2>1. at' = at + 1
    BY DEF FinishSubroutine
  <2> QED  BY <1>1, <1>3, <1>4, <2>1, TypedefsLeft
<1> QED  BY <1>5, <1>12, <1>13, <1>14 DEF IInv

LEMMA RefSubroutineStep ==
  ASSUME IInv, RefSubroutine, UNCHANGED <<shape, program>>
  PROVE  IInv'
<1>1. pass = "RefWalk" /\ at \in DOMAIN program /\ program[at].kind = "subroutine"
  BY DEF RefSubroutine, Visit
<1> DEFINE f == program[at].subroutine
<1>2. named' \subseteq SymbolIds
  <2>1. named' = named \cup {<<at, k>> : k \in DOMAIN program[at].names}
    BY DEF RefSubroutine
  <2>2. \A k \in DOMAIN program[at].names : <<at, k>> \in SymbolIds
    BY <1>1 DEF SymbolIds
  <2>3. named \subseteq SymbolIds
    BY DEF IInv, Rest, IdentifiersOK
  <2> HIDE DEF SymbolIds
  <2> QED  BY <2>1, <2>2, <2>3
<1>3. f \in Subroutines /\ at \in Declarations(f)
  BY <1>1 DEF IInv, Rest, TextOK, Declarations
<1>4. CASE program[at].body
  <2>1. /\ at' = at + 1 /\ resolved' = Append(resolved, Symbols) /\ open' = Append(open, at)
        /\ UNCHANGED <<pass, tables>>
    BY <1>4 DEF RefSubroutine
  <2>2. Advances /\ UNCHANGED <<subroutines, typeSymbols>> /\ pass' = pass
    <3> HIDE DEF Symbols
    <3> QED  BY <1>1, <2>1 DEF Advances, tables
  <2>3. Follows
    BY <1>1, <1>4, <2>1 DEF Follows, HasBody, Openers
  <2>4. pass' \in {"RefWalk", "rejected"}
    BY <1>1, <2>1
  <2>5. \E j \in Declarations(f) : program[j].body
    BY <1>3, <1>4
  <2>6. Rest'
    <3> HIDE DEF Declarations, SymbolIds
    <3> QED  BY <1>1, <1>2, <2>2, <2>3, <2>4, <2>5, AdvancesRest
  <2> QED  BY <2>2, <2>6, AdvancesOthers
<1>5. CASE ~program[at].body
  <2>1. FinishSubroutine(f) /\ UNCHANGED open
    BY <1>5 DEF RefSubroutine
  <2>2. Follows
    BY <1>1, <1>5, <2>1 DEF Follows, HasBody, Openers
  <2> HIDE DEF Declarations, SymbolIds, FinishSubroutine
  <2> QED  BY <1>1, <1>2, <1>3, <2>1, <2>2, Finishes
<1> QED  BY <1>4, <1>5

LEMMA RefLeaveStep ==
  ASSUME IInv, RefLeave, UNCHANGED <<shape, program>>
  PROVE  IInv'
<1>1. pass = "RefWalk" /\ at \in DOMAIN program /\ program[at].kind = "close"
  BY DEF RefLeave, Visit
<1>2. open' = Front(open) /\ named' = named
  BY DEF RefLeave
<1>3. Follows
  BY <1>1, <1>2 DEF Follows
<1>4. named' \subseteq SymbolIds
  <2> HIDE DEF SymbolIds
  <2> QED  BY <1>2 DEF IInv, Rest, IdentifiersOK
<1>5. PICK opener : opener = program[Last(open)]
  OBVIOUS
<1>6. Last(open) \in DOMAIN program
  <2>1. TextOK /\ StackOK
    BY DEF IInv, Rest
  <2>2. open # <<>>
    <3>1. Around(at) /\ Depth[at + 1] >= 0 /\ Depth[at + 1] = Depth[at] - 1
      <4>1. /\ Around(at) /\ \A i \in 1 .. Len(program) + 1 : Depth[i] >= 0
        BY <1>1, <2>1 DEF StackOK, Walking
      <4>2. Len(program) \in Nat /\ at \in 1 .. Len(program) /\ at + 1 \in 1 .. Len(program) + 1
        BY <1>1, <2>1 DEF TextOK
      <4>3. Depth[at + 1] = After(program[at], Depth[at])
        BY <4>2, DepthsUnfold DEF Depth
      <4>4. ~HasBody(program[at])
        BY <1>1 DEF HasBody, Openers
      <4> QED  BY <1>1, <4>1, <4>2, <4>3, <4>4 DEF After
    <3>2. Len(open) = Depth[at]
      BY <3>1 DEF Around
    <3>3. ASSUME open = <<>> PROVE Len(open) = 0
      BY <3>3
    <3> QED  BY <3>1, <3>2, <3>3
  <2> QED  BY <2>1, <2>2, FrontFacts DEF TextOK
<1>7. CASE opener.kind = "subroutine"
  <2> DEFINE f == opener.subroutine
  <2>1. FinishSubroutine(f)
    BY <1>5, <1>7 DEF RefLeave
  <2>2. f \in Subroutines /\ Last(open) \in Declarations(f)
    BY <1>5, <1>6, <1>7 DEF IInv, Rest, TextOK, Declarations
  <2> HIDE DEF Declarations, SymbolIds, FinishSubroutine
  <2> QED  BY <1>1, <1>3, <1>4, <2>1, <2>2, Finishes
<1>8. CASE opener.kind # "subroutine"
  <2>1. /\ at' = at + 1 /\ resolved' = Append(resolved, Symbols)
        /\ UNCHANGED <<pass, tables>>
    BY <1>5, <1>8 DEF RefLeave
  <2>2. Advances /\ UNCHANGED <<subroutines, typeSymbols>> /\ pass' = pass
    <3> HIDE DEF Symbols
    <3> QED  BY <1>1, <2>1 DEF Advances, tables
  <2>3. pass' \in {"RefWalk", "rejected"}
    BY <1>1, <2>1
  <2>4. Rest'
    <3> HIDE DEF Declarations, SymbolIds
    <3> QED  BY <1>1, <1>3, <1>4, <2>2, <2>3, AdvancesRest
  <2> QED  BY <2>2, <2>4, AdvancesOthers
<1> QED  BY <1>7, <1>8

\* What a typedef that is resolved, or made to name one, leaves to the others.
LEMMA TypedefResolved ==
  ASSUME TypedefsOK, TextOK, pass = "RefWalk", at \in DOMAIN program, IsTypedef(at),
         UNCHANGED <<program, pass>>, at' = at + 1, NEW t, t = TypedefName(at),
         DOMAIN typeSymbols' = DOMAIN typeSymbols,
         NEW target, target # t,
         target \in DOMAIN typeSymbols => typeSymbols[target] # unset /\ typeSymbols'[target] = builtIn,
         \A u \in DOMAIN typeSymbols \ {t, target} : typeSymbols'[u] = typeSymbols[u],
         \/ typeSymbols'[t] \in {builtIn, unset}
         \/ typeSymbols'[t] = target /\ target \in DOMAIN typeSymbols
  PROVE  TypedefsOK'
<1>1. /\ DOMAIN typeSymbols \subseteq Typedefs /\ \A u \in DOMAIN typeSymbols : Resolvable(u)
      /\ \A i \in DOMAIN program : IsTypedef(i) =>
           /\ TypedefName(i) \in DOMAIN typeSymbols
           /\ i >= at => typeSymbols[TypedefName(i)] = unset
           /\ \A j \in DOMAIN program : IsTypedef(j) /\ j # i => TypedefName(j) # TypedefName(i)
  BY DEF TypedefsOK, Walking
<1>2. at \in Nat /\ DOMAIN program \subseteq Nat
  BY DEF TextOK
<1>3. t \in DOMAIN typeSymbols /\ typeSymbols[t] = unset
  BY <1>1, <1>2
<1>4. builtIn # unset
  BY DEF builtIn, unset
<1>5. ASSUME NEW u \in DOMAIN typeSymbols
      PROVE  \/ typeSymbols'[u] \in {builtIn, unset}
             \/ typeSymbols'[u] \in DOMAIN typeSymbols /\ typeSymbols'[typeSymbols'[u]] = builtIn
  <2> HIDE DEF builtIn, unset
  <2>1. CASE u = t
    BY <2>1
  <2>2. CASE u = target
    BY <2>2
  <2>3. CASE u # t /\ u # target
    <3>1. typeSymbols'[u] = typeSymbols[u]
      BY <2>3
    <3>2. \/ typeSymbols[u] \in {builtIn, unset}
          \/ typeSymbols[u] \in DOMAIN typeSymbols /\ typeSymbols[typeSymbols[u]] = builtIn
      BY <1>1 DEF Resolvable
    <3>3. CASE typeSymbols[u] \in DOMAIN typeSymbols /\ typeSymbols[typeSymbols[u]] = builtIn
      <4>1. typeSymbols[u] # t
        BY <1>3, <1>4, <3>3
      <4> QED  BY <3>1, <3>3, <4>1
    <3> QED  BY <3>1, <3>2, <3>3
  <2> QED  BY <2>1, <2>2, <2>3
<1>6. ASSUME NEW i \in DOMAIN program, IsTypedef(i), i >= at'
      PROVE  typeSymbols'[TypedefName(i)] = unset
  <2> HIDE DEF IsTypedef, TypedefName, unset, builtIn
  <2>1. i # at /\ i >= at
    BY <1>2, <1>6
  <2>2. TypedefName(i) # t /\ typeSymbols[TypedefName(i)] = unset /\ TypedefName(i) \in DOMAIN typeSymbols
    BY <1>1, <1>6, <2>1
  <2> QED  BY <2>2
<1>7. \A i : IsTypedef(i)' = IsTypedef(i) /\ TypedefName(i)' = TypedefName(i)
  BY DEF IsTypedef, TypedefName
<1>8. \A u \in DOMAIN typeSymbols' : Resolvable(u)'
  <2> HIDE DEF builtIn, unset
  <2> QED  BY <1>5 DEF Resolvable
<1> HIDE DEF IsTypedef, TypedefName, Resolvable
<1> QED  BY <1>1, <1>6, <1>7, <1>8 DEF TypedefsOK, Walking

LEMMA RefTypedefStep ==
  ASSUME IInv, RefTypedef, UNCHANGED <<shape, program>>
  PROVE  IInv'
<1>1. pass = "RefWalk" /\ at \in DOMAIN program /\ program[at].kind = "typedef"
  BY DEF RefTypedef, Visit
<1>2. PICK t, target : t = TypedefName(at) /\ target = program[at].use
  OBVIOUS
<1>3. IsTypedef(at) /\ TypedefsOK /\ TextOK /\ SubroutinesOK /\ CountersOK /\ Walking
  BY <1>1 DEF IsTypedef, IInv, Rest, Walking
<1>4. t \in DOMAIN typeSymbols /\ typeSymbols[t] = unset /\ DOMAIN typeSymbols \subseteq Typedefs
  <2>1. at >= at
    BY <1>3 DEF TextOK
  <2> HIDE DEF IsTypedef, TypedefName
  <2> QED  BY <1>1, <1>2, <1>3, <2>1 DEF TypedefsOK
<1>5. CASE target \in DOMAIN typeSymbols /\ Target(target) = unset
  <2>1. pass' = "crashed" /\ UNCHANGED <<at, open, tables, named, resolved>>
    <3> HIDE DEF Symbols, Target, tables
    <3> QED  BY <1>2, <1>5 DEF RefTypedef
  <2> QED  BY <2>1, Stops
<1>6. CASE ~(target \in DOMAIN typeSymbols /\ Target(target) = unset)
  <2>1. /\ typeSymbols' =
             IF target \in DOMAIN typeSymbols
             THEN [typeSymbols EXCEPT ![target] = Target(target), ![t] = target]
             ELSE [typeSymbols EXCEPT ![t] = IF target = builtIn THEN builtIn ELSE unset]
        /\ at' = at + 1 /\ resolved' = Append(resolved, Symbols)
        /\ UNCHANGED <<pass, open, scopes, currentScope, subroutines, identifiers,
                       hasMainProcedure, named>>
    <3> HIDE DEF Symbols, Target, builtIn, unset
    <3> QED  BY <1>2, <1>6 DEF RefTypedef, TypedefName
  <2>2. Advances /\ pass' = pass /\ pass' # "DefWalk" /\ pass' \in {"RefWalk", "rejected"}
    <3> HIDE DEF Symbols, Target
    <3> QED  BY <1>1, <2>1 DEF Advances
  <2>3. Follows
    BY <1>1, <2>1 DEF Follows, HasBody, Openers
  <2>4. named' \subseteq SymbolIds
    <3> HIDE DEF SymbolIds
    <3> QED  BY <2>1 DEF IInv, Rest, IdentifiersOK
  <2>5. Rest'
    <3> HIDE DEF Declarations, SymbolIds
    <3> QED  BY <1>1, <2>2, <2>3, <2>4, AdvancesRest
  <2>6. SubroutinesOK' /\ CountersOK'
    BY <1>3, <2>1, <2>2, SubroutinesLeft
  <2>7. CASE target \in DOMAIN typeSymbols
    <3>1. typeSymbols[target] # unset /\ Target(target) = builtIn
      <4>1. unset \notin DOMAIN typeSymbols /\ builtIn \notin DOMAIN typeSymbols /\ Typedefs # {}
        BY <1>4, NamesAssumption
      <4>2. typeSymbols[target] # unset
        <5> HIDE DEF Target
        <5> QED  BY <1>6, <2>7, <4>1, TargetEnds
      <4>3. \/ typeSymbols[target] = builtIn
            \/ typeSymbols[target] \in DOMAIN typeSymbols /\ typeSymbols[typeSymbols[target]] = builtIn
        <5> HIDE DEF builtIn, unset
        <5> QED  BY <1>3, <2>7, <4>2 DEF TypedefsOK, Resolvable
      <4> HIDE DEF builtIn, unset, Target
      <4> QED  BY <4>1, <4>2, <4>3, TargetEnds
    <3>2. target # t
      BY <1>4, <3>1
    <3>3. typeSymbols' = [typeSymbols EXCEPT ![target] = builtIn, ![t] = target]
      <4> HIDE DEF Target, builtIn
      <4> QED  BY <2>1, <2>7, <3>1
    <3>4. /\ DOMAIN typeSymbols' = DOMAIN typeSymbols /\ typeSymbols'[target] = builtIn
          /\ typeSymbols'[t] = target
          /\ \A u \in DOMAIN typeSymbols \ {t, target} : typeSymbols'[u] = typeSymbols[u]
      <4> HIDE DEF builtIn, unset
      <4> QED  BY <1>4, <2>7, <3>2, <3>3
    <3>5. TypedefsOK'
      <4>1. UNCHANGED <<program, pass>> /\ at' = at + 1
        BY <2>1
      <4> HIDE DEF builtIn, unset, Target, IsTypedef, TypedefName
      <4> QED  BY <1>1, <1>2, <1>3, <2>7, <3>1, <3>2, <3>4, <4>1, TypedefResolved
    <3> QED  BY <2>5, <2>6, <3>5 DEF IInv
  <2>8. CASE target \notin DOMAIN typeSymbols
    <3>1. PICK v : v = (IF target = builtIn THEN builtIn ELSE unset)
      OBVIOUS
    <3>2. typeSymbols' = [typeSymbols EXCEPT ![t] = v]
      <4> HIDE DEF builtIn, unset, Target
      <4> QED  BY <2>1, <2>8, <3>1
    <3>3. /\ DOMAIN typeSymbols' = DOMAIN typeSymbols /\ typeSymbols'[t] \in {builtIn, unset}
          /\ target # t
          /\ \A u \in DOMAIN typeSymbols \ {t, target} : typeSymbols'[u] = typeSymbols[u]
      <4> HIDE DEF builtIn, unset
      <4> QED  BY <1>4, <2>8, <3>1, <3>2
    <3>4. TypedefsOK'
      <4> HIDE DEF builtIn, unset, Target, IsTypedef, TypedefName
      <4> QED  BY <1>1, <1>2, <1>3, <2>1, <2>8, <3>3, TypedefResolved
    <3> QED  BY <2>5, <2>6, <3>4 DEF IInv
  <2> QED  BY <2>7, <2>8
<1> QED  BY <1>5, <1>6

(***************************************************************************)
(* The invariant.                                                          *)
(***************************************************************************)
LEMMA Initially ==
  ASSUME Init
  PROVE  IInv
<1> USE DEF Init
<1>1. Len(program) = 0 /\ DOMAIN program = {} /\ program \in Seq(Nodes)
  OBVIOUS
<1>2. TextOK
  <2>1. shape[all] \in Nat
    BY BoundsAssumption
  <2> QED  BY <1>1, <2>1 DEF TextOK
<1>3. StackOK
  <2>1. Depth[1] = 0
    BY <1>1, DepthsUnfold DEF Depth
  <2>2. Len(open) = 0 /\ \A i \in 1 .. Len(program) + 1 : i = 1
    BY <1>1
  <2> QED  BY <1>1, <2>1, <2>2 DEF StackOK, Around
<1>4. PICK x : x = LocalScope(0)
  OBVIOUS
<1>5. /\ scopes = <<x>> /\ x \in ScopeRecords /\ x.enclosingScope = 0 /\ Unmarked(x)
      /\ \A n \in DOMAIN x.symbols : FALSE
  <2>1. scopes = <<x>>
    BY <1>4
  <2> HIDE DEF Init, ScopeRecords
  <2> QED  BY <1>4, <2>1, NewLocalScope
<1>6. scopes \in Seq(ScopeRecords) /\ Len(scopes) = 1 /\ scopes[1] = x
  <2> HIDE DEF ScopeRecords
  <2> QED  BY <1>5
<1>7. \A s \in 1 .. Len(scopes) : s = 1
  BY <1>6
<1>8. ScopesOK
  <2>1. currentScope \in 1 .. Len(scopes)
    BY <1>6
  <2>2. ASSUME NEW s \in 1 .. Len(scopes)
        PROVE  /\ scopes[s].enclosingScope \in 0 .. s - 1
               /\ \A n \in DOMAIN scopes[s].symbols : scopes[s].symbols[n] \in SymbolIds
    <3>1. s = 1
      BY <1>7
    <3> QED  BY <1>5, <1>6, <3>1
  <2> HIDE DEF SymbolIds, ScopeRecords
  <2> QED  BY <1>6, <2>1, <2>2 DEF ScopesOK
<1>9. SubroutinesOK
  <2>1. PICK r : r = NoSubroutine
    OBVIOUS
  <2>2. /\ r \in SubroutineRecords /\ r.scope = 0 /\ r.orderedArgs \in Seq(SymbolIds)
        /\ r.numTimesDeclare = 0 /\ r.numTimesDefined = 0
    BY <2>1 DEF NoSubroutine, SubroutineRecords
  <2>3. subroutines = [f \in Subroutines |-> r]
    BY <2>1
  <2> HIDE DEF SubroutineRecords, SymbolIds
  <2> QED  BY <1>6, <2>2, <2>3 DEF SubroutinesOK
<1>10. CountersOK
  BY <1>1 DEF CountersOK, Declarations, NoSubroutine
<1>11. TypedefsOK
  <2>1. DOMAIN typeSymbols = {}
    OBVIOUS
  <2> QED  BY <1>1, <2>1 DEF TypedefsOK
<1>12. SeenOK
  BY DEF SeenOK
<1>13. IdentifiersOK
  <2>1. identifiers \in Seq(Numberings) /\ Len(identifiers) = 0
    OBVIOUS
  <2>2. resolved \in Seq(Resolutions) /\ Len(resolved) = 0 /\ named = {} /\ at = 1
    OBVIOUS
  <2> HIDE DEF Init, SymbolIds, Numberings, Resolutions
  <2> QED  BY <1>1, <2>1, <2>2 DEF IdentifiersOK
<1>14. BodiesOK
  <2> DEFINE m == [i \in Bodies |-> 1]
  <2>1. Bodies = {0} /\ Innermost = 0 /\ Len(open) = 0
    BY <1>1 DEF Bodies, Innermost
  <2>2. m \in [Bodies -> 1 .. Len(scopes)] /\ m[0] = 1
    BY <1>6, <2>1
  <2>3. Placed(m)
    BY <2>1, <2>2 DEF Placed
  <2>4. \A kinds : NodesOf(kinds) = {}
    BY <1>1 DEF NodesOf
  <2>5. \A s, kinds : ~Closed(s, kinds, m)
    BY <2>1 DEF Closed
  <2>6. Marks(m)
    <3>1. ASSUME NEW s \in 1 .. Len(scopes) PROVE Unmarked(scopes[s])
      BY <1>5, <1>6, <1>7
    <3> HIDE DEF m, Init
    <3> QED  BY <2>1, <2>4, <2>5, <3>1 DEF Marks, Unmarked
  <2> QED  BY <2>3, <2>6 DEF BodiesOK
<1>15. MarksFollowNesting
  BY DEF MarksFollowNesting
<1> QED  BY <1>2, <1>3, <1>8, <1>9, <1>10, <1>11, <1>12, <1>13, <1>14, <1>15 DEF IInv, Rest

LEMMA DefWalkStep ==
  ASSUME IInv, DefWalk
  PROVE  IInv'
<1>1. CASE VisitVariableDeclaration
  BY <1>1, VariableStep
<1>2. CASE VisitUse
  BY <1>2, UseStep
<1>3. CASE VisitCall
  BY <1>3, CallStep
<1>4. CASE VisitSubroutineDeclDef
  BY <1>4, SubroutineStep
<1>5. CASE VisitBlock
  BY <1>5, BlockStep
<1>6. CASE VisitIteratorLoop
  BY <1>6, IteratorStep
<1>7. CASE VisitGenerator
  BY <1>7, GeneratorStep
<1>8. CASE VisitBreak
  BY <1>8, BreakStep
<1>9. CASE VisitReturn
  BY <1>9, ReturnStep
<1>10. CASE VisitTypedefStatement
  BY <1>10, TypedefStep
<1>11. CASE Leave
  BY <1>11, LeaveStep
<1> QED  BY <1>1, <1>2, <1>3, <1>4, <1>5, <1>6, <1>7, <1>8, <1>9, <1>10, <1>11 DEF DefWalk

LEMMA RefWalkStep ==
  ASSUME IInv, RefWalk, UNCHANGED <<shape, program>>
  PROVE  IInv'
<1>1. CASE RefIdentifiers
  BY <1>1, RefIdentifiersStep
<1>2. CASE RefCall
  BY <1>2, RefCallStep
<1>3. CASE RefSubroutine
  BY <1>3, RefSubroutineStep
<1>4. CASE RefLeave
  BY <1>4, RefLeaveStep
<1>5. CASE RefTypedef
  BY <1>5, RefTypedefStep
<1> QED  BY <1>1, <1>2, <1>3, <1>4, <1>5 DEF RefWalk

LEMMA Stutters ==
  ASSUME IInv, UNCHANGED vars
  PROVE  IInv'
<1> USE DEF vars, tables
<1>1. SymbolIds' = SymbolIds /\ \A f : Declarations(f)' = Declarations(f)
  BY DEF SymbolIds, Declarations
<1>2. TextOK' /\ StackOK' /\ TypedefsOK'
  BY DEF IInv, Rest, TextOK, StackOK, Around, Depth, Walking, TypedefsOK, Resolvable, IsTypedef,
         TypedefName
<1>3. ScopesOK' /\ SubroutinesOK' /\ IdentifiersOK'
  <2> HIDE DEF SymbolIds
  <2> QED  BY <1>1 DEF IInv, Rest, ScopesOK, SubroutinesOK, IdentifiersOK, Walking
<1>4. CountersOK' /\ SeenOK'
  <2> HIDE DEF Declarations
  <2> QED  BY <1>1 DEF IInv, Rest, CountersOK, SeenOK, Walking
<1>5. MarksFollowNesting'
  <2>1. UNCHANGED <<program, scopes>> /\ (pass' = "RefWalk" => pass = "RefWalk") /\ MarksFollowNesting
    BY DEF IInv, Rest
  <2> QED  BY <2>1, NestingKept
<1>6. BodiesOK'
  <2>1. ASSUME pass = "DefWalk", NEW m, Placed(m), Marks(m) PROVE Placed(m)' /\ Marks(m)'
    <3>1. /\ Bodies' = Bodies /\ Innermost' = Innermost
          /\ \A kinds : NodesOf(kinds)' = NodesOf(kinds)
          /\ \A s, kinds : Closed(s, kinds, m)' = Closed(s, kinds, m)
      BY DEF Bodies, Innermost, NodesOf, Closed, IsOpen
    <3>2. \A j : Body(j)' = Body(j)
      BY DEF Body, Enclosing, Depth
    <3>3. Placed(m)'
      <4> HIDE DEF Bodies, Innermost
      <4> QED  BY <2>1, <3>1 DEF Placed, ScopeOutside, BodyAround
    <3>4. Marks(m)'
      <4> HIDE DEF Bodies, NodesOf, Closed, Body
      <4> QED  BY <2>1, <3>1, <3>2 DEF Marks
    <3> QED  BY <3>3, <3>4
  <2>2. IInv => BodiesOK
    BY DEF IInv, Rest
  <2> QED  BY <2>1, <2>2 DEF BodiesOK
<1> QED  BY <1>2, <1>3, <1>4, <1>5, <1>6 DEF IInv, Rest

LEMMA Steps ==
  ASSUME IInv, [Next]_vars
  PROVE  IInv'
<1>1. CASE DefWalk
  BY <1>1, DefWalkStep
<1>2. CASE CheckMain
  BY <1>2, MainStep
<1>3. CASE RefWalk /\ UNCHANGED <<shape, program>>
  BY <1>3, RefWalkStep
<1>4. CASE TypeWalkIdentifiers
  BY <1>4, TypeWalkStep
<1>5. CASE UNCHANGED vars
  BY <1>5, Stutters
<1> QED  BY <1>1, <1>2, <1>3, <1>4, <1>5 DEF Next

LEMMA Invariant == Spec => []IInv
<1>1. Init => IInv
  BY Initially
<1>2. IInv /\ [Next]_vars => IInv'
  BY Steps
<1> QED  BY <1>1, <1>2, PTL DEF Spec

(***************************************************************************)
(* The theorems.                                                           *)
(***************************************************************************)
\* Every variable keeps its type through both walks: scopes enclose scopes made
\* before them, every table, parameter list and identifier names a symbol that
\* a node read so far declares, and no counter passes two
\* (DefWalk.cpp, RefWalk.cpp, SubroutineSymbol.cpp).
THEOREM TypesHold == Spec => []TypeOK
<1>1. ASSUME IInv PROVE TypeOK
  <2>1. TextOK /\ ScopesOK /\ SubroutinesOK /\ IdentifiersOK /\ TypedefsOK
    BY <1>1 DEF IInv, Rest
  <2>2. ASSUME NEW s \in DOMAIN scopes
        PROVE  /\ scopes[s].enclosingScope \in 0..(s - 1)
               /\ scopes[s].subroutine \in Subroutines \cup {noName}
               /\ \A n \in DOMAIN scopes[s].symbols : n \in Names /\ scopes[s].symbols[n] \in SymbolIds
    <3>1. s \in 1 .. Len(scopes) /\ scopes[s] \in ScopeRecords
      BY <2>1, ElementOfSeq DEF ScopesOK
    <3>2. scopes[s].subroutine \in Subroutines \cup {noName} /\ scopes[s].symbols \in SymbolTable
      BY <3>1 DEF ScopeRecords
    <3>3. \A n \in DOMAIN scopes[s].symbols : n \in Names
      BY <3>2 DEF SymbolTable
    <3> HIDE DEF SymbolIds, noName
    <3> QED  BY <2>1, <3>1, <3>2, <3>3 DEF ScopesOK
  <2>3. currentScope \in DOMAIN scopes /\ DOMAIN scopes = 1 .. Len(scopes)
    BY <2>1 DEF ScopesOK
  <2>4. \A t \in DOMAIN typeSymbols : t \in Typedefs /\ typeSymbols[t] \in Typedefs \cup {builtIn, unset}
    <3> HIDE DEF builtIn, unset
    <3> QED  BY <2>1 DEF TypedefsOK, Resolvable
  <2>5. \A i \in DOMAIN identifiers : \A k \in DOMAIN identifiers[i] : identifiers[i][k] \in DOMAIN scopes
    BY <2>1, <2>3 DEF IdentifiersOK
  <2>6. \A i \in DOMAIN resolved : \A k \in DOMAIN resolved[i] : resolved[i][k] \in SymbolIds \cup {nullptr}
    <3>1. DOMAIN resolved = 1 .. Len(resolved)
      BY <2>1 DEF IdentifiersOK
    <3> HIDE DEF SymbolIds
    <3> QED  BY <2>1, <3>1 DEF IdentifiersOK
  <2> HIDE DEF SymbolIds, noName, builtIn, unset
  <2>7. \A f \in Subroutines :
          /\ subroutines[f].scope \in 0..Len(scopes)
          /\ subroutines[f].orderedArgs \in Seq(SymbolIds)
          /\ subroutines[f].numTimesDeclare \in 0..2 /\ subroutines[f].numTimesDefined \in 0..2
    BY <2>1 DEF SubroutinesOK
  <2>8. named \subseteq SymbolIds /\ Len(resolved) = at - 1
    BY <2>1 DEF IdentifiersOK
  <2>9. /\ shape \in Shapes /\ hasMainProcedure \in BOOLEAN
        /\ pass \in {"DefWalk", "RefWalk", "accepted", "rejected", "crashed"}
        /\ program \in Seq(Nodes) /\ Len(program) <= shape[all]
        /\ at \in 1..(Len(program) + 1) /\ open \in Seq(DOMAIN program)
    BY <2>1 DEF TextOK
  <2> QED  BY <2>2, <2>3, <2>4, <2>5, <2>6, <2>7, <2>8, <2>9 DEF TypeOK
<1> QED  BY <1>1, Invariant, PTL

\* A call in a program that is accepted reaches a subroutine with a body: the
\* test of RefWalk::visitCall is on the number of declarations, that of
\* visitSubroutineDeclDef on the number of definitions, and DefWalk counts both
\* as it finds them in the text.
THEOREM CallsHaveBodies == Spec => []CallsReachABody
<1>1. ASSUME IInv PROVE CallsReachABody
  <2>1. TextOK /\ SeenOK
    BY <1>1 DEF IInv, Rest
  <2>2. ASSUME pass = "accepted", NEW i \in DOMAIN program, program[i].kind = "call"
        PROVE  \E j \in Declarations(program[i].subroutine) : program[j].body
    <3>1. \A k \in DOMAIN program : k \in 1 .. at - 1
      BY <2>1, <2>2 DEF TextOK
    <3>2. PICK j : j \in Declarations(program[i].subroutine)
      <4> HIDE DEF Declarations
      <4> QED  BY <2>1, <2>2, <3>1 DEF SeenOK
    <3>3. j \in DOMAIN program /\ program[j].kind = "subroutine"
          /\ program[j].subroutine = program[i].subroutine
      BY <3>2 DEF Declarations
    <3> HIDE DEF Declarations
    <3> QED  BY <2>1, <2>2, <3>1, <3>3 DEF SeenOK
  <2> HIDE DEF Declarations
  <2> QED  BY <2>2 DEF CallsReachABody
<1> QED  BY <1>1, Invariant, PTL

\* A typedef of a typedef ends at a type of the language in one link, whatever
\* the order in which typedefs name one another: resolveTargetType shortens the
\* chain of the target before the new typedef is made to name it.
THEOREM TypedefsEnd == Spec => []TypedefsAreResolved
<1>1. ASSUME IInv PROVE TypedefsAreResolved
  <2>1. TypedefsOK /\ builtIn \notin Typedefs /\ unset \notin Typedefs
    BY <1>1, NamesAssumption DEF IInv
  <2>2. ASSUME NEW t \in DOMAIN typeSymbols, typeSymbols[t] \in Typedefs
        PROVE  Target(t) = builtIn /\ typeSymbols[typeSymbols[t]] = builtIn
    <3> HIDE DEF builtIn, unset, Target
    <3>1. typeSymbols[t] \in DOMAIN typeSymbols /\ typeSymbols[typeSymbols[t]] = builtIn
      BY <2>1, <2>2 DEF TypedefsOK, Resolvable
    <3>2. builtIn \notin DOMAIN typeSymbols /\ Typedefs # {}
      BY <2>1, <2>2 DEF TypedefsOK
    <3> QED  BY <3>1, <3>2, TargetEnds
  <2> HIDE DEF builtIn, Target
  <2> QED  BY <2>2 DEF TypedefsAreResolved
<1> QED  BY <1>1, Invariant, PTL

\* When DefWalk is done the scopes are marked as the program nests: as many
\* blocks of loops, of conditionals and of returns as the text has, and none of
\* a loop's marks on the scope that holds its domain variables. LLVMGen takes
\* its branches from these marks.
THEOREM MarksAreRight == Spec => []MarksFollowNesting
<1>1. IInv => MarksFollowNesting
  BY DEF IInv, Rest
<1> QED  BY <1>1, Invariant, PTL
=============================================================================
