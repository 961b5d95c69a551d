-------------------------- MODULE SymbolResolution --------------------------
(***************************************************************************)
(* What the names of a program resolve to, for every program: the          *)
(* innermost declaration around a use that comes before it; that a         *)
(* parameter is the symbol its argument is bound to; and that a program    *)
(* which is turned away has a flaw.                                        *)
(***************************************************************************)
EXTENDS SymbolTablesProofs

(***************************************************************************)
(* The bodies around a node.                                               *)
(***************************************************************************)
LEMMA TextIs ==
  ASSUME TextOK
  PROVE  /\ Len(program) \in Nat /\ DOMAIN program = 1 .. Len(program) /\ This = Len(program) + 1
         /\ \A i \in 1 .. Len(program) : program[i] \in Nodes
         /\ \A i \in 1 .. Len(program) + 1 : Depth[i] \in Int
         /\ \A i \in 1 .. Len(program) : Depth[i + 1] = After(program[i], Depth[i])
BY DepthsUnfold, DepthsType DEF TextOK, Depth, This

LEMMA EnclosingFacts ==
  ASSUME TextOK, NEW i \in 1 .. Len(program) + 1
  PROVE  /\ Enclosing(i) \subseteq 1 .. i - 1
         /\ \A j \in Enclosing(i) : HasBody(program[j]) /\ j \in Bodies
         /\ Body(i) \in 0 .. i - 1 /\ Body(i) \in Bodies
         /\ Body(i) \in Enclosing(i) \cup {0}
         /\ \A j \in Enclosing(i) : j <= Body(i)
<1> DEFINE E == Enclosing(i)
<1>1. Len(program) \in Nat /\ DOMAIN program = 1 .. Len(program) /\ i \in Nat
  BY TextIs
<1>2. E \subseteq 1 .. i - 1
  BY DEF Enclosing
<1>3. ASSUME NEW j \in E PROVE HasBody(program[j]) /\ j \in Bodies
  <2>1. j \in 1 .. Len(program)
    BY <1>1, <1>2
  <2>2. Depth[j + 1] > Depth[j]
    BY DEF Enclosing
  <2>3. HasBody(program[j])
    BY <2>1, <2>2, TextIs DEF After
  <2> QED  BY <1>1, <2>1, <2>3 DEF Bodies
<1>4. CASE E = {}
  BY <1>1, <1>2, <1>3, <1>4 DEF Body, Bodies
<1>5. CASE E # {}
  <2> HIDE DEF E
  <2>1. E \in SUBSET (0 .. i - 1) /\ i - 1 \in Nat
    BY <1>1, <1>2
  <2>2. Max(E) \in E /\ \A j \in E : j <= Max(E)
    BY <1>5, <2>1, Extremes
  <2>3. Body(i) = Max(E)
    BY <1>5 DEF Body, E
  <2>4. E = Enclosing(i)
    BY DEF E
  <2> QED  BY <1>2, <1>3, <2>1, <2>2, <2>3, <2>4
<1> QED  BY <1>4, <1>5

\* What is around a body around node i is around node i.
LEMMA EnclosingChain ==
  ASSUME TextOK, NEW i \in 1 .. Len(program) + 1, NEW b \in Enclosing(i)
  PROVE  Enclosing(b) \subseteq Enclosing(i) /\ Body(b) \in Enclosing(i) \cup {0} /\ Body(b) < b
<1>1. /\ b \in 1 .. i - 1 /\ i \in Nat /\ b \in 1 .. Len(program) + 1 /\ b \in Nat
      /\ \A k \in 1 .. Len(program) + 1 : Depth[k] \in Int
  BY TextIs, EnclosingFacts
<1>2. Depth[b + 1] > Depth[b] /\ \A k \in (b + 1) .. i : Depth[k] > Depth[b]
  BY DEF Enclosing
<1>3. ASSUME NEW j \in Enclosing(b) PROVE j \in Enclosing(i)
  <2>1. /\ j \in 1 .. b - 1 /\ Depth[j + 1] > Depth[j]
        /\ \A k \in (j + 1) .. b : Depth[k] > Depth[j]
    BY <1>3 DEF Enclosing
  <2>2. Depth[b] > Depth[j]
    BY <1>1, <2>1
  <2>3. ASSUME NEW k \in (j + 1) .. i PROVE Depth[k] > Depth[j]
    <3>1. k \in (j + 1) .. b \/ k \in (b + 1) .. i
      BY <1>1, <2>1
    <3>2. Depth[b] \in Int /\ Depth[j] \in Int /\ Depth[k] \in Int
      BY <1>1, <2>1
    <3> QED  BY <1>2, <2>1, <2>2, <3>1, <3>2
  <2> QED  BY <1>1, <2>1, <2>3 DEF Enclosing
<1>4. Body(b) \in Enclosing(b) \cup {0} /\ Body(b) \in 0 .. b - 1
  BY <1>1, EnclosingFacts
<1>5. Body(b) < b
  BY <1>1, <1>4
<1>6. Enclosing(b) \subseteq Enclosing(i)
  BY <1>3
<1> QED  BY ONLY <1>4, <1>5, <1>6

(***************************************************************************)
(* What a name means, unfolded.                                            *)
(***************************************************************************)
Before(i, name, body) == {d \in DeclaredIn(body, name) : d <= i}

\* What it means in that body.
MeansIn(i, name, body) ==
  LET in[b \in 0 .. Len(program)] ==
        CASE Before(i, name, b) # {} -> <<Max(Before(i, name, b)), 1>>
          [] Before(i, name, b) = {} /\ b = 0 -> nullptr
          [] Before(i, name, b) = {} /\ b # 0 /\ InHeader(b, name) # nullptr -> InHeader(b, name)
          [] OTHER -> in[Body(b)]
  IN  in[body]

LEMMA MeaningIs ==
  ASSUME NEW i, NEW name
  PROVE  Meaning(i, name) = MeansIn(i, name, Body(i))
BY DEF Meaning, MeansIn, Before

LEMMA MeaningUnfolds ==
  ASSUME TextOK, NEW i, NEW name
  PROVE  \A b \in 0 .. Len(program) :
           MeansIn(i, name, b) =
             CASE Before(i, name, b) # {} -> <<Max(Before(i, name, b)), 1>>
               [] Before(i, name, b) = {} /\ b = 0 -> nullptr
               [] Before(i, name, b) = {} /\ b # 0 /\ InHeader(b, name) # nullptr -> InHeader(b, name)
               [] OTHER -> MeansIn(i, name, Body(b))
<1> DEFINE m == Len(program)
           out(s) == Body(s)
           V(s) == <<Max(Before(i, name, s)), 1>>
           C(s) == Before(i, name, s) # {}
           H(s) == InHeader(s, name)
           Then(h, s) == CASE C(s) -> V(s)
                           [] ~C(s) /\ s = 0 -> nullptr
                           [] ~C(s) /\ s # 0 /\ H(s) # nullptr -> H(s)
                           [] OTHER -> h[out(s)]
           Step(f, k) == [s \in 0 .. k |-> Then(f, s)]
           T == {k \in 0 .. m : \E f : f = Step(f, k)}
           from == CHOOSE f : f = Step(f, m)
<1>0. m \in Nat /\ \A s \in 1 .. m : out(s) \in 0 .. s - 1
  BY TextIs, EnclosingFacts
<1>5. \A s : MeansIn(i, name, s) = from[s]
  BY DEF MeansIn
<1>8. \A s : ~C(s) <=> Before(i, name, s) = {}
  OBVIOUS
<1> HIDE DEF m, out, H, C, V
<1>a. \A f, g, s : f[out(s)] = g[out(s)] => Then(f, s) = Then(g, s)
  OBVIOUS
<1>b. \A f, g : Then(f, 0) = Then(g, 0)
  OBVIOUS
<1> HIDE DEF Then
<1>1. 0 \in T
  <2>1. \E f : f = Step(f, 0)
    <3>1. PICK g : g = [s \in 0 .. 0 |-> Then(<<>>, 0)]
      OBVIOUS
    <3>2. \A s \in 0 .. 0 : Then(<<>>, 0) = Then(g, s)
      BY <1>b
    <3>3. g = Step(g, 0)
      BY <3>1, <3>2
    <3> QED  BY <3>3
  <2>2. 0 \in 0 .. m
    BY <1>0
  <2> HIDE DEF Step
  <2> QED  BY <2>1, <2>2
<1>2. ASSUME NEW k \in 0 .. m - 1, k \in T PROVE k + 1 \in T
  <2>0. k \in Nat
    BY <1>0
  <2>1. PICK f : f = Step(f, k)
    BY <1>2
  <2> DEFINE g == [s \in 0 .. k + 1 |-> IF s = k + 1 THEN Then(f, s) ELSE f[s]]
  <2>2. ASSUME NEW s \in 0 .. k + 1
        PROVE  g[s] = Then(g, s)
    <3>0. s # 0 => out(s) \in 0 .. k + 1 /\ out(s) # k + 1
      BY <1>0, <2>0
    <3>1. s # 0 => g[out(s)] = f[out(s)]
      BY <3>0
    <3>2. g[s] = IF s = k + 1 THEN Then(f, s) ELSE f[s]
      OBVIOUS
    <3>3. s # k + 1 => f[s] = Then(f, s)
      BY <2>0, <2>1
    <3>4. Then(g, s) = Then(f, s)
      <4> HIDE DEF g
      <4> QED  BY <1>a, <1>b, <3>1
    <3> HIDE DEF g
    <3> QED  BY <3>2, <3>3, <3>4
  <2>3. g = Step(g, k + 1)
    BY <2>2
  <2>4. k + 1 \in 0 .. m
    BY <1>0
  <2> QED  BY <2>3, <2>4
<1>3. m \in T
  <2> HIDE DEF T
  <2>1. 0 .. m \subseteq T
    BY <1>0, <1>1, <1>2, IntervalInduction
  <2> QED  BY <1>0, <2>1
<1>4. from = Step(from, m)
  BY <1>3
<1> HIDE DEF from
<1>6. \A s \in 0 .. m : from[s] = Then(from, s)
  BY <1>4
<1>7. \A s \in 0 .. m : from[s] = CASE C(s) -> V(s)
                                    [] ~C(s) /\ s = 0 -> nullptr
                                    [] ~C(s) /\ s # 0 /\ H(s) # nullptr -> H(s)
                                    [] OTHER -> from[out(s)]
  BY <1>6 DEF Then
<1> QED  BY <1>5, <1>7, <1>8 DEF m, out, H, C, V

(***************************************************************************)
(* The inductive invariant of names.  Each body b has a scope m[b] whose   *)
(* table holds the variables declared in b and nothing else; the scope     *)
(* around it holds the names of its header, or is the one of the body      *)
(* around it.                                                              *)
(***************************************************************************)
Live == pass \in {"DefWalk", "RefWalk", "accepted"}

Headless == {"block", "loop", "conditional"}
Headed == {"subroutine", "iterator", "generator"}

WrittenOK(i) ==
  /\ program[i].kind = "var" => \E n \in Names : program[i].names = <<n>>
  /\ program[i].kind \in Headed => program[i].names \in Seq(Names)
  /\ program[i].kind \in Headless => program[i].names = <<>>
  /\ program[i].kind = "subroutine" => Depth[i] = 0

LinesOK ==
  Live => /\ \A i, j \in DOMAIN program : i <= j => program[i].line <= program[j].line
          /\ \A i \in DOMAIN program : WrittenOK(i)

InTable(s, n) == IF n \in DOMAIN scopes[s].symbols THEN scopes[s].symbols[n] ELSE nullptr

\* Scope s holds what body b declares.
Holds(s, b) ==
  /\ scopes[s].subroutine = noName
  /\ \A n \in Names :
       \/ DeclaredIn(b, n) = {} /\ InTable(s, n) = nullptr
       \/ \E d : DeclaredIn(b, n) = {d} /\ InTable(s, n) = <<d, 1>>

\* Scope s holds the names in the header of node i.
Heads(s, i, m) ==
  /\ s \in 1 .. Len(scopes)
  /\ scopes[s].subroutine = noName /\ scopes[s].enclosingScope = m[Body(i)]
  /\ \A n \in Names : InTable(s, n) = InHeader(i, n)
  /\ \A b \in Bodies : m[b] # s

\* What is around the scope of body b.
Outside(b, m) ==
  LET outer == scopes[m[b]].enclosingScope
      kind == program[b].kind
  IN  /\ kind = "iterator" => Heads(outer, b, m)
      /\ kind = "subroutine" => outer = subroutines[program[b].subroutine].scope /\ outer # 0
      /\ kind \in Headless => outer = m[Body(b)]

OfSubroutine(f, m) ==
  LET s == subroutines[f].scope
  IN  s # 0 => /\ scopes[s].subroutine = f /\ \A n \in Names : InTable(s, n) = nullptr
               /\ \A b \in Bodies : m[b] # s

\* Where the k-th identifier of node i is looked up.
Located(s, i, k, m) ==
  /\ program[i].kind \in {"var", "use", "iterator", "generator"}
  /\ UsedName(program[i], k) \in Names
  /\ IF k = 0 /\ program[i].kind = "generator" THEN Heads(s, i, m) ELSE s = m[Body(i)]

Laid(m) ==
  /\ m \in [Bodies -> 1 .. Len(scopes)] /\ m[0] = 1
  /\ \A b \in Bodies : Holds(m[b], b)
  /\ \A b \in Bodies \ {0} : Outside(b, m)
  /\ \A f \in Subroutines : OfSubroutine(f, m)
  /\ \A i \in 1 .. Len(program) : \A k \in DOMAIN identifiers[i] : Located(identifiers[i][k], i, k, m)

LaidOK ==
  /\ pass = "DefWalk" => \E m : Placed(m) /\ Laid(m)
  /\ pass = "RefWalk" => \E m : Laid(m)

(***************************************************************************)
(* The parameters of a subroutine are pushed once for each declaration;    *)
(* when RefWalk is done with the first of two, the second half is kept.    *)
(***************************************************************************)
Params(j) == [k \in DOMAIN program[j].names |-> <<j, k>>]
Finished(j) == j < at /\ ~IsOpen(j)
SecondHalf(s) == SubSeq(s, Len(s) \div 2 + 1, Len(s))

Undeclared(f) ==
  /\ Declarations(f) = {} /\ subroutines[f].orderedArgs = <<>>
  /\ subroutines[f].numTimesDeclare = 0

DeclaredOnce(f, j) ==
  /\ Declarations(f) = {j} /\ subroutines[f].orderedArgs = Params(j)
  /\ subroutines[f].numTimesDeclare = 1

DeclaredTwice(f, j, k) ==
  /\ Declarations(f) = {j, k} /\ j < k
  /\ IF Finished(j)
     THEN /\ subroutines[f].orderedArgs = SecondHalf(Params(j) \o Params(k))
          /\ subroutines[f].numTimesDeclare = 1
     ELSE /\ subroutines[f].orderedArgs = Params(j) \o Params(k)
          /\ subroutines[f].numTimesDeclare = 2

ArgsOK ==
  Live => \A f \in Subroutines :
    Undeclared(f) \/ (\E j : DeclaredOnce(f, j)) \/ (\E j, k : DeclaredTwice(f, j, k))

NamedOK ==
  Live => \A i \in DOMAIN program : program[i].kind = "subroutine" =>
    \A k \in DOMAIN program[i].names : <<i, k>> \in named <=> i < at

(***************************************************************************)
(* What RefWalk has resolved.                                              *)
(***************************************************************************)
Right(i, k) ==
  LET name == UsedName(program[i], k)
  IN  \/ resolved[i][k] = MeaningOf(i, k)
      \/ NamesakeOnItsLine(i, name) \/ Misdeclared(i, name)

ResolvedOK ==
  Live => /\ Len(identifiers) = Len(program)
          /\ \A i \in 1 .. Len(resolved) : \A k \in DOMAIN identifiers[i] : Right(i, k)

NInv == LinesOK /\ LaidOK /\ ArgsOK /\ NamedOK /\ ResolvedOK

(***************************************************************************)
(* The first of the names in a header.                                     *)
(***************************************************************************)
FirstOf(I) == IF I # {} THEN Min(I) ELSE 0

LEMMA FirstIsIn ==
  ASSUME NEW n \in Nat, NEW I \in SUBSET (1 .. n)
  PROVE  /\ I = {} => FirstOf(I) = 0
         /\ I # {} => FirstOf(I) \in I /\ FirstOf(I) \in 1 .. n /\ \A i \in I : FirstOf(I) <= i
<1>1. CASE I = {}
  BY <1>1 DEF FirstOf
<1>2. CASE I # {}
  <2>1. I \in SUBSET (0 .. n)
    OBVIOUS
  <2>2. Min(I) \in I /\ \A i \in I : Min(I) <= i
    BY <1>2, <2>1, Extremes
  <2> QED  BY <1>2, <2>2 DEF FirstOf
<1> QED  BY <1>1, <1>2

LEMMA FirstShifted ==
  ASSUME NEW n \in Nat, NEW I \in SUBSET (1 .. n), NEW lo \in Nat, NEW J, J = {lo + i : i \in I}
  PROVE  FirstOf(J) = IF I = {} THEN 0 ELSE lo + FirstOf(I)
<1>1. CASE I = {}
  BY <1>1 DEF FirstOf
<1>2. CASE I # {}
  <2>0. ASSUME NEW j \in J PROVE j \in 1 .. lo + n
    <3>1. PICK i \in I : j = lo + i
      OBVIOUS
    <3>2. i \in 1 .. n
      OBVIOUS
    <3> QED  BY <3>1, <3>2
  <2>1. J \in SUBSET (1 .. lo + n) /\ lo + n \in Nat /\ J # {}
    <3>1. J # {}
      BY <1>2
    <3>2. J \subseteq 1 .. lo + n
      BY <2>0
    <3>3. lo + n \in Nat
      OBVIOUS
    <3> QED  BY ONLY <3>1, <3>2, <3>3
  <2>2. FirstOf(J) \in J /\ \A j \in J : FirstOf(J) <= j
    BY <2>1, FirstIsIn
  <2>3. FirstOf(I) \in I /\ \A i \in I : FirstOf(I) <= i
    BY <1>2, FirstIsIn
  <2>4. PICK a, b : a = FirstOf(I) /\ b = FirstOf(J)
    OBVIOUS
  <2>5. lo + a \in J /\ a \in Nat
    <3>1. a \in I
      BY <2>3, <2>4
    <3>2. a \in 1 .. n
      BY <3>1
    <3> QED  BY <3>1, <3>2
  <2>6. b <= lo + a
    BY <2>2, <2>4, <2>5
  <2>7. PICK i \in I : b = lo + i
    BY <2>2, <2>4
  <2>8. a <= i /\ i \in Nat
    BY <2>3, <2>4, <2>7
  <2>9. b = lo + a
    BY <2>5, <2>6, <2>7, <2>8
  <2> QED  BY <1>2, <2>4, <2>9
<1> QED  BY <1>1, <1>2

LEMMA HeaderIs ==
  ASSUME NEW i, NEW name
  PROVE  LET k == FirstOf({q \in 1 .. Len(program[i].names) : program[i].names[q] = name})
         IN  InHeader(i, name) = IF k = 0 THEN nullptr ELSE <<i, k>>
BY DEF InHeader, SelectInSeq, FirstOf

LEMMA PairIsNotNull == \A i, k : <<i, k>> # nullptr
<1>1. Len(nullptr) = 0
  BY DEF nullptr
<1>2. \A i, k : Len(<<i, k>>) = 2
  OBVIOUS
<1> HIDE DEF nullptr
<1> QED  BY <1>1, <1>2

\* A name that the header has is found in it, others are not.
LEMMA HeaderHas ==
  ASSUME NEW i, program[i].names \in Seq(Names), NEW name
  PROVE  InHeader(i, name) = nullptr <=> \A q \in 1 .. Len(program[i].names) : program[i].names[q] # name
<1> DEFINE I == {q \in 1 .. Len(program[i].names) : program[i].names[q] = name}
<1>1. Len(program[i].names) \in Nat /\ I \in SUBSET (1 .. Len(program[i].names))
  OBVIOUS
<1>2. InHeader(i, name) = IF FirstOf(I) = 0 THEN nullptr ELSE <<i, FirstOf(I)>>
  BY HeaderIs
<1>3. I = {} <=> FirstOf(I) = 0
  <2> HIDE DEF I
  <2> QED  BY <1>1, FirstIsIn
<1>4. <<i, FirstOf(I)>> # nullptr
  BY PairIsNotNull
<1>5. I = {} <=> \A q \in 1 .. Len(program[i].names) : program[i].names[q] # name
  OBVIOUS
<1> HIDE DEF I, nullptr, InHeader
<1> QED  BY <1>2, <1>3, <1>4, <1>5

\* The symbols of that name among the arguments.
Namesakes(args, name) == {q \in 1 .. Len(args) : NameOf(args[q]) = name}

\* The parameters in the header of b are together among the arguments, and no
\* other has the name.
Among(b, args, lo, name) ==
  /\ program[b].names \in Seq(Names) /\ Len(args) \in Nat /\ lo \in Nat
  /\ lo + Len(program[b].names) <= Len(args)
  /\ \A k \in 1 .. Len(program[b].names) :
       args[lo + k] = <<b, k>> /\ NameOf(<<b, k>>) = program[b].names[k]
  /\ \A q \in 1 .. Len(args) :
       q \notin lo + 1 .. lo + Len(program[b].names) => NameOf(args[q]) # name

\* Then the name is found as in the header.
LEMMA FoundAsInHeader ==
  ASSUME NEW b, NEW args, NEW lo, NEW name, Among(b, args, lo, name)
  PROVE  InHeader(b, name) = IF FirstOf(Namesakes(args, name)) # 0
                             THEN args[FirstOf(Namesakes(args, name))] ELSE nullptr
<1>1. PICK names, n : names = program[b].names /\ n = Len(names)
  OBVIOUS
<1> DEFINE I == {k \in 1 .. n : names[k] = name}
           J == Namesakes(args, name)
           k == FirstOf(I)
           arg == FirstOf(J)
<1>2. n \in Nat /\ I \in SUBSET (1 .. n) /\ lo \in Nat /\ Len(args) \in Nat /\ lo + n <= Len(args)
  BY <1>1 DEF Among
<1>3. \A q \in 1 .. n : args[lo + q] = <<b, q>> /\ NameOf(args[lo + q]) = names[q]
  BY <1>1 DEF Among
<1>4. \A q \in 1 .. Len(args) : q \notin lo + 1 .. lo + n => NameOf(args[q]) # name
  BY <1>1 DEF Among
<1>6. InHeader(b, name) = IF k = 0 THEN nullptr ELSE <<b, k>>
  BY <1>1, HeaderIs
<1>7. J = {lo + i : i \in I}
  <2>1. ASSUME NEW q \in J PROVE q \in {lo + i : i \in I}
    <3>1. q \in lo + 1 .. lo + n /\ q \in 1 .. Len(args) /\ NameOf(args[q]) = name
      BY <1>4 DEF Namesakes
    <3>2. PICK i : i = q - lo
      OBVIOUS
    <3>3. i \in 1 .. n /\ q = lo + i
      BY <1>2, <3>1, <3>2
    <3>4. i \in I
      BY <1>3, <3>1, <3>3
    <3> HIDE DEF I
    <3> QED  BY <3>3, <3>4
  <2>2. ASSUME NEW i \in I PROVE lo + i \in J
    <3>1. lo + i \in 1 .. Len(args)
      BY <1>2
    <3>2. NameOf(args[lo + i]) = name
      BY <1>3
    <3> QED  BY <3>1, <3>2 DEF Namesakes
  <2> HIDE DEF I, J
  <2> QED  BY <2>1, <2>2
<1> HIDE DEF I, J
<1>8. arg = IF I = {} THEN 0 ELSE lo + k
  BY <1>2, <1>7, FirstShifted
<1>9. (I = {} => k = 0) /\ (I # {} => k \in 1 .. n)
  BY <1>2, FirstIsIn
<1> HIDE DEF k, arg, nullptr, InHeader
<1>10. InHeader(b, name) = IF arg # 0 THEN args[arg] ELSE nullptr
  <2>1. CASE I = {}
    BY <1>6, <1>8, <1>9, <2>1
  <2>2. CASE I # {}
    <3>1. k \in 1 .. n /\ arg = lo + k /\ arg # 0 /\ k # 0
      BY <1>2, <1>8, <1>9, <2>2
    <3>2. args[arg] = <<b, k>>
      BY <1>3, <3>1
    <3> QED  BY <1>6, <3>1, <3>2
  <2> QED  BY <2>1, <2>2
<1> QED  BY <1>10 DEF arg, J

(***************************************************************************)
(* The parameters in the body of a definition.                             *)
(***************************************************************************)
LEMMA SubroutineNodes ==
  ASSUME TextOK, LinesOK, Live, NEW j \in DOMAIN program, program[j].kind = "subroutine"
  PROVE  /\ j \in 1 .. Len(program) /\ j \in Nat /\ Depth[j] = 0
         /\ program[j].names \in Seq(Names) /\ Len(program[j].names) \in Nat
         /\ DOMAIN program[j].names = 1 .. Len(program[j].names)
         /\ program[j].subroutine \in Subroutines
<1>1. j \in 1 .. Len(program) /\ j \in Nat
  BY TextIs
<1>2. Depth[j] = 0 /\ program[j].names \in Seq(Names)
  BY DEF LinesOK, WrittenOK, Headed
<1> QED  BY <1>1, <1>2 DEF TextOK

LEMMA DefinitionAround ==
  ASSUME IInv, LinesOK, pass = "RefWalk", NEW b \in Enclosing(at), program[b].kind = "subroutine"
  PROVE  /\ b \in DOMAIN program /\ b < at /\ program[b].body /\ IsOpen(b)
         /\ \A j \in DOMAIN program : program[j].kind = "subroutine" =>
              (b < j => at < j) /\ (j < b => Finished(j))
<1>1. /\ TextOK /\ Around(at) /\ Live /\ at \in 1 .. Len(program) + 1
  BY DEF IInv, Rest, StackOK, Live, TextOK
<1>2. /\ Len(program) \in Nat /\ DOMAIN program = 1 .. Len(program) /\ at \in Nat
      /\ \A i \in 1 .. Len(program) + 1 : Depth[i] \in Int
  BY <1>1, TextIs
<1>3. /\ b \in 1 .. at - 1 /\ HasBody(program[b])
  BY <1>1, EnclosingFacts
<1>4. b \in DOMAIN program /\ b < at /\ program[b].body /\ b \in Nat /\ b \in 1 .. Len(program)
  <2>1. b \in 1 .. Len(program) /\ b < at
    BY <1>1, <1>2, <1>3
  <2> QED  BY <1>2, <1>3, <2>1 DEF HasBody
<1>5. Depth[b] = 0
  BY <1>1, <1>4, SubroutineNodes
<1>6. \A k \in b + 1 .. at : Depth[k] > 0
  BY <1>5 DEF Enclosing
<1>7. at \in b + 1 .. at /\ Depth[at] > 0
  BY <1>2, <1>4, <1>6
<1>8. /\ Len(open) = Depth[at] /\ open \in Seq(DOMAIN program) /\ Len(open) \in Nat
      /\ \A k \in 1 .. Len(open) :
           /\ open[k] < at /\ Depth[open[k]] = k - 1 /\ open[k] \in 1 .. Len(program)
           /\ \A j \in open[k] + 1 .. at : Depth[j] >= k
  <2>1. \A k \in 1 .. Len(open) : open[k] \in 1 .. Len(program)
    BY <1>1, <1>2, OpenBodies
  <2> QED  BY <1>1, <2>1 DEF Around, TextOK
<1>9. IsOpen(b)
  <2>1. 1 \in 1 .. Len(open)
    BY <1>7, <1>8
  <2>2. PICK o : o = open[1]
    OBVIOUS
  <2>3. o < at /\ Depth[o] = 0 /\ o \in Nat /\ \A j \in o + 1 .. at : Depth[j] >= 1
    BY <2>1, <2>2, <1>8
  <2>4. ~(o < b)
    <3>1. o < b => b \in o + 1 .. at
      BY <1>2, <1>4, <2>3
    <3> QED  BY <1>5, <2>3, <3>1
  <2>5. ~(b < o)
    <3>1. b < o => o \in b + 1 .. at
      BY <1>2, <1>4, <2>3
    <3> QED  BY <1>6, <2>3, <3>1
  <2>6. o = b
    BY <1>4, <2>3, <2>4, <2>5
  <2> QED  BY <2>1, <2>2, <2>6 DEF IsOpen
<1>10. ASSUME NEW j \in DOMAIN program, program[j].kind = "subroutine"
       PROVE  (b < j => at < j) /\ (j < b => Finished(j))
  <2>1. Depth[j] = 0 /\ j \in Nat
    BY <1>1, <1>10, SubroutineNodes
  <2>2. b < j => at < j
    <3>1. b < j /\ ~(at < j) => j \in b + 1 .. at
      BY <1>2, <1>4, <2>1
    <3> QED  BY <1>6, <2>1, <3>1
  <2>3. ASSUME j < b PROVE Finished(j)
    <3>1. ASSUME NEW k \in 1 .. Len(open), open[k] = j PROVE FALSE
      <4>1. b \in j + 1 .. at
        BY <1>2, <1>4, <2>1, <2>3
      <4>2. Depth[b] >= k
        BY <1>8, <3>1, <4>1
      <4> QED  BY <1>5, <4>2
    <3>2. j < at
      BY <1>2, <1>4, <2>1, <2>3
    <3> QED  BY <3>1, <3>2 DEF Finished, IsOpen
  <2> QED  BY <2>2, <2>3
<1> QED  BY <1>4, <1>9, <1>10

LEMMA ParamsAre ==
  ASSUME TextOK, LinesOK, Live, NEW j \in DOMAIN program, program[j].kind = "subroutine"
  PROVE  /\ Params(j) \in Seq(Nat \X Nat) /\ Len(Params(j)) = Len(program[j].names)
         /\ \A k \in 1 .. Len(program[j].names) : Params(j)[k] = <<j, k>>
<1>1. j \in Nat /\ DOMAIN program[j].names = 1 .. Len(program[j].names) /\ Len(program[j].names) \in Nat
  BY SubroutineNodes
<1>2. PICK n : n = Len(program[j].names)
  OBVIOUS
<1>3. Params(j) = [k \in 1 .. n |-> <<j, k>>] /\ n \in Nat
  BY <1>1, <1>2 DEF Params
<1>4. Params(j) \in [1 .. n -> Nat \X Nat]
  BY <1>1, <1>3
<1>5. Params(j) \in Seq(Nat \X Nat) /\ Len(Params(j)) = n
  BY <1>3, <1>4
<1> QED  BY <1>2, <1>3, <1>5

LEMMA SecondHalfIs ==
  ASSUME NEW S, NEW s \in Seq(S), NEW t \in Seq(S)
  PROVE  LET h == SecondHalf(s \o t)
             cut == (Len(s) + Len(t)) \div 2
         IN  /\ h \in Seq(S) /\ cut \in Nat /\ Len(h) = Len(s) + Len(t) - cut
             /\ \A q \in 1 .. Len(h) :
                  h[q] = IF cut + q <= Len(s) THEN s[cut + q] ELSE t[cut + q - Len(s)]
<1>a. PICK cut, h : cut = (Len(s) + Len(t)) \div 2 /\ h = SecondHalf(s \o t)
  OBVIOUS
<1>1. PICK u : u = s \o t
  OBVIOUS
<1>2. /\ u \in Seq(S) /\ Len(u) = Len(s) + Len(t) /\ Len(s) \in Nat /\ Len(t) \in Nat
      /\ \A q \in 1 .. Len(u) : u[q] = IF q <= Len(s) THEN s[q] ELSE t[q - Len(s)]
  BY <1>1, ConcatProperties
<1>3. cut \in Nat /\ cut <= Len(u) /\ cut = Len(u) \div 2
  BY <1>2, <1>a
<1>4. h = SubSeq(u, cut + 1, Len(u))
  BY <1>1, <1>3, <1>a DEF SecondHalf
<1>5. /\ h \in Seq(S)
      /\ Len(h) = IF cut + 1 <= Len(u) THEN Len(u) - (cut + 1) + 1 ELSE 0
      /\ \A q \in 1 .. Len(u) - (cut + 1) + 1 : h[q] = u[(cut + 1) + q - 1]
  <2>1. \A q \in cut + 1 .. Len(u) : u[q] \in S
    BY <1>2, <1>3
  <2> QED  BY <1>2, <1>3, <1>4, <2>1, SubSeqProperties
<1>6. Len(h) = Len(u) - cut
  <2>1. \A n, c \in Nat : c <= n => (IF c + 1 <= n THEN n - (c + 1) + 1 ELSE 0) = n - c
    OBVIOUS
  <2>2. Len(u) \in Nat
    BY <1>2
  <2> QED  BY <1>3, <1>5, <2>1, <2>2
<1>7. ASSUME NEW q \in 1 .. Len(h)
      PROVE  h[q] = IF cut + q <= Len(s) THEN s[cut + q] ELSE t[cut + q - Len(s)]
  <2>1. q \in 1 .. Len(u) - (cut + 1) + 1 /\ (cut + 1) + q - 1 = cut + q /\ cut + q \in 1 .. Len(u)
    BY <1>2, <1>3, <1>6
  <2>2. PICK c : c = cut + q
    OBVIOUS
  <2>3. h[q] = u[c]
    <3>1. h[q] = u[(cut + 1) + q - 1]
      BY <1>5, <2>1
    <3> QED  BY <2>1, <2>2, <3>1
  <2>4. u[c] = IF c <= Len(s) THEN s[c] ELSE t[c - Len(s)]
    <3>1. c \in 1 .. Len(u)
      BY <2>1, <2>2
    <3> QED  BY <1>2, <3>1
  <2>5. cut + q - Len(s) = c - Len(s)
    BY <1>2, <1>3, <2>2
  <2> QED  BY <2>2, <2>3, <2>4, <2>5
<1>8. h \in Seq(S) /\ cut \in Nat /\ Len(h) = Len(s) + Len(t) - cut
  <2>1. Len(u) = Len(s) + Len(t) /\ Len(s) \in Nat /\ Len(t) \in Nat
    BY <1>2
  <2>2. cut \in Nat
    BY <1>3
  <2>3. Len(h) = Len(s) + Len(t) - cut
    BY ONLY <2>1, <2>2, <1>6
  <2> QED  BY <1>3, <1>5, <2>3
<1> QED  BY <1>7, <1>8, <1>a

\* The names of the parameters that RefWalk has reached are known.
LEMMA NameOfParameter ==
  ASSUME TextOK, LinesOK, NamedOK, Live, NEW j \in DOMAIN program, program[j].kind = "subroutine",
         NEW k \in 1 .. Len(program[j].names)
  PROVE  IF j < at THEN NameOf(<<j, k>>) = program[j].names[k] ELSE NameOf(<<j, k>>) \notin Names
<1>1. k \in DOMAIN program[j].names
  BY SubroutineNodes
<1>2. <<j, k>> \in named <=> j < at
  BY <1>1 DEF NamedOK
<1>3. <<j, k>>[1] = j /\ <<j, k>>[2] = k
  OBVIOUS
<1>4. NameOf(<<j, k>>) = IF <<j, k>> \notin named THEN "" ELSE program[j].names[k]
  BY <1>3, Zenon DEF NameOf
<1> QED  BY <1>2, <1>4, NamesAssumption, Zenon

LEMMA NamesAre == noName \notin Names /\ noName \notin Subroutines
BY NamesAssumption, Zenon

\* A name that the header of a definition has is found among the parameters
\* that RefWalk works with while it is in its body.
LEMMA HereParameters ==
  ASSUME IInv, LinesOK, ArgsOK, NamedOK, pass = "RefWalk", NEW name \in Names,
         NEW b \in Enclosing(at), program[b].kind = "subroutine",
         NEW f, f = program[b].subroutine, NEW s, scopes[s].subroutine = f, InTable(s, name) = nullptr
  PROVE  Here(name, s) = InHeader(b, name) \/ Misdeclared(at, name)
<1>1. /\ TextOK /\ Live /\ at \in Nat /\ DOMAIN program = 1 .. Len(program)
      /\ b \in DOMAIN program /\ b < at /\ IsOpen(b) /\ b \in Declarations(f)
      /\ \A j \in DOMAIN program : program[j].kind = "subroutine" =>
           (b < j => at < j) /\ (j < b => Finished(j))
  <2>1. TextOK /\ Live
    BY DEF IInv, Rest, Live
  <2>2. at \in Nat /\ DOMAIN program = 1 .. Len(program)
    BY <2>1, TextIs DEF TextOK
  <2>3. /\ b \in DOMAIN program /\ b < at /\ IsOpen(b)
        /\ \A j \in DOMAIN program : program[j].kind = "subroutine" =>
             (b < j => at < j) /\ (j < b => Finished(j))
    BY DefinitionAround
  <2> QED  BY <2>1, <2>2, <2>3 DEF Declarations
<1>2. PICK names, n : names = program[b].names /\ n = Len(names)
  OBVIOUS
<1>3. names \in Seq(Names) /\ n \in Nat /\ f \in Subroutines /\ f # noName
  BY <1>1, <1>2, SubroutineNodes, NamesAre
<1>4. PICK args, arg : args = subroutines[f].orderedArgs /\ arg = FirstOf(Namesakes(args, name))
  OBVIOUS
<1>5. Here(name, s) = IF arg # 0 THEN args[arg] ELSE nullptr
  <2>1. Here(name, s) = IF scopes[s].subroutine # noName /\ arg # 0 THEN args[arg]
                        ELSE InTable(s, name)
    BY <1>4 DEF Here, InTable, SelectInSeq, FirstOf, Namesakes
  <2> HIDE DEF nullptr, InTable, noName
  <2> QED  BY <1>3, <2>1
<1>6. /\ Params(b) \in Seq(Nat \X Nat) /\ Len(Params(b)) = n
      /\ \A k \in 1 .. n : Params(b)[k] = <<b, k>> /\ NameOf(<<b, k>>) = names[k]
  <2>1. \A k \in 1 .. n : NameOf(<<b, k>>) = names[k]
    <3> HIDE DEF NameOf
    <3> QED  BY <1>1, <1>2, NameOfParameter
  <2> HIDE DEF NameOf
  <2> QED  BY <1>1, <1>2, <2>1, ParamsAre
<1>7. ASSUME NEW lo \in Nat, lo + n <= Len(args), Len(args) \in Nat,
             \A k \in 1 .. n : args[lo + k] = <<b, k>>,
             \A q \in 1 .. Len(args) : q \notin lo + 1 .. lo + n => NameOf(args[q]) # name
      PROVE  Here(name, s) = InHeader(b, name)
  <2>1. Among(b, args, lo, name)
    <3> HIDE DEF NameOf
    <3> QED  BY <1>2, <1>3, <1>6, <1>7 DEF Among
  <2> HIDE DEF nullptr, InHeader, Here
  <2> QED  BY <1>4, <1>5, <2>1, FoundAsInHeader
<1>8. CASE \E j : DeclaredOnce(f, j)
  <2>1. args = Params(b)
    BY <1>1, <1>4, <1>8 DEF DeclaredOnce
  <2>2. \A k \in 1 .. n : args[k] = <<b, k>>
    BY <1>6, <2>1
  <2>3. Len(args) = n
    BY <1>6, <2>1
  <2> HIDE DEF Here, InHeader, NameOf
  <2>4. ASSUME NEW k \in 1 .. n PROVE args[0 + k] = <<b, k>>
    <3>1. 0 + k = k
      BY <1>3
    <3> QED  BY <2>2, <3>1
  <2>5. \A q \in 1 .. Len(args) : q \notin 0 + 1 .. 0 + n => NameOf(args[q]) # name
    BY <1>3, <2>3
  <2>6. 0 \in Nat /\ 0 + n <= Len(args) /\ Len(args) \in Nat
    BY <1>3, <2>3
  <2> QED  BY <1>7, <2>4, <2>5, <2>6
<1>9. ASSUME NEW j, NEW k, DeclaredTwice(f, j, k), j = b
      PROVE  Here(name, s) = InHeader(b, name)
  <2>1. /\ k \in DOMAIN program /\ program[k].kind = "subroutine" /\ b < k
        /\ args = Params(b) \o Params(k)
    <3>1. Declarations(f) = {j, k} /\ j < k /\ ~Finished(j)
      BY <1>1, <1>9 DEF DeclaredTwice, Finished
    <3>2. k \in Declarations(f)
      BY <3>1
    <3> QED  BY <1>4, <1>9, <3>1, <3>2 DEF DeclaredTwice, Declarations
  <2>2. at < k /\ k \in Nat
    BY <1>1, <2>1
  <2>3. /\ Params(k) \in Seq(Nat \X Nat) /\ Len(Params(k)) = Len(program[k].names)
        /\ \A q \in 1 .. Len(program[k].names) : Params(k)[q] = <<k, q>> /\ NameOf(<<k, q>>) \notin Names
    <3>1. ~(k < at)
      BY <1>1, <2>2
    <3> HIDE DEF NameOf
    <3>2. \A q \in 1 .. Len(program[k].names) : NameOf(<<k, q>>) \notin Names
      BY <1>1, <2>1, <3>1, NameOfParameter
    <3> QED  BY <1>1, <2>1, <3>2, ParamsAre
  <2>4. PICK p : p = Len(Params(k))
    OBVIOUS
  <2>5. /\ p \in Nat /\ Len(args) = n + p
        /\ \A q \in 1 .. Len(args) : args[q] = IF q <= n THEN Params(b)[q] ELSE Params(k)[q - n]
    BY <1>6, <2>1, <2>3, <2>4, ConcatProperties
  <2>6. ASSUME NEW q \in 1 .. n PROVE args[0 + q] = <<b, q>>
    <3>1. 0 + q = q /\ q \in 1 .. Len(args) /\ q <= n
      BY <1>3, <2>5
    <3> QED  BY <1>6, <2>5, <3>1
  <2>7. ASSUME NEW q \in 1 .. Len(args), q \notin 0 + 1 .. 0 + n PROVE NameOf(args[q]) # name
    <3>1. ~(q <= n) /\ q - n \in 1 .. p
      BY <1>3, <2>5, <2>7
    <3>2. args[q] = Params(k)[q - n] /\ q - n \in 1 .. Len(program[k].names)
      BY <2>3, <2>4, <2>5, <3>1
    <3> HIDE DEF NameOf
    <3> QED  BY <2>3, <3>2
  <2>8. 0 + n <= Len(args) /\ Len(args) \in Nat /\ 0 \in Nat
    BY <1>3, <2>5
  <2> HIDE DEF Here, InHeader, NameOf
  <2> QED  BY <1>7, <2>6, <2>7, <2>8
<1>10. ASSUME NEW j, NEW k, DeclaredTwice(f, j, k), k = b, ~Misdeclared(at, name)
       PROVE  Here(name, s) = InHeader(b, name)
  <2>1. j \in Declarations(f) /\ j < b
    BY <1>10 DEF DeclaredTwice
  <2>2. /\ j \in DOMAIN program /\ program[j].kind = "subroutine" /\ Finished(j)
        /\ j < at
    BY <1>1, <2>1 DEF Declarations, Finished
  <2>3. args = SecondHalf(Params(j) \o Params(b))
    BY <1>4, <1>10, <2>2 DEF DeclaredTwice
  <2>4. PICK older, o : older = program[j].names /\ o = Len(older)
    OBVIOUS
  <2>5. /\ older \in Seq(Names) /\ o \in Nat
        /\ Params(j) \in Seq(Nat \X Nat) /\ Len(Params(j)) = o
        /\ \A q \in 1 .. o : Params(j)[q] = <<j, q>> /\ NameOf(<<j, q>>) = older[q]
    <3> HIDE DEF NameOf
    <3>1. \A q \in 1 .. o : NameOf(<<j, q>>) = older[q]
      BY <1>1, <2>2, <2>4, NameOfParameter
    <3> QED  BY <1>1, <2>2, <2>4, <3>1, SubroutineNodes, ParamsAre
  <2>6. PICK cut : cut = (o + n) \div 2
    OBVIOUS
  <2>7. /\ cut \in Nat /\ Len(args) = o + n - cut
        /\ \A q \in 1 .. Len(args) :
             args[q] = IF cut + q <= o THEN Params(j)[cut + q] ELSE Params(b)[cut + q - o]
    <3>1. Params(j) \in Seq(Nat \X Nat) /\ Params(b) \in Seq(Nat \X Nat)
      BY <1>6, <2>5
    <3>2. Len(Params(j)) = o /\ Len(Params(b)) = n
      BY <1>6, <2>5
    <3>3. cut = (Len(Params(j)) + Len(Params(b))) \div 2
      BY <2>6, <3>2
    <3> HIDE DEF SecondHalf
    <3>4. /\ cut \in Nat /\ Len(args) = Len(Params(j)) + Len(Params(b)) - cut
          /\ \A q \in 1 .. Len(args) :
               args[q] = IF cut + q <= Len(Params(j)) THEN Params(j)[cut + q]
                         ELSE Params(b)[cut + q - Len(Params(j))]
      BY ONLY <2>3, <3>1, <3>3, SecondHalfIs
    <3> QED  BY ONLY <3>2, <3>4
  <2>8. ~(n - o > 1) /\ (n - o < 0 => InHeader(j, name) = nullptr)
    <3>1. b \in Declarations(f) /\ b \in Enclosing(at) /\ j \in Declarations(f) /\ f \in Subroutines
      BY <1>1, <1>3, <2>1
    <3>2. n = Len(program[b].names) /\ o = Len(program[j].names)
      BY <1>2, <2>4
    <3> HIDE DEF Declarations, Enclosing, InHeader, nullptr
    <3> QED  BY <1>10, <2>1, <3>1, <3>2 DEF Misdeclared
  <2>9. cut <= o /\ (cut < o => n < o)
    BY <1>3, <2>5, <2>6, <2>8
  <2>10. PICK lo : lo = o - cut
    OBVIOUS
  <2>11. lo \in Nat /\ lo + n <= Len(args) /\ Len(args) \in Nat /\ Len(args) = lo + n
    BY <1>3, <2>5, <2>7, <2>9, <2>10
  <2>12. ASSUME NEW q \in 1 .. n PROVE args[lo + q] = <<b, q>>
    <3>1. lo + q \in 1 .. Len(args) /\ ~(cut + (lo + q) <= o) /\ cut + (lo + q) - o = q
      BY <1>3, <2>5, <2>7, <2>10, <2>11
    <3> QED  BY <1>6, <2>7, <3>1
  <2>13. ASSUME NEW q \in 1 .. Len(args), q \notin lo + 1 .. lo + n PROVE NameOf(args[q]) # name
    <3>1. q \in 1 .. lo /\ cut + q <= o /\ cut + q \in 1 .. o /\ n < o
      BY <1>3, <2>5, <2>7, <2>9, <2>10, <2>11, <2>13
    <3>2. args[q] = <<j, cut + q>> /\ NameOf(<<j, cut + q>>) = older[cut + q]
      <4> HIDE DEF NameOf
      <4> QED  BY <2>5, <2>7, <3>1
    <3>3. older[cut + q] # name
      <4>1. InHeader(j, name) = nullptr
        BY <1>3, <2>5, <2>8, <3>1
      <4> HIDE DEF InHeader, nullptr
      <4> QED  BY <2>4, <2>5, <3>1, <4>1, HeaderHas
    <3> HIDE DEF NameOf
    <3> QED  BY <3>2, <3>3
  <2> HIDE DEF Here, InHeader, NameOf
  <2> QED  BY <1>7, <2>11, <2>12, <2>13
<1>11. CASE \E j, k : DeclaredTwice(f, j, k)
  <2>1. PICK j, k : DeclaredTwice(f, j, k)
    BY <1>11
  <2>2. b = j \/ b = k
    BY <1>1, <2>1 DEF DeclaredTwice
  <2> HIDE DEF Here, InHeader, Misdeclared
  <2> QED  BY <1>9, <1>10, <2>1, <2>2
<1>12. (\E j : DeclaredOnce(f, j)) \/ (\E j, k : DeclaredTwice(f, j, k))
  <2>1. ~Undeclared(f)
    BY <1>1 DEF Undeclared
  <2> QED  BY <1>1, <1>3, <2>1 DEF ArgsOK
<1> HIDE DEF Here, InHeader, Misdeclared
<1> QED  BY <1>8, <1>11, <1>12

(***************************************************************************)
(* A name is looked up in the scope of a body as it is in the text.        *)
(***************************************************************************)
\* A name in node i means what the text says, unless it is one declared later.
Fits(sym, meaning, i, name) ==
  \/ sym = meaning \/ Misdeclared(i, name)
  \/ \E d \in LaterNamesakes(i, name) : sym = <<d, 1>>

LEMMA MeansCases ==
  ASSUME TextOK, NEW i, NEW name, NEW b \in 0 .. Len(program)
  PROVE  /\ Before(i, name, b) # {} => MeansIn(i, name, b) = <<Max(Before(i, name, b)), 1>>
         /\ Before(i, name, b) = {} /\ b = 0 => MeansIn(i, name, b) = nullptr
         /\ Before(i, name, b) = {} /\ b # 0 /\ InHeader(b, name) # nullptr =>
              MeansIn(i, name, b) = InHeader(b, name)
         /\ Before(i, name, b) = {} /\ b # 0 /\ InHeader(b, name) = nullptr =>
              MeansIn(i, name, b) = MeansIn(i, name, Body(b))
<1>1. MeansIn(i, name, b) =
             CASE Before(i, name, b) # {} -> <<Max(Before(i, name, b)), 1>>
               [] Before(i, name, b) = {} /\ b = 0 -> nullptr
               [] Before(i, name, b) = {} /\ b # 0 /\ InHeader(b, name) # nullptr -> InHeader(b, name)
               [] OTHER -> MeansIn(i, name, Body(b))
  BY MeaningUnfolds
<1> HIDE DEF Before, MeansIn, InHeader, nullptr
<1> QED  BY <1>1

LEMMA HereInTable ==
  ASSUME NEW name, NEW s, scopes[s].subroutine = noName
  PROVE  Here(name, s) = InTable(s, name)
<1> HIDE DEF noName
<1> QED  BY DEF Here, InTable

LEMMA AtTheTopOf ==
  ASSUME TextOK, StackOK, Walking, NEW i \in 1 .. Len(program) + 1, Depth[i] = 0
  PROVE  Body(i) = 0
<1>1. \A j \in 1 .. Len(program) + 1 : Depth[j] >= 0 /\ Depth[j] \in Int
  BY TextIs DEF StackOK
<1>2. Len(program) \in Nat
  BY TextIs
<1>3. ASSUME NEW j \in Enclosing(i) PROVE FALSE
  <2>1. j \in 1 .. i - 1 /\ \A k \in (j + 1) .. i : Depth[k] > Depth[j]
    BY DEF Enclosing
  <2>2. i \in (j + 1) .. i /\ j \in 1 .. Len(program) + 1
    BY <1>2, <2>1
  <2>3. Depth[i] > Depth[j] /\ Depth[j] >= 0 /\ Depth[j] \in Int
    BY <1>1, <2>1, <2>2
  <2> QED  BY <2>3
<1> QED  BY <1>3 DEF Body

\* What the declaration of the name in a body does to both.
LEMMA FitsDeclared ==
  ASSUME NEW i \in Nat, NEW name, NEW b \in Enclosing(i) \cup {0}, NEW d \in Nat, DeclaredIn(b, name) = {d},
         TextOK, b \in 0 .. Len(program)
  PROVE  Fits(<<d, 1>>, MeansIn(i, name, b), i, name)
<1>1. CASE d <= i
  <2>1. Before(i, name, b) = {d}
    BY <1>1 DEF Before
  <2>2. Max({d}) = d
    <3>1. {d} \in SUBSET (0 .. d) /\ {d} # {}
      OBVIOUS
    <3>2. Max({d}) \in {d}
      BY <3>1, Extremes
    <3> QED  BY <3>2
  <2>3. MeansIn(i, name, b) = <<d, 1>>
    <3>1. Before(i, name, b) # {} /\ Max(Before(i, name, b)) = d
      BY <2>1, <2>2
    <3> HIDE DEF Before, MeansIn
    <3> QED  BY <3>1, MeansCases
  <2> QED  BY <2>3 DEF Fits
<1>2. CASE ~(d <= i)
  <2>1. d \in DeclaredIn(b, name) /\ d > i
    BY <1>2
  <2>2. d \in DOMAIN program
    BY <2>1 DEF DeclaredIn
  <2>3. d \in LaterNamesakes(i, name)
    BY <2>1, <2>2 DEF LaterNamesakes
  <2> QED  BY <2>3 DEF Fits
<1> QED  BY <1>1, <1>2

\* In the scope of a body a name resolves to what it means in that body, if it
\* does in the body around it.
LEMMA FitsInBody ==
  ASSUME IInv, LinesOK, ArgsOK, NamedOK, pass = "RefWalk", NEW m, Laid(m), NEW name \in Names,
         NEW b \in Enclosing(at) \cup {0},
         b # 0 => Fits(Resolve(name, m[Body(b)]), MeansIn(at, name, Body(b)), at, name)
  PROVE  Fits(Resolve(name, m[b]), MeansIn(at, name, b), at, name)
<1>1. /\ TextOK /\ StackOK /\ Walking /\ Live /\ ScopesOK /\ SubroutinesOK
      /\ at \in 1 .. Len(program) + 1 /\ at \in Nat /\ Len(program) \in Nat /\ DOMAIN program = 1 .. Len(program)
  <2>1. TextOK /\ StackOK /\ Walking /\ Live /\ ScopesOK /\ SubroutinesOK
    BY DEF IInv, Rest, Walking, Live
  <2>2. at \in 1 .. Len(program) + 1
    BY <2>1 DEF TextOK
  <2> QED  BY <2>1, <2>2, TextIs
<1>2. b \in Bodies /\ b \in 0 .. Len(program) /\ (b # 0 => HasBody(program[b]) /\ b \in 1 .. Len(program))
  <2>1. CASE b = 0
    BY <1>1, <2>1 DEF Bodies
  <2>2. CASE b # 0
    <3>1. b \in Enclosing(at)
      BY <2>2
    <3>2. HasBody(program[b]) /\ b \in Bodies /\ b \in 1 .. at - 1
      BY <1>1, <3>1, EnclosingFacts
    <3> QED  BY <1>1, <2>2, <3>2
  <2> QED  BY <2>1, <2>2
<1>3. PICK s : s = m[b]
  OBVIOUS
<1>4. /\ s \in 1 .. Len(scopes) /\ Len(scopes) \in Nat /\ scopes[s].subroutine = noName
      /\ \/ DeclaredIn(b, name) = {} /\ InTable(s, name) = nullptr
         \/ \E d : DeclaredIn(b, name) = {d} /\ InTable(s, name) = <<d, 1>>
  <2>1. s \in 1 .. Len(scopes) /\ Len(scopes) \in Nat
    BY <1>1, <1>2, <1>3 DEF Laid, ScopesOK
  <2>2. Holds(s, b)
    BY <1>2, <1>3 DEF Laid
  <2> QED  BY <2>1, <2>2 DEF Holds
<1>5. Chained
  BY <1>1 DEF ScopesOK, Chained
<1>6. PICK outer : outer = scopes[s].enclosingScope
  OBVIOUS
<1>7. Resolve(name, s) = IF InTable(s, name) # nullptr THEN InTable(s, name) ELSE Resolve(name, outer)
  <2>1. Here(name, s) = InTable(s, name)
    BY <1>4, HereInTable
  <2> HIDE DEF Here, InTable, nullptr, Resolve
  <2> QED  BY <1>4, <1>5, <1>6, <2>1, ResolveUnfolds
<1>8. outer \in 0 .. s - 1
  BY <1>1, <1>4, <1>6 DEF ScopesOK
<1>9. CASE \E d : DeclaredIn(b, name) = {d} /\ InTable(s, name) = <<d, 1>>
  <2>1. PICK d : DeclaredIn(b, name) = {d} /\ InTable(s, name) = <<d, 1>>
    BY <1>9
  <2>2. d \in Nat
    <3>1. d \in DeclaredIn(b, name)
      BY <2>1
    <3> QED  BY <1>1, <3>1 DEF DeclaredIn
  <2>3. Resolve(name, s) = <<d, 1>>
    <3> HIDE DEF nullptr, Resolve, InTable
    <3> QED  BY <1>7, <2>1, PairIsNotNull
  <2>4. Fits(<<d, 1>>, MeansIn(at, name, b), at, name)
    <3> HIDE DEF Fits, MeansIn
    <3> QED  BY <1>1, <1>2, <2>1, <2>2, FitsDeclared
  <2> HIDE DEF Fits, Resolve, MeansIn
  <2> QED  BY <1>3, <2>3, <2>4
<1>10. ASSUME DeclaredIn(b, name) = {}, InTable(s, name) = nullptr
       PROVE  /\ Before(at, name, b) = {}
              /\ Resolve(name, s) = Resolve(name, outer)
  <2>1. Before(at, name, b) = {}
    BY <1>10 DEF Before
  <2> HIDE DEF Resolve, InTable, nullptr
  <2> QED  BY <1>7, <1>10, <2>1
<1>11. ASSUME DeclaredIn(b, name) = {}, InTable(s, name) = nullptr, b = 0
       PROVE  Fits(Resolve(name, s), MeansIn(at, name, b), at, name)
  <2>1. s = 1
    BY <1>3, <1>11 DEF Laid
  <2>2. outer = 0
    BY <1>8, <2>1
  <2>3. Resolve(name, s) = nullptr
    <3> HIDE DEF Resolve, nullptr
    <3> QED  BY <1>5, <1>10, <1>11, <2>2, ResolveUnfolds
  <2>4. MeansIn(at, name, b) = nullptr
    <3> HIDE DEF MeansIn, nullptr, Before
    <3> QED  BY <1>1, <1>2, <1>10, <1>11, MeansCases
  <2> QED  BY <2>3, <2>4 DEF Fits
<1>12. ASSUME DeclaredIn(b, name) = {}, InTable(s, name) = nullptr, b # 0,
              NEW inner, inner = InHeader(b, name),
              inner # nullptr => Fits(Resolve(name, outer), inner, at, name),
              inner = nullptr =>
                Resolve(name, outer) = Resolve(name, m[Body(b)]) \/ Misdeclared(at, name)
       PROVE  Fits(Resolve(name, s), MeansIn(at, name, b), at, name)
  <2>1. /\ inner # nullptr => MeansIn(at, name, b) = inner
        /\ inner = nullptr => MeansIn(at, name, b) = MeansIn(at, name, Body(b))
    <3> HIDE DEF MeansIn, nullptr, Before, InHeader
    <3> QED  BY <1>1, <1>2, <1>10, <1>12, MeansCases
  <2>2. Resolve(name, s) = Resolve(name, outer)
    BY <1>10, <1>12
  <2>3. Misdeclared(at, name) => Fits(Resolve(name, s), MeansIn(at, name, b), at, name)
    BY DEF Fits
  <2>4. Fits(Resolve(name, m[Body(b)]), MeansIn(at, name, Body(b)), at, name)
    BY <1>12
  <2> HIDE DEF MeansIn, nullptr, Resolve, Fits, Misdeclared
  <2> QED  BY <1>12, <2>1, <2>2, <2>3, <2>4
<1>13. ASSUME DeclaredIn(b, name) = {}, InTable(s, name) = nullptr, b # 0
       PROVE  Fits(Resolve(name, s), MeansIn(at, name, b), at, name)
  <2>1. b \in Bodies \ {0} /\ Outside(b, m) /\ WrittenOK(b)
    <3>1. WrittenOK(b)
      BY <1>1, <1>2, <1>13 DEF LinesOK
    <3> QED  BY <1>2, <1>13, <3>1 DEF Laid
  <2>2. program[b].kind \in Headless \cup {"iterator", "subroutine"}
    BY <1>2, <1>13 DEF HasBody, Openers, Headless
  <2>3. PICK inner : inner = InHeader(b, name)
    OBVIOUS
  <2>4. CASE program[b].kind \in Headless
    <3>1. inner = nullptr
      <4>1. program[b].names = <<>>
        BY <2>1, <2>4 DEF WrittenOK
      <4>2. program[b].names \in Seq(Names) /\ Len(program[b].names) = 0
        BY <4>1
      <4> HIDE DEF InHeader, nullptr
      <4> QED  BY <2>3, <4>2, HeaderHas
    <3>2. outer = m[Body(b)]
      BY <1>3, <1>6, <2>1, <2>4 DEF Outside
    <3> HIDE DEF Fits, Resolve, MeansIn, nullptr, InHeader, Misdeclared
    <3> QED  BY <1>12, <1>13, <2>3, <3>1, <3>2
  <2>5. CASE program[b].kind = "iterator"
    <3>1. Heads(outer, b, m)
      BY <1>3, <1>6, <2>1, <2>5 DEF Outside
    <3>2. /\ outer \in 1 .. Len(scopes) /\ scopes[outer].subroutine = noName
          /\ scopes[outer].enclosingScope = m[Body(b)] /\ InTable(outer, name) = inner
      BY <2>3, <3>1 DEF Heads
    <3>3. Here(name, outer) = inner
      BY <3>2, HereInTable
    <3>4. Resolve(name, outer) = IF inner # nullptr THEN inner ELSE Resolve(name, m[Body(b)])
      <4> HIDE DEF Here, nullptr, Resolve
      <4> QED  BY <1>5, <3>2, <3>3, ResolveUnfolds
    <3>5. inner # nullptr => Fits(Resolve(name, outer), inner, at, name)
      BY <3>4 DEF Fits
    <3> HIDE DEF Fits, Resolve, MeansIn, nullptr, InHeader, Misdeclared
    <3> QED  BY <1>12, <1>13, <2>3, <3>4, <3>5
  <2>6. CASE program[b].kind = "subroutine"
    <3>1. PICK f : f = program[b].subroutine
      OBVIOUS
    <3>2. f \in Subroutines /\ Depth[b] = 0 /\ b \in DOMAIN program
      BY <1>1, <1>2, <1>13, <2>6, <3>1, SubroutineNodes
    <3>3. outer = subroutines[f].scope /\ outer # 0
      BY <1>3, <1>6, <2>1, <2>6, <3>1 DEF Outside
    <3>4. scopes[outer].subroutine = f /\ InTable(outer, name) = nullptr
      <4>1. OfSubroutine(f, m)
        BY <3>2 DEF Laid
      <4> QED  BY <3>3, <4>1 DEF OfSubroutine
    <3>5. outer \in 1 .. Len(scopes) /\ scopes[outer].enclosingScope = 1
      <4>1. outer \in 1 .. Len(scopes)
        BY <1>4, <1>8, <3>3
      <4> QED  BY <1>1, <3>2, <3>3, <4>1 DEF SubroutinesOK
    <3>6. m[Body(b)] = 1
      <4>1. b \in 1 .. Len(program) + 1
        BY <1>1, <1>2, <1>13
      <4>2. Body(b) = 0
        BY <1>1, <3>2, <4>1, AtTheTopOf
      <4> QED  BY <4>2 DEF Laid
    <3>7. Here(name, outer) = inner \/ Misdeclared(at, name)
      <4>1. b \in Enclosing(at)
        BY <1>13
      <4> HIDE DEF Here, InHeader, Misdeclared, InTable, nullptr
      <4> QED  BY <2>3, <2>6, <3>1, <3>4, <4>1, HereParameters
    <3>8. Resolve(name, outer) = IF Here(name, outer) # nullptr THEN Here(name, outer)
                                 ELSE Resolve(name, m[Body(b)])
      <4> HIDE DEF Here, nullptr, Resolve
      <4> QED  BY <1>5, <3>5, <3>6, ResolveUnfolds
    <3>9. Misdeclared(at, name) => Fits(Resolve(name, outer), inner, at, name)
      BY DEF Fits
    <3>10. inner # nullptr => Fits(Resolve(name, outer), inner, at, name)
      <4>1. inner # nullptr /\ Here(name, outer) = inner => Resolve(name, outer) = inner
        BY <3>8
      <4>2. Resolve(name, outer) = inner => Fits(Resolve(name, outer), inner, at, name)
        BY DEF Fits
      <4> HIDE DEF Fits, Resolve, nullptr, Here, Misdeclared
      <4> QED  BY <3>7, <3>9, <4>1, <4>2
    <3> HIDE DEF Fits, Resolve, MeansIn, nullptr, InHeader, Misdeclared, Here
    <3> QED  BY <1>12, <1>13, <2>3, <3>7, <3>8, <3>10
  <2> HIDE DEF Fits, Resolve, MeansIn
  <2> QED  BY <2>2, <2>4, <2>5, <2>6
<1> HIDE DEF Fits, Resolve, MeansIn, InTable, nullptr
<1> QED  BY <1>3, <1>4, <1>9, <1>11, <1>13

LEMMA FitsInBodies ==
  ASSUME IInv, LinesOK, ArgsOK, NamedOK, pass = "RefWalk", NEW m, Laid(m), NEW name \in Names
  PROVE  \A b \in Enclosing(at) \cup {0} : Fits(Resolve(name, m[b]), MeansIn(at, name, b), at, name)
<1> DEFINE E == Enclosing(at) \cup {0}
           Fit(b) == Fits(Resolve(name, m[b]), MeansIn(at, name, b), at, name)
           T == {k \in 0 .. at : \A b \in E : b <= k => Fit(b)}
<1>1. TextOK /\ at \in 1 .. Len(program) + 1 /\ at \in Nat
  <2>1. TextOK
    BY DEF IInv, Rest
  <2> QED  BY <2>1, TextIs DEF TextOK
<1>2. \A b \in E : b \in 0 .. at /\ b \in Nat
  BY <1>1, EnclosingFacts
<1>3. \A b \in E : b # 0 => Body(b) \in E /\ Body(b) < b /\ Body(b) \in Nat
  <2>1. ASSUME NEW b \in E, b # 0 PROVE Body(b) \in E /\ Body(b) < b
    BY <1>1, <2>1, EnclosingChain
  <2> QED  BY <1>2, <2>1
<1>4. ASSUME NEW b \in E, b # 0 => Fit(Body(b)) PROVE Fit(b)
  <2>1. b \in Enclosing(at) \cup {0}
    OBVIOUS
  <2> HIDE DEF Fits, Resolve, MeansIn
  <2> QED  BY <1>4, <2>1, FitsInBody
<1> HIDE DEF E, Fit
<1>5. 0 \in T
  <2>1. \A b \in E : b <= 0 => b = 0
    BY <1>2
  <2> QED  BY <1>1, <1>4, <2>1
<1>6. ASSUME NEW k \in 0 .. at - 1, k \in T PROVE k + 1 \in T
  <2>1. ASSUME NEW b \in E, b <= k + 1 PROVE Fit(b)
    <3>1. b # 0 => Body(b) \in E /\ Body(b) <= k
      BY <1>2, <1>3, <2>1
    <3> QED  BY <1>4, <1>6, <3>1
  <2>2. k + 1 \in 0 .. at
    BY <1>1
  <2> QED  BY <2>1, <2>2
<1>7. 0 .. at \subseteq T
  <2> HIDE DEF T
  <2> QED  BY <1>1, <1>5, <1>6, IntervalInduction
<1>8. at \in T
  <2> HIDE DEF T
  <2> QED  BY <1>1, <1>7
<1>9. \A b \in E : Fit(b)
  BY <1>2, <1>8
<1> QED  BY <1>9 DEF E, Fit

\* So does a name in the node that RefWalk visits.
LEMMA IdentifierFits ==
  ASSUME IInv, LinesOK, ArgsOK, NamedOK, pass = "RefWalk", NEW m, Laid(m), at \in DOMAIN program,
         NEW k \in DOMAIN identifiers[at]
  PROVE  LET name == UsedName(program[at], k)
         IN  Fits(Resolve(name, identifiers[at][k]), MeaningOf(at, k), at, name)
<1>1. /\ TextOK /\ ScopesOK /\ at \in 1 .. Len(program) /\ at \in 1 .. Len(program) + 1 /\ Len(program) \in Nat
      /\ Live
  <2>1. TextOK /\ ScopesOK /\ Live
    BY DEF IInv, Rest, Live
  <2> QED  BY <2>1, TextIs
<1>2. PICK name, s : name = UsedName(program[at], k) /\ s = identifiers[at][k]
  OBVIOUS
<1>3. Located(s, at, k, m)
  BY <1>1, <1>2 DEF Laid
<1>4. name \in Names
  BY <1>2, <1>3 DEF Located
<1>5. Body(at) \in Enclosing(at) \cup {0}
  BY <1>1, EnclosingFacts
<1>6. Fits(Resolve(name, m[Body(at)]), Meaning(at, name), at, name)
  <2>1. Fits(Resolve(name, m[Body(at)]), MeansIn(at, name, Body(at)), at, name)
    <3> HIDE DEF Fits, Resolve, MeansIn
    <3> QED  BY <1>4, <1>5, FitsInBodies
  <2> HIDE DEF Fits, Resolve, MeansIn, Meaning
  <2> QED  BY <2>1, MeaningIs
<1>7. PICK own : own = InHeader(at, name)
  OBVIOUS
<1>8. MeaningOf(at, k) = IF k = 0 /\ program[at].kind = "generator" /\ own # nullptr THEN own
                         ELSE Meaning(at, name)
  <2> HIDE DEF InHeader, Meaning, nullptr, UsedName
  <2> QED  BY <1>2, <1>7 DEF MeaningOf
<1>9. CASE k = 0 /\ program[at].kind = "generator"
  <2>1. /\ s \in 1 .. Len(scopes) /\ scopes[s].subroutine = noName
        /\ scopes[s].enclosingScope = m[Body(at)] /\ InTable(s, name) = own
    BY <1>3, <1>4, <1>7, <1>9 DEF Located, Heads
  <2>2. Here(name, s) = own
    BY <2>1, HereInTable
  <2>3. Chained
    BY <1>1 DEF ScopesOK, Chained
  <2>4. Resolve(name, s) = IF own # nullptr THEN own ELSE Resolve(name, m[Body(at)])
    <3> HIDE DEF Here, Resolve, nullptr
    <3> QED  BY <2>1, <2>2, <2>3, ResolveUnfolds
  <2>5. Fits(own, own, at, name)
    BY DEF Fits
  <2>6. Fits(Resolve(name, s), MeaningOf(at, k), at, name)
    <3> HIDE DEF Fits, Resolve, Meaning, MeaningOf, nullptr
    <3>1. CASE own # nullptr
      BY <1>8, <1>9, <2>4, <2>5, <3>1
    <3>2. CASE own = nullptr
      BY <1>6, <1>8, <2>4, <3>2
    <3> QED  BY <3>1, <3>2
  <2> HIDE DEF Fits, Resolve, MeaningOf, UsedName
  <2> QED  BY <1>2, <2>6
<1>10. CASE ~(k = 0 /\ program[at].kind = "generator")
  <2>1. s = m[Body(at)]
    BY <1>3, <1>10 DEF Located
  <2>2. MeaningOf(at, k) = Meaning(at, name)
    <3> HIDE DEF MeaningOf, Meaning, nullptr
    <3> QED  BY <1>8, <1>10
  <2> HIDE DEF Fits, Resolve, MeaningOf, UsedName, Meaning
  <2> QED  BY <1>2, <1>6, <2>1, <2>2
<1> QED  BY <1>9, <1>10

(***************************************************************************)
(* RefWalk.                                                                *)
(***************************************************************************)
\* The unfolding of a meaning, in the next state too.
Unfolded ==
  \A i, name : \A b \in 0 .. Len(program) :
    MeansIn(i, name, b) =
      CASE Before(i, name, b) # {} -> <<Max(Before(i, name, b)), 1>>
        [] Before(i, name, b) = {} /\ b = 0 -> nullptr
        [] Before(i, name, b) = {} /\ b # 0 /\ InHeader(b, name) # nullptr -> InHeader(b, name)
        [] OTHER -> MeansIn(i, name, Body(b))

LEMMA Unfolds == TextOK => Unfolded
BY MeaningUnfolds DEF Unfolded

LEMMA UnfoldsNext == TextOK' => Unfolded'
BY Unfolds, PTL

\* The first of a name in a header, in two states.
LEMMA HeaderStays ==
  ASSUME NEW i, program'[i] = program[i], NEW name
  PROVE  InHeader(i, name)' = InHeader(i, name)
BY DEF InHeader, SelectInSeq

MeaningsAre == \A i, name : Meaning(i, name) = MeansIn(i, name, Body(i))

LEMMA MeaningsNow == MeaningsAre
BY MeaningIs DEF MeaningsAre

LEMMA MeaningsNext == MeaningsAre'
BY MeaningsNow, PTL

\* What the text says does not change while RefWalk reads it.
LEMMA TextStays ==
  ASSUME UNCHANGED program, TextOK, TextOK'
  PROVE  /\ \A i, name : NamesakeOnItsLine(i, name)' = NamesakeOnItsLine(i, name)
         /\ \A i, name : Misdeclared(i, name)' = Misdeclared(i, name)
         /\ \A i \in 1 .. Len(program) : \A k : MeaningOf(i, k)' = MeaningOf(i, k)
<1>1. Depth' = Depth
  BY DEF Depth
<1>2. \A i : Enclosing(i)' = Enclosing(i) /\ Body(i)' = Body(i)
  BY <1>1 DEF Enclosing, Body
<1>3. \A b, name : DeclaredIn(b, name)' = DeclaredIn(b, name) /\ InHeader(b, name)' = InHeader(b, name)
  <2>1. \A b, name : DeclaredIn(b, name)' = DeclaredIn(b, name)
    BY <1>2 DEF DeclaredIn
  <2>2. \A b, name : InHeader(b, name)' = InHeader(b, name)
    BY HeaderStays
  <2> QED  BY <2>1, <2>2
<1>4. \A i, name : LaterNamesakes(i, name)' = LaterNamesakes(i, name)
  BY <1>2, <1>3 DEF LaterNamesakes
<1>5. \A i, name : NamesakeOnItsLine(i, name)' = NamesakeOnItsLine(i, name)
  BY <1>4 DEF NamesakeOnItsLine
<1>6. \A f : Declarations(f)' = Declarations(f)
  BY DEF Declarations
<1>7. \A i, name : Misdeclared(i, name)' = Misdeclared(i, name)
  BY <1>2, <1>3, <1>6 DEF Misdeclared
<1>8. ASSUME NEW i \in 1 .. Len(program), NEW name
      PROVE  Meaning(i, name)' = Meaning(i, name)
  <2> DEFINE M(b) == MeansIn(i, name, b)
             N(b) == MeansIn(i, name, b)'
             D(b) == Before(i, name, b)
             H(b) == InHeader(b, name)
             out(b) == Body(b)
             top == Len(program)
             T == {k \in 0 .. top : \A b \in 0 .. k : N(b) = M(b)}
  <2>1. \A b \in 0 .. top :
          M(b) = CASE D(b) # {} -> <<Max(D(b)), 1>>
                   [] D(b) = {} /\ b = 0 -> nullptr
                   [] D(b) = {} /\ b # 0 /\ H(b) # nullptr -> H(b)
                   [] OTHER -> M(out(b))
    BY Unfolds DEF Unfolded
  <2>2. \A b \in 0 .. top :
          N(b) = CASE D(b) # {} -> <<Max(D(b)), 1>>
                   [] D(b) = {} /\ b = 0 -> nullptr
                   [] D(b) = {} /\ b # 0 /\ H(b) # nullptr -> H(b)
                   [] OTHER -> N(out(b))
    <3>1. /\ \A b : Before(i, name, b)' = Before(i, name, b)
          /\ \A b : InHeader(b, name)' = InHeader(b, name) /\ Body(b)' = Body(b)
      BY <1>2, <1>3 DEF Before
    <3> HIDE DEF Before, MeansIn, InHeader, Body, nullptr
    <3> QED  BY <3>1, UnfoldsNext DEF Unfolded
  <2>3. top \in Nat /\ \A b \in 1 .. top : out(b) \in 0 .. b - 1
    BY TextIs, EnclosingFacts
  <2>4. Meaning(i, name) = M(out(i)) /\ Meaning(i, name)' = N(out(i))
    <3>1. Meaning(i, name)' = MeansIn(i, name, Body(i))'
      BY MeaningsNext DEF MeaningsAre
    <3>2. Body(i)' = Body(i)
      BY <1>2
    <3> HIDE DEF Meaning, MeansIn, Body
    <3> QED  BY <3>1, <3>2, MeaningIs
  <2> HIDE DEF M, N, D, H, out, top
  <2>5. ASSUME NEW b \in 0 .. top, b # 0 => N(out(b)) = M(out(b)) PROVE N(b) = M(b)
    BY <2>1, <2>2, <2>5
  <2>6. 0 \in T
    BY <2>3, <2>5
  <2>7. ASSUME NEW k \in 0 .. top - 1, k \in T PROVE k + 1 \in T
    <3>1. ASSUME NEW b \in 0 .. k + 1 PROVE N(b) = M(b)
      <4>1. b # 0 => out(b) \in 0 .. k
        BY <2>3
      <4>2. b \in 0 .. top
        BY <2>3
      <4> QED  BY <2>5, <2>7, <4>1, <4>2
    <3>2. k + 1 \in 0 .. top
      BY <2>3
    <3> QED  BY <3>1, <3>2
  <2>8. 0 .. top \subseteq T
    <3> HIDE DEF T
    <3> QED  BY <2>3, <2>6, <2>7, IntervalInduction
  <2>9. \A b \in 0 .. top : N(b) = M(b)
    BY <2>3, <2>8
  <2>10. out(i) \in 0 .. top
    BY <2>3 DEF top
  <2> QED  BY <2>4, <2>9, <2>10
<1>9. \A i \in 1 .. Len(program) : \A k : MeaningOf(i, k)' = MeaningOf(i, k)
  <2> HIDE DEF Meaning, InHeader, nullptr
  <2>1. \A i, k : UsedName(program'[i], k) = UsedName(program[i], k)
    OBVIOUS
  <2> QED  BY <1>3, <1>8, <2>1 DEF MeaningOf
<1> QED  BY <1>5, <1>7, <1>9

\* Nor do the scopes that bodies have.
LEMMA LaidStays ==
  ASSUME UNCHANGED <<program, scopes, identifiers>>, TextOK,
         \A f \in Subroutines : subroutines'[f].scope = subroutines[f].scope, NEW m, Laid(m)
  PROVE  Laid(m)'
<1>1. Depth' = Depth
  BY DEF Depth
<1>2. \A i : Enclosing(i)' = Enclosing(i) /\ Body(i)' = Body(i)
  BY <1>1 DEF Enclosing, Body
<1>3. \A b, name : DeclaredIn(b, name)' = DeclaredIn(b, name) /\ InHeader(b, name)' = InHeader(b, name)
  <2>1. \A b, name : DeclaredIn(b, name)' = DeclaredIn(b, name)
    BY <1>2 DEF DeclaredIn
  <2>2. \A b, name : InHeader(b, name)' = InHeader(b, name)
    BY HeaderStays
  <2> QED  BY <2>1, <2>2
<1>4. \A s, n : InTable(s, n)' = InTable(s, n)
  BY DEF InTable
<1>5. Bodies' = Bodies
  BY DEF Bodies
<1>6. \A b \in Bodies : Holds(m[b], b)'
  BY <1>3, <1>4 DEF Laid, Holds
<1>7. \A s, i : Heads(s, i, m) => Heads(s, i, m)'
  BY <1>2, <1>3, <1>4, <1>5 DEF Heads
<1>8. ASSUME NEW b \in Bodies \ {0} PROVE Outside(b, m)'
  <2>1. Outside(b, m)
    BY DEF Laid
  <2>2. program[b].kind = "subroutine" => program[b].subroutine \in Subroutines
    BY DEF TextOK, Bodies
  <2> HIDE DEF Heads
  <2> QED  BY <1>2, <1>7, <2>1, <2>2 DEF Outside
<1>9. \A f \in Subroutines : OfSubroutine(f, m)'
  BY <1>4, <1>5 DEF Laid, OfSubroutine
<1>10. ASSUME NEW i \in 1 .. Len(program), NEW k \in DOMAIN identifiers[i]
       PROVE  Located(identifiers[i][k], i, k, m)'
  <2>1. Located(identifiers[i][k], i, k, m)
    BY DEF Laid
  <2> HIDE DEF Heads
  <2> QED  BY <1>2, <1>7, <2>1 DEF Located
<1>11. m \in [Bodies -> 1 .. Len(scopes)] /\ m[0] = 1
  BY DEF Laid
<1>12. \A i \in 1 .. Len(program') : \A k \in DOMAIN identifiers'[i] :
         Located(identifiers[i][k], i, k, m)'
  BY <1>10
<1> HIDE DEF Holds, Outside, OfSubroutine, Located, Bodies
<1> QED  BY <1>5, <1>6, <1>8, <1>9, <1>11, <1>12 DEF Laid

\* A step of RefWalk reads the next node of the same text.
Goes ==
  /\ pass = "RefWalk" /\ at \in DOMAIN program /\ at' = at + 1
  /\ UNCHANGED <<program, scopes, identifiers>>
  /\ \A f \in Subroutines : subroutines'[f].scope = subroutines[f].scope
  /\ resolved' = Append(resolved, Symbols)

LEMMA NamesAdvance ==
  ASSUME IInv, NInv, TextOK', Goes,
         \/ program[at].kind \notin {"var", "use", "iterator", "generator"}
         \/ \A k \in DOMAIN Symbols : ~UsedBeforeDefinition(Symbols[k], program[at].line)
  PROVE  LinesOK' /\ LaidOK' /\ ResolvedOK'
<1>1. /\ TextOK /\ IdentifiersOK /\ Live /\ LinesOK /\ ResolvedOK /\ ArgsOK /\ NamedOK
      /\ pass = "RefWalk" /\ DOMAIN program = 1 .. Len(program) /\ Len(program) \in Nat
      /\ at \in 1 .. Len(program) /\ program' = program
  <2>1. TextOK /\ IdentifiersOK /\ Live
    BY DEF IInv, Rest, Live, Goes
  <2>2. DOMAIN program = 1 .. Len(program) /\ Len(program) \in Nat
    BY <2>1, TextIs
  <2> QED  BY <2>1, <2>2 DEF NInv, Goes
<1>2. PICK m : Laid(m)
  BY <1>1 DEF NInv, LaidOK
<1>3. LinesOK'
  <2>1. LinesOK
    BY <1>1
  <2>2. \A i : WrittenOK(i)' = WrittenOK(i)
    <3>1. Depth' = Depth
      BY <1>1 DEF Depth
    <3> QED  BY <1>1, <3>1 DEF WrittenOK
  <2> HIDE DEF WrittenOK
  <2> QED  BY <1>1, <2>1, <2>2 DEF LinesOK
<1>4. LaidOK'
  <2>1. Laid(m)'
    BY <1>1, <1>2, LaidStays DEF Goes
  <2>2. pass' # "DefWalk"
    <3>1. at' # 1
      BY <1>1 DEF Goes
    <3> QED  BY <3>1 DEF TextOK
  <2> QED  BY <2>1, <2>2 DEF LaidOK
<1>5. ASSUME NEW k \in DOMAIN identifiers[at]
      PROVE  LET name == UsedName(program[at], k)
             IN  \/ Symbols[k] = MeaningOf(at, k)
                 \/ NamesakeOnItsLine(at, name) \/ Misdeclared(at, name)
  <2>1. PICK name, sym : name = UsedName(program[at], k) /\ sym = Symbols[k]
    OBVIOUS
  <2>2. sym = Resolve(name, identifiers[at][k]) /\ k \in DOMAIN Symbols
    <3> HIDE DEF Resolve, UsedName
    <3> QED  BY <2>1 DEF Symbols
  <2>3. Fits(sym, MeaningOf(at, k), at, name)
    <3>1. at \in DOMAIN program
      BY <1>1
    <3> HIDE DEF Fits, Resolve, MeaningOf, UsedName
    <3> QED  BY <1>1, <1>2, <2>1, <2>2, <3>1, IdentifierFits
  <2>4. ~UsedBeforeDefinition(sym, program[at].line)
    <3>1. Located(identifiers[at][k], at, k, m)
      BY <1>1, <1>2 DEF Laid
    <3>2. program[at].kind \in {"var", "use", "iterator", "generator"}
      BY <3>1 DEF Located
    <3> HIDE DEF UsedBeforeDefinition, Symbols
    <3> QED  BY <2>1, <2>2, <3>2
  <2>5. ASSUME NEW d \in LaterNamesakes(at, name), sym = <<d, 1>> PROVE NamesakeOnItsLine(at, name)
    <3>1. d \in DOMAIN program /\ d > at /\ program[d].kind = "var"
      BY DEF LaterNamesakes, DeclaredIn
    <3>2. sym # nullptr /\ sym[1] = d
      BY <2>5, PairIsNotNull
    <3>3. ~(program[d].line > program[at].line)
      <4> HIDE DEF nullptr
      <4> QED  BY <2>4, <3>1, <3>2 DEF UsedBeforeDefinition
    <3>4. program[at].line <= program[d].line
      BY <1>1, <3>1 DEF LinesOK
    <3>5. program[at].line \in Nat /\ program[d].line \in Nat
      BY <1>1, <3>1, TextIs DEF Nodes
    <3>6. program[d].line = program[at].line
      BY <3>3, <3>4, <3>5
    <3> QED  BY <3>6 DEF NamesakeOnItsLine
  <2>6. sym = MeaningOf(at, k) \/ NamesakeOnItsLine(at, name) \/ Misdeclared(at, name)
    <3> HIDE DEF MeaningOf, NamesakeOnItsLine, Misdeclared, LaterNamesakes
    <3> QED  BY <2>3, <2>5 DEF Fits
  <2> HIDE DEF MeaningOf, NamesakeOnItsLine, Misdeclared, UsedName, Symbols
  <2> QED  BY <2>1, <2>6
<1>6. /\ Len(resolved) = at - 1 /\ Len(resolved') = at /\ resolved'[at] = Symbols
      /\ \A i \in 1 .. at - 1 : resolved'[i] = resolved[i]
  <2>1. PICK x : x = Symbols
    OBVIOUS
  <2>2. resolved \in Seq(Resolutions) /\ Len(resolved) = at - 1 /\ resolved' = Append(resolved, x)
    BY <1>1, <2>1 DEF IdentifiersOK, Goes
  <2> QED  BY <1>1, <2>1, <2>2
<1>7. ASSUME NEW i \in 1 .. at, NEW k \in DOMAIN identifiers[i] PROVE Right(i, k)'
  <2>1. PICK name : name = UsedName(program[i], k)
    OBVIOUS
  <2>2. /\ NamesakeOnItsLine(i, name)' = NamesakeOnItsLine(i, name)
        /\ Misdeclared(i, name)' = Misdeclared(i, name)
        /\ MeaningOf(i, k)' = MeaningOf(i, k)
    <3>1. i \in 1 .. Len(program)
      BY <1>1
    <3> HIDE DEF NamesakeOnItsLine, Misdeclared, MeaningOf
    <3> QED  BY <1>1, <3>1, TextStays
  <2>3. \/ resolved'[i][k] = MeaningOf(i, k)
        \/ NamesakeOnItsLine(i, name) \/ Misdeclared(i, name)
    <3> HIDE DEF NamesakeOnItsLine, Misdeclared, MeaningOf, Symbols, UsedName
    <3>1. CASE i = at
      BY <1>5, <1>6, <2>1, <3>1
    <3>2. CASE i # at
      <4>1. i \in 1 .. at - 1
        BY <1>1, <3>2
      <4>2. Right(i, k)
        BY <1>1, <1>6, <4>1 DEF ResolvedOK
      <4> QED  BY <1>6, <2>1, <4>1, <4>2 DEF Right
    <3> QED  BY <3>1, <3>2
  <2>4. UsedName(program[i], k)' = name
    BY <1>1, <2>1
  <2> HIDE DEF NamesakeOnItsLine, Misdeclared, MeaningOf, UsedName
  <2> QED  BY <2>2, <2>3, <2>4 DEF Right
<1>8. ResolvedOK'
  <2>1. Len(identifiers') = Len(program')
    BY <1>1 DEF ResolvedOK, Goes
  <2>2. identifiers' = identifiers
    BY DEF Goes
  <2> HIDE DEF Right
  <2> QED  BY <1>6, <1>7, <2>1, <2>2 DEF ResolvedOK
<1> QED  BY <1>3, <1>4, <1>8

\* Parameters stay as they are while no subroutine is finished.
LEMMA ArgsStay ==
  ASSUME ArgsOK, Live, UNCHANGED <<program, subroutines>>,
         \A j \in DOMAIN program : program[j].kind = "subroutine" => (Finished(j)' <=> Finished(j))
  PROVE  ArgsOK'
<1>1. ASSUME NEW f \in Subroutines
      PROVE  (Undeclared(f) \/ (\E j : DeclaredOnce(f, j)) \/ (\E j, k : DeclaredTwice(f, j, k)))'
  <2>1. Declarations(f)' = Declarations(f) /\ \A j : Params(j)' = Params(j)
    BY DEF Declarations, Params
  <2>2. \A j \in Declarations(f) : Finished(j)' <=> Finished(j)
    BY DEF Declarations
  <2>3. CASE Undeclared(f)
    <3> HIDE DEF Declarations
    <3> QED  BY <2>1, <2>3 DEF Undeclared
  <2>4. ASSUME NEW j, DeclaredOnce(f, j) PROVE DeclaredOnce(f, j)'
    <3> HIDE DEF Declarations, Params
    <3> QED  BY <2>1, <2>4 DEF DeclaredOnce
  <2>5. ASSUME NEW j, NEW k, DeclaredTwice(f, j, k) PROVE DeclaredTwice(f, j, k)'
    <3>1. Declarations(f) = {j, k} /\ j < k
      BY <2>5 DEF DeclaredTwice
    <3>2. Finished(j)' <=> Finished(j)
      BY <2>2, <3>1
    <3>3. Declarations(f)' = Declarations(f) /\ Params(j)' = Params(j) /\ Params(k)' = Params(k)
      BY <2>1
    <3>4. IF Finished(j)'
          THEN /\ subroutines[f].orderedArgs = SecondHalf(Params(j) \o Params(k))
               /\ subroutines[f].numTimesDeclare = 1
          ELSE /\ subroutines[f].orderedArgs = Params(j) \o Params(k)
               /\ subroutines[f].numTimesDeclare = 2
      <4> HIDE DEF Declarations, Params, Finished, SecondHalf
      <4> QED  BY <2>5, <3>2 DEF DeclaredTwice
    <3> HIDE DEF Declarations, Params, Finished, SecondHalf
    <3> QED  BY <3>1, <3>3, <3>4 DEF DeclaredTwice
  <2> HIDE DEF Undeclared, DeclaredOnce, DeclaredTwice
  <2>6. Undeclared(f) \/ (\E j : DeclaredOnce(f, j)) \/ (\E j, k : DeclaredTwice(f, j, k))
    BY DEF ArgsOK
  <2> QED  BY <2>3, <2>4, <2>5, <2>6
<1> HIDE DEF Undeclared, DeclaredOnce, DeclaredTwice
<1> QED  BY <1>1 DEF ArgsOK

\* The declaration o of f is done with: the first of two keeps the second half.
LEMMA ArgsFinish ==
  ASSUME ArgsOK, Live, UNCHANGED program, SubroutinesOK, NEW f \in Subroutines, NEW o \in Declarations(f),
         subroutines' = [subroutines EXCEPT ![f] = WithoutDuplicates(@)],
         ~Finished(o), Finished(o)',
         \A j \in DOMAIN program : program[j].kind = "subroutine" /\ j # o => (Finished(j)' <=> Finished(j)),
         \A j \in DOMAIN program : program[j].kind = "subroutine" /\ j < o => Finished(j)
  PROVE  ArgsOK'
<1>1. PICK sub : sub = WithoutDuplicates(subroutines[f])
  OBVIOUS
<1>2. \A g \in Subroutines : subroutines'[g] = IF g = f THEN sub ELSE subroutines[g]
  <2>1. subroutines' = [subroutines EXCEPT ![f] = sub] /\ subroutines \in [Subroutines -> SubroutineRecords]
    BY <1>1 DEF SubroutinesOK
  <2> HIDE DEF SubroutineRecords
  <2> QED  BY <2>1
<1>3. \A g : Declarations(g)' = Declarations(g)
  BY DEF Declarations
<1>4. \A j : Params(j)' = Params(j)
  BY DEF Params
<1>5. ASSUME NEW g \in Subroutines, g # f
      PROVE  (Undeclared(g) \/ (\E j : DeclaredOnce(g, j)) \/ (\E j, k : DeclaredTwice(g, j, k)))'
  <2>1. o \notin Declarations(g)
    BY <1>5 DEF Declarations
  <2>2. \A j \in Declarations(g) : Finished(j)' <=> Finished(j)
    BY <2>1 DEF Declarations
  <2>3. subroutines'[g] = subroutines[g]
    BY <1>2, <1>5
  <2> HIDE DEF Declarations, Params, Finished, SecondHalf
  <2>4. CASE Undeclared(g)
    BY <1>3, <2>3, <2>4 DEF Undeclared
  <2>5. ASSUME NEW j, DeclaredOnce(g, j) PROVE DeclaredOnce(g, j)'
    BY <1>3, <1>4, <2>3, <2>5 DEF DeclaredOnce
  <2>6. ASSUME NEW j, NEW k, DeclaredTwice(g, j, k) PROVE DeclaredTwice(g, j, k)'
    <3>1. Declarations(g) = {j, k} /\ j < k
      BY <2>6 DEF DeclaredTwice
    <3>2. Finished(j)' <=> Finished(j)
      BY <2>2, <3>1
    <3>3. Declarations(g)' = Declarations(g) /\ Params(j)' = Params(j) /\ Params(k)' = Params(k)
      BY <1>3, <1>4
    <3>4. IF Finished(j)'
          THEN /\ subroutines'[g].orderedArgs = SecondHalf(Params(j) \o Params(k))
               /\ subroutines'[g].numTimesDeclare = 1
          ELSE /\ subroutines'[g].orderedArgs = Params(j) \o Params(k)
               /\ subroutines'[g].numTimesDeclare = 2
      BY <2>3, <2>6, <3>2 DEF DeclaredTwice
    <3> QED  BY <3>1, <3>3, <3>4 DEF DeclaredTwice
  <2>7. Undeclared(g) \/ (\E j : DeclaredOnce(g, j)) \/ (\E j, k : DeclaredTwice(g, j, k))
    BY DEF ArgsOK
  <2> HIDE DEF Undeclared, DeclaredOnce, DeclaredTwice
  <2> QED  BY <2>4, <2>5, <2>6, <2>7
<1>6. subroutines'[f] = sub
  BY <1>2
<1>7. ASSUME NEW j, DeclaredOnce(f, j) PROVE DeclaredOnce(f, j)'
  <2>1. subroutines[f].numTimesDeclare = 1
    BY <1>7 DEF DeclaredOnce
  <2>2. sub = subroutines[f]
    BY <1>1, <2>1 DEF WithoutDuplicates
  <2> HIDE DEF Declarations, Params
  <2> QED  BY <1>3, <1>4, <1>6, <1>7, <2>2 DEF DeclaredOnce
<1>8. ASSUME NEW j, NEW k, DeclaredTwice(f, j, k) PROVE DeclaredTwice(f, j, k)'
  <2>1. Declarations(f) = {j, k} /\ j < k
    BY <1>8 DEF DeclaredTwice
  <2>2. j \in DOMAIN program /\ program[j].kind = "subroutine"
    <3>1. j \in Declarations(f)
      BY <2>1
    <3> QED  BY <3>1 DEF Declarations
  <2>3. CASE o = j
    <3>1. /\ subroutines[f].orderedArgs = Params(j) \o Params(k)
          /\ subroutines[f].numTimesDeclare = 2
      <4> HIDE DEF Declarations, Params, SecondHalf, Finished
      <4> QED  BY <1>8, <2>3 DEF DeclaredTwice
    <3>2. subroutines[f] \in SubroutineRecords
      BY DEF SubroutinesOK
    <3>3. sub.orderedArgs = SecondHalf(subroutines[f].orderedArgs) /\ sub.numTimesDeclare = 1
      <4>1. PICK r : r = subroutines[f]
        OBVIOUS
      <4>2. r \in SubroutineRecords /\ sub = WithoutDuplicates(r) /\ r.numTimesDeclare = 2
        BY <1>1, <3>1, <3>2, <4>1
      <4>3. sub = [r EXCEPT !.orderedArgs = SecondHalf(r.orderedArgs), !.numTimesDeclare = r.numTimesDeclare - 1]
        BY <4>2 DEF WithoutDuplicates, SecondHalf
      <4> HIDE DEF SecondHalf
      <4>4. sub.orderedArgs = SecondHalf(r.orderedArgs) /\ sub.numTimesDeclare = r.numTimesDeclare - 1
        BY <4>2, <4>3 DEF SubroutineRecords
      <4> QED  BY <4>1, <4>2, <4>4
    <3>4. Finished(j)'
      BY <2>3
    <3>5. Declarations(f)' = Declarations(f) /\ Params(j)' = Params(j) /\ Params(k)' = Params(k)
      BY <1>3, <1>4
    <3> HIDE DEF Declarations, Params, SecondHalf, Finished
    <3> QED  BY <1>6, <2>1, <3>1, <3>3, <3>4, <3>5 DEF DeclaredTwice
  <2>4. CASE o # j
    <3>1. o = k
      BY <2>1, <2>4
    <3>2. Finished(j) /\ Finished(j)'
      BY <2>1, <2>2, <2>4, <3>1
    <3>3. subroutines[f].numTimesDeclare = 1
      <4> HIDE DEF Declarations, Params, SecondHalf, Finished
      <4> QED  BY <1>8, <3>2 DEF DeclaredTwice
    <3>4. sub = subroutines[f]
      BY <1>1, <3>3 DEF WithoutDuplicates
    <3>5. Declarations(f)' = Declarations(f) /\ Params(j)' = Params(j) /\ Params(k)' = Params(k)
      BY <1>3, <1>4
    <3> HIDE DEF Declarations, Params, SecondHalf, Finished
    <3> QED  BY <1>6, <1>8, <2>1, <3>2, <3>4, <3>5 DEF DeclaredTwice
  <2> QED  BY <2>3, <2>4
<1>9. ~Undeclared(f)
  <2> HIDE DEF Declarations
  <2> QED  BY DEF Undeclared
<1> HIDE DEF Undeclared, DeclaredOnce, DeclaredTwice
<1>10. (\E j : DeclaredOnce(f, j)) \/ (\E j, k : DeclaredTwice(f, j, k))
  BY <1>9 DEF ArgsOK
<1>11. (\E j : DeclaredOnce(f, j)') \/ (\E j, k : DeclaredTwice(f, j, k)')
  BY <1>7, <1>8, <1>10
<1>12. ASSUME NEW g \in Subroutines
       PROVE  (Undeclared(g) \/ (\E j : DeclaredOnce(g, j)) \/ (\E j, k : DeclaredTwice(g, j, k)))'
  BY <1>5, <1>11
<1> QED  BY <1>12 DEF ArgsOK

\* What a step of RefWalk finishes: a declaration without a body, or the node
\* whose body it leaves.
LEMMA FinishedNext ==
  ASSUME TextOK, StackOK, pass = "RefWalk", at \in DOMAIN program, at' = at + 1, UNCHANGED program, Follows,
         NEW here, here = at, NEW last, last = Last(open)
  PROVE  /\ HasBody(program[at]) => \A j \in DOMAIN program : Finished(j)' <=> Finished(j)
         /\ ~HasBody(program[at]) /\ program[at].kind # "close" =>
              /\ \A j \in DOMAIN program : j # here => (Finished(j)' <=> Finished(j))
              /\ Finished(here)'
         /\ program[at].kind = "close" =>
              /\ last \in DOMAIN program /\ last # here
              /\ ~Finished(last) /\ Finished(last)'
              /\ \A j \in DOMAIN program : j \notin {here, last} => (Finished(j)' <=> Finished(j))
         /\ ~Finished(here)
<1>1. /\ DOMAIN program = 1 .. Len(program) /\ Len(program) \in Nat /\ at \in Nat
      /\ at \in 1 .. Len(program) + 1 /\ at \in 1 .. Len(program) /\ at + 1 \in 1 .. Len(program) + 1
      /\ \A i \in 1 .. Len(program) + 1 : Depth[i] \in Int
      /\ \A i \in 1 .. Len(program) : Depth[i + 1] = After(program[i], Depth[i])
  <2>1. DOMAIN program = 1 .. Len(program) /\ Len(program) \in Nat
    BY TextIs
  <2> QED  BY <2>1, TextIs
<1>2. Around(at) /\ \A i \in 1 .. Len(program) + 1 : Depth[i] >= 0
  BY DEF StackOK, Walking
<1>3. /\ open \in Seq(DOMAIN program) /\ Len(open) \in Nat
      /\ \A k \in 1 .. Len(open) : open[k] < at /\ open[k] \in DOMAIN program
      /\ \A k, l \in 1 .. Len(open) : open[k] = open[l] => k = l
  <2>1. open \in Seq(DOMAIN program)
    BY DEF TextOK
  <2>2. \A k \in 1 .. Len(open) : open[k] < at
    BY <1>2 DEF Around
  <2>3. /\ \A k \in 1 .. Len(open) : open[k] \in DOMAIN program
        /\ \A k, l \in 1 .. Len(open) : open[k] = open[l] => k = l
    BY <1>2, OpenBodies
  <2> QED  BY <2>1, <2>2, <2>3
<1>4. ~IsOpen(at)
  <2>1. \A k \in 1 .. Len(open) : open[k] # at
    BY <1>1, <1>3
  <2> QED  BY <2>1 DEF IsOpen
<1>5. \A j \in DOMAIN program : j < at' <=> j < at \/ j = at
  BY <1>1
<1>6. CASE HasBody(program[at])
  <2>1. open' = Append(open, at)
    BY <1>6 DEF Follows, HasBody, Openers
  <2>2. /\ Len(open') = Len(open) + 1 /\ open'[Len(open) + 1] = at
        /\ \A k \in 1 .. Len(open) : open'[k] = open[k]
    BY <1>3, <2>1, AppendFacts
  <2>3. ASSUME NEW j PROVE IsOpen(j)' <=> IsOpen(j) \/ j = at
    <3>1. \A k \in 1 .. Len(open') : k \in 1 .. Len(open) \/ k = Len(open) + 1
      BY <1>3, <2>2
    <3>2. (1 .. Len(open)) \cup {Len(open) + 1} \subseteq 1 .. Len(open')
      BY <1>3, <2>2
    <3> QED  BY <2>2, <3>1, <3>2 DEF IsOpen
  <2>4. program[at].kind # "close"
    BY <1>6 DEF HasBody, Openers
  <2>5. \A j \in DOMAIN program : Finished(j)' <=> Finished(j)
    <3> HIDE DEF IsOpen
    <3> QED  BY <1>1, <1>5, <2>3 DEF Finished
  <2> QED  BY <1>1, <1>6, <2>4, <2>5 DEF Finished
<1>7. CASE program[at].kind = "close"
  <2>1. ~HasBody(program[at])
    BY <1>7 DEF HasBody, Openers
  <2>2. open' = Front(open)
    BY <1>7, <2>1 DEF Follows
  <2>3. open # <<>>
    <3>1. Depth[at + 1] = Depth[at] - 1 /\ Depth[at + 1] >= 0 /\ Depth[at] \in Int
      BY <1>1, <1>2, <1>7, <2>1 DEF After
    <3>2. Len(open) = Depth[at]
      BY <1>2 DEF Around
    <3>3. Len(<<>>) = 0
      OBVIOUS
    <3> QED  BY <3>1, <3>2, <3>3
  <2>4. /\ Len(open) \in Nat \ {0} /\ Len(open') = Len(open) - 1 /\ Last(open) = open[Len(open)]
        /\ \A k \in 1 .. Len(open) - 1 : open'[k] = open[k]
    BY <1>3, <2>2, <2>3, FrontFacts
  <2>5. PICK n : last = Last(open) /\ n = Len(open)
    OBVIOUS
  <2>6. n \in Nat \ {0} /\ n \in 1 .. Len(open) /\ last = open[n] /\ last \in DOMAIN program /\ last < at
    BY <1>3, <2>4, <2>5
  <2>7. IsOpen(last)
    BY <2>6 DEF IsOpen
  <2>8. ASSUME NEW j PROVE IsOpen(j)' <=> IsOpen(j) /\ j # last
    <3>1. \A k \in 1 .. Len(open) : k \in 1 .. Len(open') \/ k = n
      BY <2>4, <2>5
    <3>2. \A k \in 1 .. Len(open') : k \in 1 .. Len(open) /\ k # n /\ open'[k] = open[k] /\ open[k] # last
      <4>1. \A k \in 1 .. Len(open') : k \in 1 .. Len(open) /\ k # n /\ open'[k] = open[k]
        BY <2>4, <2>5
      <4> QED  BY <1>3, <2>6, <4>1
    <3> QED  BY <2>6, <3>1, <3>2 DEF IsOpen
  <2>9. last # here /\ ~Finished(last) /\ Finished(last)'
    <3>1. last # here /\ last < at'
      BY <1>1, <2>6
    <3> HIDE DEF IsOpen
    <3> QED  BY <2>7, <2>8, <3>1 DEF Finished
  <2>10. \A j \in DOMAIN program : j \notin {here, last} => (Finished(j)' <=> Finished(j))
    <3> HIDE DEF IsOpen
    <3> QED  BY <1>5, <2>8 DEF Finished
  <2>11. ~Finished(here)
    BY <1>1 DEF Finished
  <2> HIDE DEF Finished
  <2> QED  BY <1>7, <2>1, <2>5, <2>6, <2>9, <2>10, <2>11
<1>8. CASE ~HasBody(program[at]) /\ program[at].kind # "close"
  <2>1. open' = open
    BY <1>8 DEF Follows
  <2>2. \A j : IsOpen(j)' <=> IsOpen(j)
    BY <2>1 DEF IsOpen
  <2>3. \A j \in DOMAIN program : j # here => (Finished(j)' <=> Finished(j))
    <3> HIDE DEF IsOpen
    <3> QED  BY <1>5, <2>2 DEF Finished
  <2>4. Finished(here)'
    <3>1. here < at'
      BY <1>1
    <3> HIDE DEF IsOpen
    <3> QED  BY <1>4, <2>2, <3>1 DEF Finished
  <2>5. ~Finished(here)
    BY <1>1 DEF Finished
  <2> HIDE DEF Finished
  <2> QED  BY <1>8, <2>3, <2>4, <2>5
<1> QED  BY <1>6, <1>7, <1>8

\* A subroutine before one that RefWalk is about to finish is finished.
LEMMA EarlierFinished ==
  ASSUME TextOK, StackOK, LinesOK, pass = "RefWalk", at \in DOMAIN program,
         NEW o \in DOMAIN program, program[o].kind = "subroutine",
         o = at \/ (open # <<>> /\ o = Last(open)),
         NEW j \in DOMAIN program, program[j].kind = "subroutine", j < o
  PROVE  Finished(j)
<1>1. /\ o \in Nat /\ Depth[o] = 0 /\ j \in Nat /\ at \in Nat
  <2>1. Live
    BY DEF Live
  <2>2. DOMAIN program = 1 .. Len(program)
    BY TextIs
  <2> QED  BY <2>1, <2>2, SubroutineNodes
<1>2. Around(at) /\ open \in Seq(DOMAIN program)
  BY DEF StackOK, TextOK
<1>3. CASE o = at
  <2>1. Len(open) = 0
    BY <1>1, <1>2, <1>3 DEF Around
  <2> QED  BY <1>1, <1>3, <2>1 DEF Finished, IsOpen
<1>4. CASE open # <<>> /\ o = Last(open)
  <2>1. Len(open) \in Nat \ {0} /\ o = open[Len(open)]
    BY <1>2, <1>4, FrontFacts
  <2>2. Len(open) \in 1 .. Len(open)
    BY <2>1
  <2>3. o < at /\ Depth[o] = Len(open) - 1
    BY <1>2, <2>1, <2>2 DEF Around
  <2>4. Len(open) = 1
    <3>1. Len(open) - 1 = 0
      BY ONLY <1>1, <2>3
    <3> QED  BY <2>1, <3>1
  <2>5. ~IsOpen(j)
    <3>1. \A k \in 1 .. Len(open) : k = Len(open)
      BY <2>4
    <3> QED  BY <1>1, <2>1, <3>1 DEF IsOpen
  <2> QED  BY <1>1, <2>3, <2>5 DEF Finished
<1> QED  BY <1>3, <1>4

LEMMA Dies ==
  ASSUME pass' \notin {"DefWalk", "RefWalk", "accepted"}
  PROVE  NInv'
BY DEF NInv, LinesOK, LaidOK, ArgsOK, NamedOK, ResolvedOK, Live

\* Names are given to the parameters of the declaration visited.
LEMMA NamedNext ==
  ASSUME TextOK, NamedOK, Live, UNCHANGED program, at \in DOMAIN program, at' = at + 1,
         named' = named \cup (IF program[at].kind = "subroutine"
                              THEN {<<at, k>> : k \in DOMAIN program[at].names} ELSE {})
  PROVE  NamedOK'
<1>1. DOMAIN program = 1 .. Len(program) /\ at \in Nat
  BY TextIs
<1>2. ASSUME NEW i \in DOMAIN program, program[i].kind = "subroutine", NEW k \in DOMAIN program[i].names
      PROVE  <<i, k>> \in named' <=> i < at + 1
  <2>1. <<i, k>> \in named <=> i < at
    BY <1>2 DEF NamedOK
  <2>2. i < at + 1 <=> i < at \/ i = at
    BY <1>1
  <2>3. CASE i = at
    BY <1>2, <2>2, <2>3
  <2>4. CASE i # at
    <3>1. <<i, k>> \in named' <=> <<i, k>> \in named
      BY <2>4
    <3> QED  BY <2>1, <2>2, <2>4, <3>1
  <2> QED  BY <2>3, <2>4
<1> QED  BY <1>2 DEF NamedOK

LEMMA NamesIdentifiersStep ==
  ASSUME IInv, NInv, IInv', RefIdentifiers, UNCHANGED <<shape, program>>
  PROVE  NInv'
<1>1. /\ pass = "RefWalk" /\ at \in DOMAIN program /\ TextOK /\ StackOK /\ TextOK' /\ Live
      /\ program[at].kind \in {"var", "use", "generator", "iterator", "block", "loop", "conditional",
                               "return", "break"}
  BY DEF RefIdentifiers, Visit, IInv, Rest, Live
<1>2. CASE Reject
  <2>1. pass' = "rejected"
    BY <1>2 DEF Reject
  <2> QED  BY <2>1, Dies
<1>3. CASE /\ \A k \in DOMAIN Symbols : ~UsedBeforeDefinition(Symbols[k], program[at].line)
           /\ resolved' = Append(resolved, Symbols) /\ at' = at + 1
           /\ open' = IF program[at].kind \in Openers THEN Append(open, at) ELSE open
           /\ UNCHANGED <<pass, tables, named>>
  <2>1. /\ UNCHANGED <<program, scopes, identifiers, subroutines, named, pass>> /\ at' = at + 1
        /\ resolved' = Append(resolved, Symbols)
        /\ \A k \in DOMAIN Symbols : ~UsedBeforeDefinition(Symbols[k], program[at].line)
    <3> HIDE DEF Symbols, UsedBeforeDefinition
    <3> QED  BY <1>3 DEF tables
  <2>2. Follows
    BY <1>1, <1>3 DEF Follows, HasBody, Openers
  <2>3. LinesOK' /\ LaidOK' /\ ResolvedOK'
    <3>1. Goes
      <4> HIDE DEF Symbols
      <4> QED  BY <1>1, <2>1 DEF Goes
    <3> HIDE DEF Symbols, UsedBeforeDefinition
    <3> QED  BY <1>1, <2>1, <3>1, NamesAdvance
  <2>4. NamedOK'
    BY <1>1, <2>1, NamedNext DEF NInv
  <2>5. ArgsOK'
    <3>1. \A j \in DOMAIN program : program[j].kind = "subroutine" => (Finished(j)' <=> Finished(j))
      <4> HIDE DEF Finished
      <4> QED  BY <1>1, <2>1, <2>2, FinishedNext
    <3> HIDE DEF Finished
    <3> QED  BY <1>1, <2>1, <3>1, ArgsStay DEF NInv
  <2> QED  BY <2>3, <2>4, <2>5 DEF NInv
<1>4. \/ Reject
      \/ /\ \A k \in DOMAIN Symbols : ~UsedBeforeDefinition(Symbols[k], program[at].line)
         /\ resolved' = Append(resolved, Symbols) /\ at' = at + 1
         /\ open' = IF program[at].kind \in Openers THEN Append(open, at) ELSE open
         /\ UNCHANGED <<pass, tables, named>>
  <2> HIDE DEF Symbols, UsedBeforeDefinition
  <2> QED  BY DEF RefIdentifiers
<1> HIDE DEF Symbols, UsedBeforeDefinition
<1> QED  BY <1>2, <1>3, <1>4

LEMMA NamesCallStep ==
  ASSUME IInv, NInv, IInv', RefCall, UNCHANGED <<shape, program>>
  PROVE  NInv'
<1>1. /\ pass = "RefWalk" /\ at \in DOMAIN program /\ TextOK /\ StackOK /\ TextOK' /\ Live
      /\ program[at].kind = "call"
  BY DEF RefCall, Visit, IInv, Rest, Live
<1>2. CASE Reject
  <2>1. pass' = "rejected"
    BY <1>2 DEF Reject
  <2> QED  BY <2>1, Dies
<1>3. CASE /\ resolved' = Append(resolved, Symbols) /\ at' = at + 1
           /\ UNCHANGED <<pass, open, tables, named>>
  <2>1. /\ UNCHANGED <<program, scopes, identifiers, subroutines, named, pass>> /\ at' = at + 1
        /\ resolved' = Append(resolved, Symbols) /\ open' = open
    <3> HIDE DEF Symbols
    <3> QED  BY <1>3 DEF tables
  <2>2. Follows
    BY <1>1, <2>1 DEF Follows, HasBody, Openers
  <2>3. LinesOK' /\ LaidOK' /\ ResolvedOK'
    <3>1. Goes
      <4> HIDE DEF Symbols
      <4> QED  BY <1>1, <2>1 DEF Goes
    <3> HIDE DEF Symbols
    <3> QED  BY <1>1, <3>1, NamesAdvance
  <2>4. NamedOK'
    BY <1>1, <2>1, NamedNext DEF NInv
  <2>5. ArgsOK'
    <3>1. \A j \in DOMAIN program : program[j].kind = "subroutine" => (Finished(j)' <=> Finished(j))
      <4> HIDE DEF Finished
      <4> QED  BY <1>1, <2>1, <2>2, FinishedNext
    <3> HIDE DEF Finished
    <3> QED  BY <1>1, <2>1, <3>1, ArgsStay DEF NInv
  <2> QED  BY <2>3, <2>4, <2>5 DEF NInv
<1>4. \/ Reject
      \/ /\ resolved' = Append(resolved, Symbols) /\ at' = at + 1
         /\ UNCHANGED <<pass, open, tables, named>>
  <2> HIDE DEF Symbols
  <2> QED  BY DEF RefCall
<1> HIDE DEF Symbols
<1> QED  BY <1>2, <1>3, <1>4

LEMMA NamesTypedefStep ==
  ASSUME IInv, NInv, IInv', RefTypedef, UNCHANGED <<shape, program>>
  PROVE  NInv'
<1>1. /\ pass = "RefWalk" /\ at \in DOMAIN program /\ TextOK /\ StackOK /\ TextOK' /\ Live
      /\ program[at].kind = "typedef"
  BY DEF RefTypedef, Visit, IInv, Rest, Live
<1>2. CASE pass' = "crashed"
  BY <1>2, Dies
<1>3. CASE /\ resolved' = Append(resolved, Symbols) /\ at' = at + 1
           /\ UNCHANGED <<pass, open, scopes, subroutines, identifiers, named>>
  <2>1. Follows
    BY <1>1, <1>3 DEF Follows, HasBody, Openers
  <2>2. LinesOK' /\ LaidOK' /\ ResolvedOK'
    <3>1. Goes
      <4> HIDE DEF Symbols
      <4> QED  BY <1>1, <1>3 DEF Goes
    <3> HIDE DEF Symbols
    <3> QED  BY <1>1, <3>1, NamesAdvance
  <2>3. NamedOK'
    BY <1>1, <1>3, NamedNext DEF NInv
  <2>4. ArgsOK'
    <3>1. \A j \in DOMAIN program : program[j].kind = "subroutine" => (Finished(j)' <=> Finished(j))
      <4> HIDE DEF Finished
      <4> QED  BY <1>1, <1>3, <2>1, FinishedNext
    <3> HIDE DEF Finished
    <3> QED  BY <1>1, <1>3, <3>1, ArgsStay DEF NInv
  <2> QED  BY <2>2, <2>3, <2>4 DEF NInv
<1>4. \/ pass' = "crashed"
      \/ /\ resolved' = Append(resolved, Symbols) /\ at' = at + 1
         /\ UNCHANGED <<pass, open, scopes, subroutines, identifiers, named>>
  <2> HIDE DEF Symbols, Target
  <2> QED  BY DEF RefTypedef
<1> HIDE DEF Symbols
<1> QED  BY <1>2, <1>3, <1>4

\* The end of a declaration or of a definition.
LEMMA NamesFinish ==
  ASSUME IInv, NInv, IInv', NEW f \in Subroutines, FinishSubroutine(f), UNCHANGED <<shape, program>>,
         pass = "RefWalk", at \in DOMAIN program, Follows, NamedOK',
         program[at].kind \in {"subroutine", "close"}, ~HasBody(program[at]),
         NEW o \in Declarations(f),
         o = IF program[at].kind = "subroutine" THEN at ELSE Last(open)
  PROVE  NInv'
<1>1. TextOK /\ StackOK /\ TextOK' /\ Live /\ SubroutinesOK /\ LinesOK /\ ArgsOK
  BY DEF IInv, Rest, Live, NInv
<1>2. /\ subroutines' = [subroutines EXCEPT ![f] = WithoutDuplicates(@)]
      /\ at' = at + 1 /\ resolved' = Append(resolved, Symbols)
      /\ UNCHANGED <<program, scopes, identifiers>>
  <2> HIDE DEF Symbols, WithoutDuplicates
  <2> QED  BY DEF FinishSubroutine
<1>3. o \in DOMAIN program /\ program[o].kind = "subroutine"
  BY DEF Declarations
<1>4. PICK here, last : here = at /\ last = Last(open)
  OBVIOUS
<1>5. /\ ~Finished(o) /\ Finished(o)'
      /\ \A j \in DOMAIN program : program[j].kind = "subroutine" /\ j # o => (Finished(j)' <=> Finished(j))
  <2>1. CASE program[at].kind = "subroutine"
    <3>1. /\ \A j \in DOMAIN program : j # here => (Finished(j)' <=> Finished(j))
          /\ Finished(here)' /\ ~Finished(here)
      <4> HIDE DEF Finished
      <4> QED  BY <1>1, <1>2, <1>4, <2>1, FinishedNext
    <3>2. o = here
      BY <1>4, <2>1
    <3> HIDE DEF Finished
    <3> QED  BY <3>1, <3>2
  <2>2. CASE program[at].kind = "close"
    <3>1. /\ ~Finished(last) /\ Finished(last)'
          /\ \A j \in DOMAIN program : j \notin {here, last} => (Finished(j)' <=> Finished(j))
      <4> HIDE DEF Finished
      <4> QED  BY <1>1, <1>2, <1>4, <2>2, FinishedNext
    <3>2. o = last /\ program[here].kind # "subroutine"
      BY <1>4, <2>2
    <3> HIDE DEF Finished
    <3> QED  BY <3>1, <3>2
  <2> QED  BY <2>1, <2>2
<1>6. \A j \in DOMAIN program : program[j].kind = "subroutine" /\ j < o => Finished(j)
  <2>1. o = at \/ (open # <<>> /\ o = Last(open))
    <3>1. CASE program[at].kind = "subroutine"
      BY <3>1
    <3>2. CASE program[at].kind = "close"
      <4>1. ASSUME open = <<>> PROVE FALSE
        <5>1. Around(at) /\ Len(open) = 0 /\ \A i \in 1 .. Len(program) + 1 : Depth[i] >= 0
          BY <1>1, <4>1 DEF StackOK, Walking
        <5>2. at \in 1 .. Len(program) /\ Len(program) \in Nat /\ Depth[at + 1] = After(program[at], Depth[at])
          BY <1>1, TextIs
        <5>3. at + 1 \in 1 .. Len(program) + 1
          BY <5>2
        <5>4. Depth[at] = 0 /\ Depth[at + 1] = Depth[at] - 1
          BY <3>2, <5>1, <5>2 DEF Around, After
        <5> QED  BY <5>1, <5>3, <5>4
      <4> QED  BY <3>2, <4>1
    <3> QED  BY <3>1, <3>2
  <2> HIDE DEF Finished
  <2> QED  BY <1>1, <1>3, <2>1, EarlierFinished
<1>7. ArgsOK'
  <2> HIDE DEF Finished, WithoutDuplicates, Declarations
  <2> QED  BY <1>1, <1>2, <1>5, <1>6, ArgsFinish
<1>8. ASSUME NEW g \in Subroutines PROVE subroutines'[g].scope = subroutines[g].scope
  <2>1. PICK sub : sub = WithoutDuplicates(subroutines[f])
    OBVIOUS
  <2>2. subroutines' = [subroutines EXCEPT ![f] = sub] /\ subroutines \in [Subroutines -> SubroutineRecords]
    <3> HIDE DEF WithoutDuplicates
    <3> QED  BY <1>1, <1>2, <2>1 DEF SubroutinesOK
  <2>3. sub.scope = subroutines[f].scope
    <3>1. PICK r : r = subroutines[f]
      OBVIOUS
    <3>2. r \in SubroutineRecords /\ sub = WithoutDuplicates(r)
      BY <2>1, <2>2, <3>1
    <3>3. CASE r.numTimesDeclare = 1
      BY <3>1, <3>2, <3>3 DEF WithoutDuplicates
    <3>4. CASE r.numTimesDeclare # 1
      <4>1. PICK x, y : sub = [r EXCEPT !.orderedArgs = x, !.numTimesDeclare = y]
        BY <3>2, <3>4 DEF WithoutDuplicates
      <4>2. sub.scope = r.scope
        BY <3>2, <4>1 DEF SubroutineRecords
      <4> QED  BY <3>1, <4>2
    <3> QED  BY <3>3, <3>4
  <2> HIDE DEF SubroutineRecords
  <2> QED  BY <2>2, <2>3
<1>9. Goes
  <2> HIDE DEF Symbols
  <2> QED  BY <1>2, <1>8 DEF Goes
<1>10. LinesOK' /\ LaidOK' /\ ResolvedOK'
  <2> HIDE DEF Symbols
  <2> QED  BY <1>1, <1>9, NamesAdvance
<1> QED  BY <1>7, <1>10 DEF NInv

LEMMA NamesSubroutineStep ==
  ASSUME IInv, NInv, IInv', RefSubroutine, UNCHANGED <<shape, program>>
  PROVE  NInv'
<1>1. /\ pass = "RefWalk" /\ at \in DOMAIN program /\ TextOK /\ StackOK /\ TextOK' /\ Live
      /\ program[at].kind = "subroutine"
  BY DEF RefSubroutine, Visit, IInv, Rest, Live
<1>2. PICK f : f = program[at].subroutine
  OBVIOUS
<1>3. f \in Subroutines /\ at \in Declarations(f)
  BY <1>1, <1>2 DEF TextOK, Declarations
<1>4. named' = named \cup {<<at, k>> : k \in DOMAIN program[at].names} /\ at' = at + 1
  BY DEF RefSubroutine, FinishSubroutine
<1>5. NamedOK'
  BY <1>1, <1>4, NamedNext DEF NInv
<1>6. CASE program[at].body
  <2>1. /\ resolved' = Append(resolved, Symbols) /\ open' = Append(open, at)
        /\ UNCHANGED <<program, scopes, identifiers, subroutines, pass>>
    <3> HIDE DEF Symbols
    <3> QED  BY <1>6 DEF RefSubroutine, tables
  <2>2. Follows /\ HasBody(program[at])
    BY <1>1, <1>6, <2>1 DEF Follows, HasBody, Openers
  <2>3. LinesOK' /\ LaidOK' /\ ResolvedOK'
    <3>1. Goes
      <4> HIDE DEF Symbols
      <4> QED  BY <1>1, <1>4, <2>1 DEF Goes
    <3> HIDE DEF Symbols
    <3> QED  BY <1>1, <3>1, NamesAdvance
  <2>4. ArgsOK'
    <3>1. \A j \in DOMAIN program : program[j].kind = "subroutine" => (Finished(j)' <=> Finished(j))
      <4> HIDE DEF Finished
      <4> QED  BY <1>1, <1>4, <2>1, <2>2, FinishedNext
    <3> HIDE DEF Finished
    <3> QED  BY <1>1, <2>1, <3>1, ArgsStay DEF NInv
  <2> QED  BY <1>5, <2>3, <2>4 DEF NInv
<1>7. CASE ~program[at].body
  <2>1. FinishSubroutine(f) /\ UNCHANGED open
    BY <1>2, <1>7 DEF RefSubroutine
  <2>2. ~HasBody(program[at]) /\ Follows
    BY <1>1, <1>7, <2>1 DEF Follows, HasBody, Openers
  <2> HIDE DEF FinishSubroutine, Declarations
  <2> QED  BY <1>1, <1>3, <1>5, <2>1, <2>2, NamesFinish
<1> QED  BY <1>6, <1>7

LEMMA NamesLeaveStep ==
  ASSUME IInv, NInv, IInv', RefLeave, UNCHANGED <<shape, program>>
  PROVE  NInv'
<1>1. /\ pass = "RefWalk" /\ at \in DOMAIN program /\ TextOK /\ StackOK /\ TextOK' /\ Live
      /\ program[at].kind = "close"
  BY DEF RefLeave, Visit, IInv, Rest, Live
<1>2. /\ open' = Front(open) /\ named' = named /\ at' = at + 1
      /\ UNCHANGED <<program, scopes, identifiers>> /\ resolved' = Append(resolved, Symbols)
  <2> HIDE DEF Symbols
  <2> QED  BY DEF RefLeave, FinishSubroutine, tables
<1>3. Follows /\ ~HasBody(program[at])
  BY <1>1, <1>2 DEF Follows, HasBody, Openers
<1>4. NamedOK'
  BY <1>1, <1>2, NamedNext DEF NInv
<1>5. PICK here, last : here = at /\ last = Last(open)
  OBVIOUS
<1>6. last \in DOMAIN program
  <2> HIDE DEF Finished
  <2> QED  BY <1>1, <1>2, <1>3, <1>5, FinishedNext
<1>7. CASE program[last].kind = "subroutine"
  <2>1. PICK f : f = program[last].subroutine
    OBVIOUS
  <2>2. f \in Subroutines /\ last \in Declarations(f)
    BY <1>1, <1>6, <1>7, <2>1 DEF TextOK, Declarations
  <2>3. FinishSubroutine(f)
    BY <1>5, <1>7, <2>1 DEF RefLeave
  <2>4. last = IF program[at].kind = "subroutine" THEN at ELSE Last(open)
    BY <1>1, <1>5
  <2> HIDE DEF FinishSubroutine, Declarations
  <2> QED  BY <1>1, <1>3, <1>4, <2>2, <2>3, <2>4, NamesFinish
<1>8. CASE program[last].kind # "subroutine"
  <2>1. UNCHANGED <<subroutines, pass>>
    BY <1>5, <1>8 DEF RefLeave, tables
  <2>2. LinesOK' /\ LaidOK' /\ ResolvedOK'
    <3>1. Goes
      <4> HIDE DEF Symbols
      <4> QED  BY <1>1, <1>2, <2>1 DEF Goes
    <3> HIDE DEF Symbols
    <3> QED  BY <1>1, <3>1, NamesAdvance
  <2>3. ArgsOK'
    <3>1. \A j \in DOMAIN program : program[j].kind = "subroutine" => (Finished(j)' <=> Finished(j))
      <4>1. \A j \in DOMAIN program : program[j].kind = "subroutine" => j # here /\ j # last
        BY <1>1, <1>5, <1>8
      <4>2. \A j \in DOMAIN program : j \notin {here, last} => (Finished(j)' <=> Finished(j))
        <5> HIDE DEF Finished
        <5> QED  BY <1>1, <1>2, <1>3, <1>5, FinishedNext
      <4> HIDE DEF Finished
      <4> QED  BY <4>1, <4>2
    <3> HIDE DEF Finished
    <3> QED  BY <1>1, <1>2, <2>1, <3>1, ArgsStay DEF NInv
  <2> QED  BY <1>4, <2>2, <2>3 DEF NInv
<1> QED  BY <1>7, <1>8

LEMMA NamesRefWalkStep ==
  ASSUME IInv, NInv, RefWalk, UNCHANGED <<shape, program>>
  PROVE  NInv'
<1>0. IInv'
  BY RefWalkStep
<1>1. CASE RefIdentifiers
  BY <1>0, <1>1, NamesIdentifiersStep
<1>2. CASE RefCall
  BY <1>0, <1>2, NamesCallStep
<1>3. CASE RefSubroutine
  BY <1>0, <1>3, NamesSubroutineStep
<1>4. CASE RefLeave
  BY <1>0, <1>4, NamesLeaveStep
<1>5. CASE RefTypedef
  BY <1>0, <1>5, NamesTypedefStep
<1> QED  BY <1>1, <1>2, <1>3, <1>4, <1>5 DEF RefWalk

(***************************************************************************)
(* DefWalk.                                                                *)
(***************************************************************************)
\* The node declares variable x in scope s.
Adds(node, s, x) == node.kind = "var" /\ node.names = <<x>> /\ s = currentScope

\* The scopes made so far keep what they have, but for that variable.
Keeps(node) ==
  /\ Extended
  /\ \A s \in 1 .. Len(scopes) :
       /\ scopes'[s].subroutine = scopes[s].subroutine
       /\ \A x \in Names :
            /\ InTable(s, x)' = IF Adds(node, s, x) THEN <<This, 1>> ELSE InTable(s, x)
            /\ Adds(node, s, x) => InTable(s, x) = nullptr

\* What is declared in the bodies, with the node now read.
LEMMA DeclaredGrows ==
  ASSUME TextOK, StackOK, pass = "DefWalk", NEW node, Reads(node), NEW new, new = This
  PROVE  /\ \A b, x : DeclaredIn(b, x)' =
              DeclaredIn(b, x) \cup
                (IF node.kind = "var" /\ node.names = <<x>> /\ b = Innermost THEN {new} ELSE {})
         /\ \A x : DeclaredIn(new, x)' = {}
         /\ Innermost # new /\ Innermost \in Bodies
<1>1. /\ Len(program) \in Nat /\ new = Len(program) + 1 /\ program'[new] = node
      /\ DOMAIN program = 1 .. Len(program) /\ DOMAIN program' = DOMAIN program \cup {new}
      /\ new \notin DOMAIN program
      /\ \A i \in DOMAIN program : program'[i] = program[i]
  BY TextGrows
<1>2. \A i \in 1 .. new : Body(i)' = Body(i)
  BY BodiesGrow
<1>3. Body(new) = Innermost
  BY BodyOfThis
<1>4. ASSUME NEW b, NEW x
      PROVE  DeclaredIn(b, x)' =
              DeclaredIn(b, x) \cup
                (IF node.kind = "var" /\ node.names = <<x>> /\ b = Innermost THEN {new} ELSE {})
  <2>1. \A i \in DOMAIN program : i \in DeclaredIn(b, x)' <=> i \in DeclaredIn(b, x)
    <3>1. \A i \in DOMAIN program : i \in 1 .. new
      BY <1>1
    <3> HIDE DEF Body
    <3> QED  BY <1>1, <1>2, <3>1 DEF DeclaredIn
  <2>2. new \in DeclaredIn(b, x)' <=> node.kind = "var" /\ node.names = <<x>> /\ b = Innermost
    <3>1. new \in 1 .. new /\ new \in DOMAIN program'
      BY <1>1
    <3>2. Body(new)' = Innermost
      BY <1>2, <1>3, <3>1
    <3> HIDE DEF Body, Innermost
    <3> QED  BY <1>1, <3>1, <3>2 DEF DeclaredIn
  <2>3. DeclaredIn(b, x)' \subseteq DOMAIN program \cup {new} /\ DeclaredIn(b, x) \subseteq DOMAIN program
    BY <1>1 DEF DeclaredIn
  <2> HIDE DEF DeclaredIn, Innermost
  <2> QED  BY <1>1, <2>1, <2>2, <2>3
<1>5. Innermost \in Bodies /\ Innermost # new
  <2>1. Innermost \in 0 .. new - 1 /\ Innermost \in Bodies
    <3>1. new \in 1 .. Len(program) + 1
      BY <1>1
    <3>2. Body(new) \in 0 .. new - 1 /\ Body(new) \in Bodies
      BY <3>1, EnclosingFacts
    <3> QED  BY <1>3, <3>2
  <2> QED  BY <1>1, <2>1
<1>6. ASSUME NEW x PROVE DeclaredIn(new, x)' = {}
  <2>1. \A i \in DOMAIN program : Body(i) # new
    <3>1. ASSUME NEW i \in DOMAIN program PROVE Body(i) # new
      <4>1. i \in 1 .. Len(program) + 1 /\ i < new
        BY <1>1
      <4>2. Body(i) \in 0 .. i - 1
        BY <4>1, EnclosingFacts
      <4> QED  BY <1>1, <4>1, <4>2
    <3> QED  BY <3>1
  <2>2. DeclaredIn(new, x) = {}
    <3> HIDE DEF Body
    <3> QED  BY <2>1 DEF DeclaredIn
  <2>3. DeclaredIn(new, x)' =
              DeclaredIn(new, x) \cup
                (IF node.kind = "var" /\ node.names = <<x>> /\ new = Innermost THEN {new} ELSE {})
    BY <1>4
  <2> HIDE DEF DeclaredIn, Innermost
  <2> QED  BY <1>5, <2>2, <2>3
<1> HIDE DEF DeclaredIn, Innermost, Bodies
<1> QED  BY <1>4, <1>5, <1>6

\* The bodies have their scopes when one more node is read, which may open one.
LEMMA LaidReads ==
  ASSUME IInv, pass = "DefWalk", NEW node, Reads(node), NEW new, new = This, Keeps(node),
         NEW m, Placed(m), Laid(m),
         NEW n, n \in [Bodies' -> 1 .. Len(scopes')], \A b \in Bodies : n[b] = m[b],
         HasBody(node) =>
           /\ n[new] \notin 1 .. Len(scopes) /\ scopes'[n[new]].subroutine = noName
           /\ \A x \in Names : InTable(n[new], x)' = nullptr
           /\ Outside(new, n)',
         \A f \in Subroutines :
           IF subroutines[f].scope # 0 THEN subroutines'[f].scope = subroutines[f].scope
           ELSE subroutines'[f].scope # 0 => OfSubroutine(f, n)',
         NEW ids, identifiers' = Append(identifiers, ids), ids \in Numberings,
         \A k \in DOMAIN ids : Located(ids[k], new, k, n)'
  PROVE  Laid(n)'
<1>0. /\ TextOK /\ StackOK /\ ScopesOK /\ SubroutinesOK /\ IdentifiersOK
      /\ Len(identifiers) = Len(program)
  BY DEF IInv, Rest, IdentifiersOK, Walking
<1>1. /\ Len(program) \in Nat /\ new = Len(program) + 1 /\ program'[new] = node /\ Len(program') = new
      /\ DOMAIN program = 1 .. Len(program)
      /\ \A i \in 1 .. Len(program) : program'[i] = program[i] /\ i \in 1 .. new
  BY TextGrows
<1>2. /\ Bodies' = Bodies \cup (IF HasBody(node) THEN {new} ELSE {})
      /\ new \notin Bodies /\ 0 \in Bodies /\ \A b \in Bodies \ {0} : b \in 1 .. Len(program)
      /\ \A i \in 1 .. new : Body(i)' = Body(i)
  <2>1. Bodies \subseteq 0 .. Len(program) /\ new \notin Bodies
    BY BodiesGrow
  <2> HIDE DEF Bodies
  <2> QED  BY <1>1, <2>1, BodiesGrow
<1>3. /\ m \in [Bodies -> 1 .. Len(scopes)] /\ m[0] = 1
      /\ \A i, j \in Bodies : m[i] = m[j] => i = j
      /\ currentScope = m[Innermost] /\ Innermost \in Bodies
      /\ Len(scopes) \in Nat /\ Len(scopes') \in Nat /\ Len(scopes) <= Len(scopes')
      /\ \A s \in 1 .. Len(scopes) : scopes'[s].enclosingScope = scopes[s].enclosingScope /\ s \in 1 .. Len(scopes')
  <2>1. Innermost \in Bodies
    BY <1>0, DeclaredGrows
  <2> QED  BY <2>1 DEF Placed, Keeps, Extended
<1>4. \A i \in 1 .. Len(program) : Body(i) \in Bodies
  <2>1. \A i \in 1 .. Len(program) : i \in 1 .. Len(program) + 1
    BY <1>1
  <2> QED  BY <1>0, <2>1, EnclosingFacts
<1>5. ASSUME NEW s \in 1 .. Len(scopes), \A b \in Bodies : m[b] # s
      PROVE  /\ \A b \in Bodies' : n[b] # s
             /\ \A x \in Names : InTable(s, x)' = InTable(s, x)
  <2>1. s # currentScope
    BY <1>3, <1>5
  <2>2. \A x \in Names : InTable(s, x)' = InTable(s, x)
    BY <2>1 DEF Keeps, Adds
  <2>3. \A b \in Bodies' : n[b] # s
    <3> HIDE DEF Bodies
    <3> QED  BY <1>2, <1>5
  <2> QED  BY <2>2, <2>3
<1>6. ASSUME NEW b \in Bodies PROVE Holds(n[b], b)'
  <2>1. PICK s : s = n[b]
    OBVIOUS
  <2>2. s \in 1 .. Len(scopes) /\ s = m[b] /\ Holds(s, b)
    BY <1>3, <2>1 DEF Laid
  <2>3. scopes'[s].subroutine = noName
    BY <2>2 DEF Keeps, Holds
  <2>4. s = currentScope <=> b = Innermost
    <3> HIDE DEF Bodies, Innermost
    <3> QED  BY <1>3, <2>2
  <2>5. ASSUME NEW x \in Names
        PROVE  \/ DeclaredIn(b, x)' = {} /\ InTable(s, x)' = nullptr
               \/ \E d : DeclaredIn(b, x)' = {d} /\ InTable(s, x)' = <<d, 1>>
    <3>1. \/ DeclaredIn(b, x) = {} /\ InTable(s, x) = nullptr
          \/ \E d : DeclaredIn(b, x) = {d} /\ InTable(s, x) = <<d, 1>>
      BY <2>2 DEF Holds
    <3>2. /\ InTable(s, x)' = IF Adds(node, s, x) THEN <<new, 1>> ELSE InTable(s, x)
          /\ Adds(node, s, x) => InTable(s, x) = nullptr
      BY <2>2 DEF Keeps
    <3>3. DeclaredIn(b, x)' =
              DeclaredIn(b, x) \cup
                (IF node.kind = "var" /\ node.names = <<x>> /\ b = Innermost THEN {new} ELSE {})
      BY <1>0, DeclaredGrows
    <3> HIDE DEF DeclaredIn, InTable, nullptr, Innermost
    <3>4. CASE Adds(node, s, x)
      <4>1. DeclaredIn(b, x) = {}
        BY <3>1, <3>2, <3>4, PairIsNotNull
      <4>2. node.kind = "var" /\ node.names = <<x>> /\ b = Innermost
        BY <2>4, <3>4 DEF Adds
      <4> QED  BY <3>2, <3>3, <3>4, <4>1, <4>2
    <3>5. CASE ~Adds(node, s, x)
      <4>1. ~(node.kind = "var" /\ node.names = <<x>> /\ b = Innermost)
        BY <2>4, <3>5 DEF Adds
      <4> QED  BY <3>1, <3>2, <3>3, <3>5, <4>1
    <3> QED  BY <3>4, <3>5
  <2>6. Holds(s, b)'
    <3> HIDE DEF DeclaredIn, InTable, nullptr
    <3> QED  BY <2>3, <2>5 DEF Holds
  <2> QED  BY <2>1, <2>6
<1>7. ASSUME HasBody(node) PROVE Holds(n[new], new)'
  <2>1. PICK s : s = n[new]
    OBVIOUS
  <2>2. scopes'[s].subroutine = noName /\ \A x \in Names : InTable(s, x)' = nullptr
    BY <1>7, <2>1
  <2>3. \A x : DeclaredIn(new, x)' = {}
    BY <1>0, DeclaredGrows
  <2>4. Holds(s, new)'
    <3> HIDE DEF DeclaredIn, InTable, nullptr
    <3> QED  BY <2>2, <2>3 DEF Holds
  <2> QED  BY <2>1, <2>4
<1>8. ASSUME NEW s, NEW i \in 1 .. Len(program), Heads(s, i, m) PROVE Heads(s, i, n)'
  <2>1. /\ s \in 1 .. Len(scopes) /\ scopes[s].subroutine = noName
        /\ scopes[s].enclosingScope = m[Body(i)]
        /\ \A x \in Names : InTable(s, x) = InHeader(i, x)
        /\ \A b \in Bodies : m[b] # s
    BY <1>8 DEF Heads
  <2>2. scopes'[s].subroutine = noName
    BY <2>1 DEF Keeps
  <2>3. Body(i)' = Body(i) /\ n[Body(i)] = m[Body(i)]
    BY <1>1, <1>2, <1>4
  <2>4. \A x \in Names : InTable(s, x)' = InHeader(i, x)'
    <3>1. \A x : InHeader(i, x)' = InHeader(i, x)
      BY <1>1, HeaderStays
    <3> HIDE DEF InTable, InHeader
    <3> QED  BY <1>5, <2>1, <3>1
  <2>5. \A b \in Bodies' : n[b] # s
    BY <1>5, <2>1
  <2>6. scopes'[s].enclosingScope = n[Body(i)'] /\ s \in 1 .. Len(scopes')
    BY <1>3, <2>1, <2>3
  <2> HIDE DEF InTable, InHeader, Body, Bodies
  <2> QED  BY <2>2, <2>4, <2>5, <2>6 DEF Heads
<1>9. ASSUME NEW b \in Bodies \ {0} PROVE Outside(b, n)'
  <2>1. PICK s, outer, f : s = m[b] /\ outer = scopes[s].enclosingScope /\ f = program[b].subroutine
    OBVIOUS
  <2>2. /\ b \in 1 .. Len(program) /\ program'[b] = program[b] /\ Body(b)' = Body(b) /\ Body(b) \in Bodies
        /\ s \in 1 .. Len(scopes) /\ n[b] = s /\ scopes'[s].enclosingScope = outer
    BY <1>1, <1>2, <1>3, <1>4, <2>1
  <2>3. /\ program[b].kind = "iterator" => Heads(outer, b, m)
        /\ program[b].kind = "subroutine" => outer = subroutines[f].scope /\ outer # 0
        /\ program[b].kind \in Headless => outer = m[Body(b)]
    BY <2>1 DEF Laid, Outside
  <2>4. program[b].kind = "subroutine" => f \in Subroutines
    <3>1. /\ \A i \in DOMAIN program :
               program[i].kind \in {"subroutine", "call"} => program[i].subroutine \in Subroutines
          /\ DOMAIN program = 1 .. Len(program)
      BY <1>0, TextIs DEF TextOK
    <3> QED  BY ONLY <2>1, <2>2, <3>1
  <2>5. program[b].kind = "iterator" => Heads(outer, b, n)'
    <3> HIDE DEF Heads
    <3> QED  BY <1>8, <2>2, <2>3
  <2>6. program[b].kind = "subroutine" => outer = subroutines'[f].scope /\ outer # 0
    BY <2>3, <2>4
  <2>7. program[b].kind \in Headless => outer = n[Body(b)']
    BY <2>2, <2>3
  <2>8. scopes'[n[b]].enclosingScope = outer /\ program'[b].subroutine = f
    BY <2>1, <2>2
  <2> HIDE DEF Heads, Body, Headless
  <2> QED  BY <2>2, <2>5, <2>6, <2>7, <2>8 DEF Outside
<1>10. ASSUME NEW f \in Subroutines PROVE OfSubroutine(f, n)'
  <2>1. CASE subroutines[f].scope # 0
    <3>1. PICK s : s = subroutines[f].scope
      OBVIOUS
    <3>2. /\ scopes[s].subroutine = f /\ \A x \in Names : InTable(s, x) = nullptr
          /\ \A b \in Bodies : m[b] # s
      BY <2>1, <3>1 DEF Laid, OfSubroutine
    <3>3. s \in 1 .. Len(scopes) /\ subroutines'[f].scope = s
      BY <1>0, <2>1, <3>1 DEF SubroutinesOK
    <3>4. scopes'[s].subroutine = f
      BY <3>2, <3>3 DEF Keeps
    <3>5. (\A b \in Bodies' : n[b] # s) /\ \A x \in Names : InTable(s, x)' = nullptr
      <4> HIDE DEF InTable, nullptr, Bodies
      <4> QED  BY <1>5, <3>2, <3>3
    <3> HIDE DEF InTable, nullptr, Bodies
    <3> QED  BY <3>3, <3>4, <3>5 DEF OfSubroutine
  <2>2. CASE subroutines[f].scope = 0
    <3>1. CASE subroutines'[f].scope # 0
      BY <2>2, <3>1
    <3>2. CASE subroutines'[f].scope = 0
      BY <3>2 DEF OfSubroutine
    <3> QED  BY <3>1, <3>2
  <2> QED  BY <2>1, <2>2
<1>11. /\ \A i \in 1 .. Len(program) : identifiers'[i] = identifiers[i]
       /\ identifiers'[new] = ids
  <2>1. identifiers \in Seq(Numberings)
    BY <1>0 DEF IdentifiersOK
  <2> QED  BY <1>0, <1>1, <2>1, AppendFacts
<1>12. ASSUME NEW i \in 1 .. Len(program), NEW k \in DOMAIN identifiers[i]
       PROVE  Located(identifiers[i][k], i, k, n)'
  <2>1. PICK s : s = identifiers[i][k]
    OBVIOUS
  <2>2. Located(s, i, k, m)
    BY <2>1 DEF Laid
  <2>3. /\ program'[i] = program[i] /\ Body(i)' = Body(i) /\ Body(i) \in Bodies
        /\ n[Body(i)] = m[Body(i)]
    BY <1>1, <1>2, <1>4
  <2>4. Heads(s, i, m) => Heads(s, i, n)'
    BY <1>8
  <2>5. Located(s, i, k, n)'
    <3> HIDE DEF Heads, Body
    <3> QED  BY <2>2, <2>3, <2>4 DEF Located
  <2>6. identifiers'[i][k] = s
    BY <1>11, <2>1
  <2> HIDE DEF Located
  <2> QED  BY <2>5, <2>6
<1>13. ASSUME NEW i \in 1 .. Len(program'), NEW k \in DOMAIN identifiers'[i]
       PROVE  Located(identifiers[i][k], i, k, n)'
  <2> HIDE DEF Located
  <2>1. CASE i = new
    <3>1. k \in DOMAIN ids /\ identifiers'[i][k] = ids[k]
      BY <1>11, <2>1
    <3>2. Located(ids[k], new, k, n)'
      BY <3>1
    <3> QED  BY <2>1, <3>1, <3>2
  <2>2. CASE i # new
    <3>1. i \in 1 .. Len(program)
      BY <1>1, <2>2
    <3>2. k \in DOMAIN identifiers[i]
      BY <1>11, <3>1
    <3> QED  BY <1>12, <3>1, <3>2
  <2> QED  BY <2>1, <2>2
<1>14. n[0] = 1
  BY <1>2, <1>3
<1>15. \A b \in Bodies' : Holds(n[b], b)'
  <2> HIDE DEF Bodies, Holds
  <2> QED  BY <1>2, <1>6, <1>7
<1>16. \A b \in Bodies' \ {0} : Outside(b, n)'
  <2> HIDE DEF Bodies, Outside
  <2> QED  BY <1>2, <1>9
<1> HIDE DEF Holds, Outside, OfSubroutine, Located, Bodies
<1> QED  BY <1>10, <1>13, <1>14, <1>15, <1>16 DEF Laid

\* The line of a node that DefWalk reads is not before the lines it has read.
LEMMA LinesGrow ==
  ASSUME TextOK, LinesOK, pass = "DefWalk", NEW line, line = NextLine \/ line \in SomeLine
  PROVE  \A i \in DOMAIN program : program[i].line <= line
<1>1. CASE program = <<>>
  BY <1>1
<1>2. CASE program # <<>>
  <2>0. program \in Seq(Nodes)
    BY DEF TextOK
  <2>1. /\ Len(program) \in Nat \ {0} /\ Last(program) = program[Len(program)]
        /\ DOMAIN program = 1 .. Len(program) /\ Len(program) \in 1 .. Len(program)
    <3>1. /\ Len(program) \in Nat \ {0} /\ Last(program) = program[Len(program)]
          /\ DOMAIN program = 1 .. Len(program)
      BY ONLY <1>2, <2>0, FrontFacts
    <3> QED  BY <3>1
  <2>2. PICK last : last = program[Len(program)].line
    OBVIOUS
  <2>3. /\ \A i \in DOMAIN program : i <= Len(program) /\ program[i].line \in Nat
        /\ last \in Nat
    <3>1. \A x \in Nodes : x.line \in Nat
      BY DEF Nodes
    <3>2. \A i \in DOMAIN program : program[i] \in Nodes
      BY <2>0, <2>1, ElementOfSeq
    <3> HIDE DEF Nodes
    <3> QED  BY ONLY <2>1, <2>2, <3>1, <3>2
  <2>4. \A i \in DOMAIN program : program[i].line <= last
    <3>1. \A i, j \in DOMAIN program : i <= j => program[i].line <= program[j].line
      BY DEF LinesOK, Live
    <3> QED  BY <2>1, <2>2, <2>3, <3>1
  <2>5. line = last \/ line = last + 1
    BY <1>2, <2>1, <2>2, <2>3 DEF NextLine, SomeLine
  <2> QED  BY <2>3, <2>4, <2>5
<1> QED  BY <1>1, <1>2

\* What a node that DefWalk reads looks like.
Wrote(node) ==
  /\ node.kind = "var" => \E x \in Names : node.names = <<x>>
  /\ node.kind \in Headed => node.names \in Seq(Names)
  /\ node.kind \in Headless => node.names = <<>>
  /\ node.kind = "subroutine" => open = <<>>
  /\ \A i \in DOMAIN program : program[i].line <= node.line

LEMMA NamesRead ==
  ASSUME IInv, NInv, IInv', NEW node, Reads(node), Wrote(node), pass = "DefWalk",
         UNCHANGED <<pass, at, named, resolved>>
  PROVE  /\ LinesOK' /\ NamedOK' /\ ResolvedOK'
         /\ \A j \in DOMAIN program' : ~Finished(j)'
         /\ \A j \in DOMAIN program : ~Finished(j)
<1>0. /\ TextOK /\ StackOK /\ IdentifiersOK /\ IdentifiersOK' /\ at = 1 /\ LinesOK /\ NamedOK
      /\ Live /\ Walking'
  BY DEF IInv, Rest, TextOK, NInv, Live, Walking
<1>1. PICK new : new = This
  OBVIOUS
<1>2. /\ Len(program) \in Nat /\ new = Len(program) + 1 /\ program'[new] = node /\ Len(program') = new
      /\ DOMAIN program = 1 .. Len(program) /\ DOMAIN program' = DOMAIN program \cup {new}
      /\ \A i \in DOMAIN program : program'[i] = program[i] /\ i \in 1 .. new /\ i < new
      /\ new \in Nat /\ new \in 1 .. new /\ node.line \in Nat
      /\ \A i \in DOMAIN program : program[i].line \in Nat
  <2>1. \A x \in Nodes : x.line \in Nat
    BY DEF Nodes
  <2>2. node \in Nodes
    BY DEF Reads
  <2>3. /\ Len(program) \in Nat /\ new = Len(program) + 1 /\ program'[new] = node /\ Len(program') = new
        /\ DOMAIN program = 1 .. Len(program) /\ DOMAIN program' = DOMAIN program \cup {new}
        /\ \A i \in DOMAIN program : program'[i] = program[i] /\ program[i] \in Nodes
    BY <1>1, TextGrows
  <2> HIDE DEF Nodes
  <2> QED  BY ONLY <2>1, <2>2, <2>3
<1>3. \A i \in 1 .. new : Depth'[i] = Depth[i]
  BY <1>1, DepthGrows
<1>4. ASSUME NEW i \in DOMAIN program', NEW j \in DOMAIN program', i <= j
      PROVE  program'[i].line <= program'[j].line
  <2>1. CASE j \in DOMAIN program
    <3>1. i \in DOMAIN program
      BY <1>2, <1>4, <2>1
    <3> QED  BY <1>0, <1>2, <1>4, <2>1, <3>1 DEF LinesOK
  <2>2. CASE j = new /\ i \in DOMAIN program
    BY <1>2, <2>2 DEF Wrote
  <2>3. CASE j = new /\ i = new
    BY <1>2, <2>3
  <2> QED  BY <1>2, <2>1, <2>2, <2>3
<1>5. ASSUME NEW i \in DOMAIN program' PROVE WrittenOK(i)'
  <2>1. CASE i \in DOMAIN program
    <3>1. WrittenOK(i) /\ program'[i] = program[i] /\ Depth'[i] = Depth[i]
      BY <1>0, <1>2, <1>3, <2>1 DEF LinesOK
    <3> QED  BY <3>1 DEF WrittenOK
  <2>2. CASE i = new
    <3>1. open = <<>> => Depth'[new] = 0
      <4>1. Around(new) /\ Depth'[new] = Depth[new]
        BY <1>0, <1>2, <1>3 DEF StackOK
      <4> QED  BY <4>1 DEF Around
    <3> HIDE DEF Headed, Headless
    <3> QED  BY <1>2, <2>2, <3>1 DEF WrittenOK, Wrote
  <2> QED  BY <1>2, <2>1, <2>2
<1>6. LinesOK'
  <2> HIDE DEF WrittenOK
  <2> QED  BY <1>4, <1>5 DEF LinesOK
<1>7. \A j \in DOMAIN program' : ~(j < 1)
  BY <1>2
<1>8. NamedOK'
  <2>1. ASSUME NEW i \in DOMAIN program', program'[i].kind = "subroutine", NEW k \in DOMAIN program'[i].names
        PROVE  <<i, k>> \notin named
    <3>1. CASE i \in DOMAIN program
      BY <1>0, <1>2, <1>7, <2>1, <3>1 DEF NamedOK
    <3>2. CASE i = new
      <4>1. \A sym \in named : sym \in (DOMAIN program) \X Nat
        <5>1. named \subseteq SymbolIds
          BY <1>0 DEF IdentifiersOK
        <5> HIDE DEF SymbolIds
        <5> QED  BY <5>1, SymbolsGrow
      <4> QED  BY <1>2, <3>2, <4>1
    <3> QED  BY <1>2, <3>1, <3>2
  <2> QED  BY <1>0, <1>7, <2>1 DEF NamedOK
<1>9. ResolvedOK'
  <2>1. Len(resolved') = 0 /\ Len(identifiers') = Len(program')
    BY <1>0 DEF IdentifiersOK
  <2> HIDE DEF Right
  <2> QED  BY <2>1 DEF ResolvedOK
<1>10. (\A j \in DOMAIN program' : ~Finished(j)') /\ \A j \in DOMAIN program : ~Finished(j)
  BY <1>0, <1>2, <1>7 DEF Finished
<1> QED  BY <1>6, <1>8, <1>9, <1>10

\* A node that does not declare subroutine f.
LEMMA ArgsKept ==
  ASSUME IInv, NInv, NEW node, Reads(node), pass = "DefWalk", NEW f \in Subroutines,
         subroutines'[f] = subroutines[f], ~(node.kind = "subroutine" /\ node.subroutine = f),
         \A j \in DOMAIN program' : ~Finished(j)', \A j \in DOMAIN program : ~Finished(j)
  PROVE  (Undeclared(f) \/ (\E j : DeclaredOnce(f, j)) \/ (\E j, k : DeclaredTwice(f, j, k)))'
<1>1. Declarations(f)' = Declarations(f)
  <2>1. Declarations(f)' = Declarations(f) \cup
          (IF node.kind = "subroutine" /\ node.subroutine = f THEN {This} ELSE {})
    BY BodiesGrow
  <2> HIDE DEF Declarations
  <2> QED  BY <2>1
<1>2. \A j \in Declarations(f) : /\ j \in DOMAIN program /\ j \in DOMAIN program' /\ Params(j)' = Params(j)
                                 /\ ~Finished(j) /\ ~Finished(j)'
  BY TextGrows DEF Declarations, Params
<1> HIDE DEF Declarations, Params, Finished
<1>3. Undeclared(f) => Undeclared(f)'
  BY <1>1 DEF Undeclared
<1>4. ASSUME NEW j, DeclaredOnce(f, j) PROVE DeclaredOnce(f, j)'
  BY <1>1, <1>2, <1>4 DEF DeclaredOnce
<1>5. ASSUME NEW j, NEW k, DeclaredTwice(f, j, k) PROVE DeclaredTwice(f, j, k)'
  <2>1. /\ Declarations(f) = {j, k} /\ j < k
        /\ subroutines[f].orderedArgs = Params(j) \o Params(k)
        /\ subroutines[f].numTimesDeclare = 2
    BY <1>2, <1>5 DEF DeclaredTwice
  <2>2. Params(j)' = Params(j) /\ Params(k)' = Params(k) /\ ~Finished(j)'
    BY <1>2, <2>1
  <2> QED  BY <1>1, <2>1, <2>2 DEF DeclaredTwice
<1> HIDE DEF Undeclared, DeclaredOnce, DeclaredTwice
<1>6. Undeclared(f) \/ (\E j : DeclaredOnce(f, j)) \/ (\E j, k : DeclaredTwice(f, j, k))
  BY DEF NInv, ArgsOK, Live
<1> QED  BY <1>3, <1>4, <1>5, <1>6

\* A node that declares no subroutine.
LEMMA ArgsRead ==
  ASSUME IInv, NInv, NEW node, Reads(node), pass = "DefWalk", UNCHANGED subroutines,
         node.kind # "subroutine",
         \A j \in DOMAIN program' : ~Finished(j)', \A j \in DOMAIN program : ~Finished(j)
  PROVE  ArgsOK'
<1>1. ASSUME NEW f \in Subroutines
      PROVE  (Undeclared(f) \/ (\E j : DeclaredOnce(f, j)) \/ (\E j, k : DeclaredTwice(f, j, k)))'
  BY ArgsKept
<1> HIDE DEF Undeclared, DeclaredOnce, DeclaredTwice
<1> QED  BY <1>1 DEF ArgsOK

\* An identifier that is looked up in the scope of the body being read.
LEMMA LocatedHere ==
  ASSUME IInv, pass = "DefWalk", NEW node, Reads(node), NEW new, new = This, NEW m, Placed(m),
         NEW n, \A b \in Bodies : n[b] = m[b], NEW s, s = currentScope, NEW k,
         node.kind \in {"var", "use", "iterator", "generator"}, UsedName(node, k) \in Names,
         k = 0 => node.kind # "generator"
  PROVE  Located(s, new, k, n)'
<1>1. TextOK /\ StackOK
  BY DEF IInv, Rest
<1>2. program'[new] = node /\ Body(new)' = Innermost
  <2>1. program'[new] = node /\ new \in 1 .. new
    BY TextGrows
  <2>2. Body(new)' = Body(new)
    BY <2>1, BodiesGrow
  <2>3. Body(new) = Innermost
    BY <1>1, BodyOfThis
  <2> QED  BY <2>1, <2>2, <2>3
<1>3. s = n[Innermost]
  <2>1. Innermost \in Bodies
    BY <1>1, DeclaredGrows
  <2>2. currentScope = m[Innermost]
    BY DEF Placed
  <2> HIDE DEF Innermost, Bodies
  <2> QED  BY <2>1, <2>2
<1> HIDE DEF Body, Innermost, UsedName
<1> QED  BY <1>2, <1>3 DEF Located

\* A node that opens no body and declares no subroutine.
LEMMA NamesPlain ==
  ASSUME IInv, NInv, IInv', NEW node, Reads(node), Wrote(node), ~HasBody(node), node.kind # "subroutine",
         pass = "DefWalk", UNCHANGED <<pass, at, named, resolved, subroutines>>, Keeps(node),
         \A m : Placed(m) => Placed(m)', NEW new, new = This,
         NEW ids \in Numberings, identifiers' = Append(identifiers, ids),
         \A m : Placed(m) /\ Laid(m) => \A k \in DOMAIN ids : Located(ids[k], new, k, m)'
  PROVE  NInv'
<1>1. PICK m : Placed(m) /\ Laid(m)
  BY DEF NInv, LaidOK
<1>2. Placed(m)' /\ \A k \in DOMAIN ids : Located(ids[k], new, k, m)'
  BY <1>1
<1>3. m \in [Bodies' -> 1 .. Len(scopes')]
  BY <1>2 DEF Placed
<1>4. \A f \in Subroutines :
        IF subroutines[f].scope # 0 THEN subroutines'[f].scope = subroutines[f].scope
        ELSE subroutines'[f].scope # 0 => OfSubroutine(f, m)'
  OBVIOUS
<1>5. Laid(m)'
  <2> HIDE DEF Located, OfSubroutine
  <2> QED  BY <1>1, <1>2, <1>3, <1>4, LaidReads
<1>6. /\ LinesOK' /\ NamedOK' /\ ResolvedOK'
      /\ \A j \in DOMAIN program' : ~Finished(j)'
      /\ \A j \in DOMAIN program : ~Finished(j)
  BY NamesRead
<1>7. ArgsOK'
  BY <1>6, ArgsRead
<1>8. LaidOK'
  BY <1>2, <1>5 DEF LaidOK
<1> QED  BY <1>6, <1>7, <1>8 DEF NInv

LEMMA KeepsTables ==
  ASSUME Extended, NEW node, node.kind # "var",
         \A s \in 1 .. Len(scopes) :
           scopes'[s].subroutine = scopes[s].subroutine /\ scopes'[s].symbols = scopes[s].symbols
  PROVE  Keeps(node)
BY DEF Keeps, Adds, InTable

LEMMA PlacedStays ==
  ASSUME IInv, pass = "DefWalk", NEW node, Reads(node), ~HasBody(node), Extended,
         UNCHANGED <<open, currentScope>>
  PROVE  \A m : Placed(m) => Placed(m)'
<1>1. TextOK /\ ScopesOK /\ StackOK
  BY DEF IInv, Rest
<1>2. Around(This)
  BY <1>1, TextGrows DEF StackOK
<1>3. ASSUME NEW m, Placed(m) PROVE Placed(m)'
  BY <1>1, <1>2, <1>3, PlacedPlain
<1> QED  BY <1>3

\* One that leaves the scopes as they are.
LEMMA NamesQuietly ==
  ASSUME IInv, NInv, IInv', NEW node, Reads(node), pass = "DefWalk",
         \E line : line = node.line /\ (line = NextLine \/ line \in SomeLine),
         node.kind \in {"use", "call", "break", "typedef"},
         UNCHANGED <<pass, at, named, resolved, subroutines, scopes, open, currentScope>>,
         NEW ids \in Numberings, identifiers' = Append(identifiers, ids),
         \A k \in DOMAIN ids : node.kind = "use" /\ k = 0 /\ ids[k] = currentScope /\ node.use \in Names
  PROVE  NInv'
<1>1. TextOK /\ ScopesOK /\ LinesOK
  BY DEF IInv, Rest, NInv
<1>2. Wrote(node) /\ ~HasBody(node) /\ node.kind # "subroutine" /\ node.kind # "var"
  <2>1. \A i \in DOMAIN program : program[i].line <= node.line
    BY <1>1, LinesGrow
  <2> QED  BY <2>1 DEF Wrote, Headed, Headless, HasBody, Openers
<1>3. Extended /\ Keeps(node)
  <2>1. Extended
    BY <1>1, Unextended
  <2> QED  BY <1>2, <2>1, KeepsTables
<1>4. \A m : Placed(m) => Placed(m)'
  BY <1>2, <1>3, PlacedStays
<1>5. PICK new : new = This
  OBVIOUS
<1>6. ASSUME NEW m, Placed(m), NEW k \in DOMAIN ids PROVE Located(ids[k], new, k, m)'
  <2>1. PICK s : s = ids[k]
    OBVIOUS
  <2>2. s = currentScope /\ k = 0 /\ node.kind = "use" /\ UsedName(node, k) \in Names
    BY <2>1 DEF UsedName
  <2>3. Located(s, new, k, m)'
    BY <1>5, <1>6, <2>2, LocatedHere
  <2> QED  BY <2>1, <2>3
<1> HIDE DEF Located
<1> QED  BY <1>2, <1>3, <1>4, <1>5, <1>6, NamesPlain

LEMMA NamesUseStep ==
  ASSUME IInv, NInv, VisitUse
  PROVE  NInv'
<1>0. IInv'
  BY UseStep
<1>1. PICK u, line, node :
        /\ u \in Names /\ line \in SomeLine
        /\ node = [Node("use", line) EXCEPT !.use = u]
        /\ Read(node) /\ Identify(Uses(node, currentScope))
        /\ UNCHANGED <<pass, open, scopes, currentScope, subroutines, typeSymbols, hasMainProcedure>>
  BY DEF VisitUse
<1>u. u \in Names /\ line \in SomeLine
  BY <1>1
<1> USE <1>u
<1>2. TextOK /\ ScopesOK
  BY DEF IInv, Rest
<1>3. node \in Nodes /\ node.kind = "use" /\ node.use = u /\ node.line = line
  <2>1. line \in Nat /\ "use" \in Kinds /\ <<>> \in Seq(Names \cup Typedefs) /\ <<>> \in Seq(Names)
    BY <1>2, LineFacts, EmptyLists DEF Kinds
  <2>2. node = [kind |-> "use", line |-> line, names |-> <<>>, domains |-> <<>>,
                use |-> u, subroutine |-> noName, body |-> FALSE, const |-> FALSE]
    BY <1>1 DEF Node
  <2> HIDE DEF noName, builtIn, Kinds
  <2> QED  BY <2>1, <2>2 DEF Nodes
<1>4. /\ Reads(node) /\ pass = "DefWalk" /\ Len(program) < shape[all]
      /\ UNCHANGED <<shape, at, named, resolved>>
  BY <1>1, <1>2, <1>3, ReadFacts
<1>5. currentScope \in Nat
  BY <1>2 DEF ScopesOK
<1>6. PICK ids : ids = Uses(node, currentScope)
  OBVIOUS
<1>7. /\ ids \in Numberings /\ identifiers' = Append(identifiers, ids)
      /\ \A k \in DOMAIN ids : ids[k] = currentScope /\ k = 0
  <2>1. ids \in Numberings /\ \A k \in DOMAIN ids : ids[k] = currentScope
    BY <1>5, <1>6, UsesNumbering
  <2>2. \A k \in DOMAIN ids : k = 0
    <3>1. u # noName
      BY NamesAre
    <3>2. ids = [k \in {0} |-> currentScope]
      BY <1>3, <1>6, <3>1 DEF Uses
    <3> QED  BY <3>2
  <2> QED  BY <1>1, <1>6, <2>1, <2>2 DEF Identify
<1> HIDE DEF SomeLine, NextLine
<1> QED  BY <1>0, <1>1, <1>3, <1>4, <1>7, NamesQuietly

LEMMA NamesCallRead ==
  ASSUME IInv, NInv, VisitCall
  PROVE  NInv'
<1>0. IInv'
  BY CallStep
<1>1. PICK f, node :
        /\ f \in Subroutines
        /\ node = [Node("call", NextLine) EXCEPT !.subroutine = f]
        /\ Read(node) /\ Identify(NoIdentifiers)
        /\ UNCHANGED <<pass, open, scopes, currentScope, subroutines, typeSymbols, hasMainProcedure>>
  BY DEF VisitCall
<1>u. f \in Subroutines
  BY <1>1
<1> USE <1>u
<1>2. TextOK /\ ScopesOK
  BY DEF IInv, Rest
<1>3. node \in Nodes /\ node.kind = "call" /\ node.line = NextLine
  <2>1. /\ NextLine \in Nat /\ "call" \in Kinds
        /\ <<>> \in Seq(Names \cup Typedefs) /\ <<>> \in Seq(Names)
    BY <1>2, LineFacts, EmptyLists DEF Kinds
  <2>2. node = [kind |-> "call", line |-> NextLine, names |-> <<>>, domains |-> <<>>,
                use |-> noName, subroutine |-> f, body |-> FALSE, const |-> FALSE]
    BY <1>1 DEF Node
  <2> HIDE DEF noName, builtIn, Kinds, NextLine
  <2> QED  BY <2>1, <2>2 DEF Nodes
<1>4. /\ Reads(node) /\ pass = "DefWalk" /\ UNCHANGED <<at, named, resolved>>
  BY <1>1, <1>2, <1>3, ReadFacts
<1>5. PICK ids : ids = NoIdentifiers
  OBVIOUS
<1>6. ids \in Numberings /\ DOMAIN ids = {} /\ identifiers' = Append(identifiers, ids)
  BY <1>1, <1>5, EmptyNumbering DEF Identify
<1> HIDE DEF SomeLine, NextLine
<1> QED  BY <1>0, <1>1, <1>3, <1>4, <1>6, NamesQuietly

LEMMA NamesBreakStep ==
  ASSUME IInv, NInv, VisitBreak
  PROVE  NInv'
<1>0. IInv'
  BY BreakStep
<1>1. PICK node : node = Node("break", NextLine)
  OBVIOUS
<1>2. /\ Read(node)
      /\ \/ Throw
         \/ Identify(NoIdentifiers) /\ UNCHANGED <<pass, open, scopes, currentScope,
                                         subroutines, typeSymbols, hasMainProcedure>>
  BY <1>1 DEF VisitBreak
<1>3. TextOK /\ ScopesOK
  BY DEF IInv, Rest
<1>4. node \in Nodes /\ node.kind = "break" /\ node.line = NextLine
  <2>1. NextLine \in Nat
    BY <1>3, LineFacts
  <2> HIDE DEF NextLine
  <2> QED  BY <1>1, <2>1 DEF Nodes, Node, Kinds
<1>5. /\ Reads(node) /\ pass = "DefWalk" /\ UNCHANGED <<at, named, resolved>>
  BY <1>2, <1>3, <1>4, ReadFacts
<1>6. CASE Throw
  BY <1>6, Dies DEF Throw
<1>7. CASE Identify(NoIdentifiers) /\ UNCHANGED <<pass, open, scopes, currentScope,
                                         subroutines, typeSymbols, hasMainProcedure>>
  <2>1. PICK ids : ids = NoIdentifiers
    OBVIOUS
  <2>2. ids \in Numberings /\ DOMAIN ids = {} /\ identifiers' = Append(identifiers, ids)
    BY <1>7, <2>1, EmptyNumbering DEF Identify
  <2> HIDE DEF SomeLine, NextLine
  <2> QED  BY <1>0, <1>4, <1>5, <1>7, <2>2, NamesQuietly
<1> QED  BY <1>2, <1>6, <1>7

LEMMA NamesTypedefRead ==
  ASSUME IInv, NInv, VisitTypedefStatement
  PROVE  NInv'
<1>0. IInv'
  BY TypedefStep
<1>1. PICK t, target, node :
        /\ t \in Typedefs /\ target \in Typedefs \cup {builtIn}
        /\ node = [Node("typedef", NextLine) EXCEPT !.names = <<t>>, !.use = target]
        /\ Read(node)
        /\ t \in DOMAIN typeSymbols => Throw
        /\ t \notin DOMAIN typeSymbols =>
             /\ Identify(NoIdentifiers)
             /\ UNCHANGED <<pass, open, scopes, currentScope, subroutines, hasMainProcedure>>
  BY DEF VisitTypedefStatement
<1>u. t \in Typedefs /\ target \in Typedefs \cup {builtIn}
  BY <1>1
<1> USE <1>u
<1>2. TextOK /\ ScopesOK
  BY DEF IInv, Rest
<1>3. node \in Nodes /\ node.kind = "typedef" /\ node.line = NextLine
  <2>1. /\ NextLine \in Nat /\ "typedef" \in Kinds
        /\ <<t>> \in Seq(Names \cup Typedefs) /\ <<>> \in Seq(Names)
    BY <1>2, LineFacts, EmptyLists DEF Kinds, Openers
  <2>2. node = [kind |-> "typedef", line |-> NextLine, names |-> <<t>>, domains |-> <<>>,
                use |-> target, subroutine |-> noName, body |-> FALSE, const |-> FALSE]
    BY <1>1 DEF Node
  <2> HIDE DEF noName, builtIn, Kinds, NextLine
  <2> QED  BY <2>1, <2>2 DEF Nodes
<1>4. /\ Reads(node) /\ pass = "DefWalk" /\ UNCHANGED <<at, named, resolved>>
  BY <1>1, <1>2, <1>3, ReadFacts
<1>5. CASE t \in DOMAIN typeSymbols
  BY <1>1, <1>5, Dies DEF Throw
<1>6. CASE t \notin DOMAIN typeSymbols
  <2>1. PICK ids : ids = NoIdentifiers
    OBVIOUS
  <2>2. /\ ids \in Numberings /\ DOMAIN ids = {} /\ identifiers' = Append(identifiers, ids)
        /\ UNCHANGED <<pass, open, scopes, currentScope, subroutines>>
    BY <1>1, <1>6, <2>1, EmptyNumbering DEF Identify
  <2> HIDE DEF SomeLine, NextLine
  <2> QED  BY <1>0, <1>3, <1>4, <2>2, NamesQuietly
<1> QED  BY <1>5, <1>6

LEMMA NamesReturnStep ==
  ASSUME IInv, NInv, VisitReturn
  PROVE  NInv'
<1>0. IInv'
  BY ReturnStep
<1>1. PICK node : node = Node("return", NextLine)
  OBVIOUS
<1>2. /\ Read(node) /\ Identify(NoIdentifiers)
      /\ scopes' = [scopes EXCEPT ![currentScope].containReturn = TRUE]
      /\ UNCHANGED <<pass, open, currentScope, subroutines, typeSymbols, hasMainProcedure>>
  BY <1>1 DEF VisitReturn
<1>3. TextOK /\ ScopesOK /\ LinesOK
  BY DEF IInv, Rest, NInv
<1>4. node \in Nodes /\ node.kind = "return" /\ node.line = NextLine
  <2>1. NextLine \in Nat
    BY <1>3, LineFacts
  <2> HIDE DEF NextLine
  <2> QED  BY <1>1, <2>1 DEF Nodes, Node, Kinds
<1>5. /\ Reads(node) /\ pass = "DefWalk" /\ UNCHANGED <<at, named, resolved>>
  BY <1>2, <1>3, <1>4, ReadFacts
<1>6. /\ Len(scopes') = Len(scopes) /\ Len(scopes) \in Nat
      /\ \A s \in 1 .. Len(scopes) :
           /\ scopes'[s].enclosingScope = scopes[s].enclosingScope
           /\ scopes'[s].subroutine = scopes[s].subroutine /\ scopes'[s].symbols = scopes[s].symbols
  <2>1. scopes[currentScope] \in ScopeRecords /\ scopes \in Seq(ScopeRecords)
    BY <1>3, ElementOfSeq DEF ScopesOK
  <2> DEFINE r == [scopes[currentScope] EXCEPT !.containReturn = TRUE]
  <2>2. /\ r \in ScopeRecords /\ r.enclosingScope = scopes[currentScope].enclosingScope
        /\ r.symbols = scopes[currentScope].symbols /\ r.subroutine = scopes[currentScope].subroutine
    BY <2>1 DEF ScopeRecords
  <2>3. scopes' = [scopes EXCEPT ![currentScope] = r]
    BY <1>2
  <2> HIDE DEF r
  <2>4. /\ Len(scopes') = Len(scopes) /\ Len(scopes) \in Nat
        /\ \A s \in 1 .. Len(scopes) : scopes'[s] = IF s = currentScope THEN r ELSE scopes[s]
    <3>1. currentScope \in 1 .. Len(scopes)
      BY <1>3 DEF ScopesOK
    <3> HIDE DEF ScopeRecords
    <3> QED  BY <2>1, <2>2, <2>3, <3>1, SetElement
  <2> QED  BY <2>2, <2>4
<1>7. Wrote(node) /\ ~HasBody(node) /\ node.kind # "subroutine" /\ node.kind # "var"
  <2>1. \A i \in DOMAIN program : program[i].line <= node.line
    BY <1>3, <1>4, <1>5, LinesGrow
  <2> QED  BY <1>4, <2>1 DEF Wrote, Headed, Headless, HasBody, Openers
<1>8. Extended /\ Keeps(node)
  <2>1. Extended
    BY <1>6 DEF Extended
  <2> QED  BY <1>6, <1>7, <2>1, KeepsTables
<1>9. \A m : Placed(m) => Placed(m)'
  BY <1>2, <1>5, <1>7, <1>8, PlacedStays
<1>10. PICK ids, new : ids = NoIdentifiers /\ new = This
  OBVIOUS
<1>11. ids \in Numberings /\ DOMAIN ids = {} /\ identifiers' = Append(identifiers, ids)
  BY <1>2, <1>10, EmptyNumbering DEF Identify
<1> HIDE DEF Located
<1> QED  BY <1>0, <1>2, <1>5, <1>7, <1>8, <1>9, <1>10, <1>11, NamesPlain

LEMMA NamesLeaveRead ==
  ASSUME IInv, NInv, Leave
  PROVE  NInv'
<1>0. IInv'
  BY LeaveStep
<1>1. PICK node, kind :
        /\ node = Node("close", NextLine) /\ kind = program[Last(open)].kind
        /\ ~AtGlobal /\ Read(node) /\ Identify(NoIdentifiers)
        /\ scopes' = Marked(kind) /\ currentScope' = PoppedScope(kind)
        /\ open' = Front(open)
        /\ UNCHANGED <<pass, subroutines, typeSymbols, hasMainProcedure>>
  BY DEF Leave
<1>2. TextOK /\ ScopesOK /\ StackOK /\ LinesOK
  BY DEF IInv, Rest, NInv
<1>3. node \in Nodes /\ node.kind = "close" /\ node.line = NextLine
  <2>1. NextLine \in Nat
    BY <1>2, LineFacts
  <2> HIDE DEF NextLine
  <2> QED  BY <1>1, <2>1 DEF Nodes, Node, Kinds
<1>4. /\ Reads(node) /\ pass = "DefWalk" /\ UNCHANGED <<at, named, resolved>>
  BY <1>1, <1>2, <1>3, ReadFacts
<1>5. /\ Len(scopes') = Len(scopes) /\ Len(scopes) \in Nat
      /\ \A s \in 1 .. Len(scopes) :
           /\ scopes'[s].enclosingScope = scopes[s].enclosingScope
           /\ scopes'[s].subroutine = scopes[s].subroutine /\ scopes'[s].symbols = scopes[s].symbols
  <2>1. /\ scopes[currentScope] \in ScopeRecords /\ scopes \in Seq(ScopeRecords)
        /\ currentScope \in 1 .. Len(scopes)
    BY <1>2, ElementOfSeq DEF ScopesOK
  <2> DEFINE q == scopes[currentScope]
             r == [q EXCEPT !.parentIsLoop = @ \/ kind \in {"loop", "iterator"},
                            !.parentIsConditional = @ \/ kind = "conditional"]
  <2>2. /\ r \in ScopeRecords /\ r.enclosingScope = q.enclosingScope
        /\ r.symbols = q.symbols /\ r.subroutine = q.subroutine
    BY <2>1 DEF ScopeRecords
  <2>3. scopes' = [scopes EXCEPT ![currentScope] = r]
    BY <1>1, <2>1 DEF Marked
  <2> HIDE DEF r
  <2>4. /\ Len(scopes') = Len(scopes) /\ Len(scopes) \in Nat
        /\ \A s \in 1 .. Len(scopes) : scopes'[s] = IF s = currentScope THEN r ELSE scopes[s]
    <3> HIDE DEF ScopeRecords
    <3> QED  BY <2>1, <2>2, <2>3, SetElement
  <2> QED  BY <2>2, <2>4
<1>6. Wrote(node) /\ ~HasBody(node) /\ node.kind # "subroutine" /\ node.kind # "var"
  <2>1. \A i \in DOMAIN program : program[i].line <= node.line
    BY <1>2, <1>3, <1>4, LinesGrow
  <2> QED  BY <1>3, <2>1 DEF Wrote, Headed, Headless, HasBody, Openers
<1>7. Extended /\ Keeps(node)
  <2>1. Extended
    BY <1>5 DEF Extended
  <2> QED  BY <1>5, <1>6, <2>1, KeepsTables
<1>8. ASSUME NEW m, Placed(m) PROVE Placed(m)'
  <2>1. Around(This)
    BY <1>2, <1>4, TextGrows DEF StackOK
  <2>2. currentScope' = ScopeOutside(scopes, currentScope, kind) /\ open # <<>>
    BY <1>1 DEF PoppedScope, ScopeOutside, AtGlobal
  <2> QED  BY <1>1, <1>2, <1>4, <1>6, <1>7, <1>8, <2>1, <2>2, PlacedCloses
<1>9. PICK ids, new : ids = NoIdentifiers /\ new = This
  OBVIOUS
<1>10. ids \in Numberings /\ DOMAIN ids = {} /\ identifiers' = Append(identifiers, ids)
  BY <1>1, <1>9, EmptyNumbering DEF Identify
<1> HIDE DEF Located
<1> QED  BY <1>0, <1>1, <1>4, <1>6, <1>7, <1>8, <1>9, <1>10, NamesPlain

LEMMA NamesVariableStep ==
  ASSUME IInv, NInv, VisitVariableDeclaration
  PROVE  NInv'
<1>0. IInv'
  BY VariableStep
<1>1. PICK n, u, line, const, node :
        /\ n \in Names /\ u \in Names \cup {noName} /\ line \in SomeLine /\ const \in BOOLEAN
        /\ node = [Node("var", line) EXCEPT !.names = <<n>>, !.use = u, !.const = const]
        /\ Read(node)
        /\ \/ Throw
           \/ /\ n \notin DOMAIN scopes[currentScope].symbols
              /\ scopes' = Define(scopes, currentScope, n, <<This, 1>>)
              /\ Identify(Uses(node, currentScope))
              /\ UNCHANGED <<pass, open, currentScope, subroutines, typeSymbols, hasMainProcedure>>
  BY DEF VisitVariableDeclaration
<1>u. n \in Names /\ u \in Names \cup {noName} /\ line \in SomeLine /\ const \in BOOLEAN
  BY <1>1
<1> USE <1>u
<1>2. TextOK /\ ScopesOK /\ LinesOK
  BY DEF IInv, Rest, NInv
<1>3. node \in Nodes /\ node.kind = "var" /\ node.names = <<n>> /\ node.use = u /\ node.line = line
  <2>1. line \in Nat /\ "var" \in Kinds /\ <<n>> \in Seq(Names \cup Typedefs) /\ <<>> \in Seq(Names)
    BY <1>2, LineFacts, EmptyLists DEF Kinds
  <2>2. node = [kind |-> "var", line |-> line, names |-> <<n>>, domains |-> <<>>,
                use |-> u, subroutine |-> noName, body |-> FALSE, const |-> const]
    BY <1>1 DEF Node
  <2> HIDE DEF noName, builtIn, Kinds, SomeLine
  <2>3. node \in Nodes
    BY <2>1, <2>2 DEF Nodes
  <2> QED  BY <2>2, <2>3
<1>4. /\ Reads(node) /\ pass = "DefWalk" /\ UNCHANGED <<at, named, resolved>>
  BY <1>1, <1>2, <1>3, ReadFacts
<1>5. CASE Throw
  BY <1>5, Dies DEF Throw
<1>6. CASE /\ n \notin DOMAIN scopes[currentScope].symbols
           /\ scopes' = Define(scopes, currentScope, n, <<This, 1>>)
           /\ Identify(Uses(node, currentScope))
           /\ UNCHANGED <<pass, open, currentScope, subroutines, typeSymbols, hasMainProcedure>>
  <2>1. PICK new, s, ss, sym, tt :
          new = This /\ s = currentScope /\ ss = scopes /\ sym = <<new, 1>> /\ tt = Define(ss, s, n, sym)
    OBVIOUS
  <2>2. /\ s \in 1 .. Len(ss) /\ ss \in Seq(ScopeRecords) /\ Len(scopes) \in Nat /\ currentScope \in Nat
        /\ sym \in Nat \X Nat /\ scopes' = tt
    <3>1. This \in Nat
      BY <1>4, TextGrows
    <3>2. s \in 1 .. Len(ss) /\ ss \in Seq(ScopeRecords) /\ Len(scopes) \in Nat /\ currentScope \in Nat
      BY <1>2, <2>1 DEF ScopesOK
    <3>3. scopes' = tt
      BY <1>6, <2>1
    <3> QED  BY <2>1, <3>1, <3>2, <3>3
  <2>3. /\ Len(tt) = Len(ss)
        /\ \A r \in 1 .. Len(ss) : SameButTable(tt[r], ss[r])
        /\ \A r \in 1 .. Len(ss) : r # s => tt[r].symbols = ss[r].symbols
        /\ DOMAIN tt[s].symbols = DOMAIN ss[s].symbols \cup {n}
        /\ \A x \in DOMAIN tt[s].symbols :
             tt[s].symbols[x] = IF x \in DOMAIN ss[s].symbols THEN ss[s].symbols[x] ELSE sym
    <3>1. /\ ss \in Seq(ScopeRecords) /\ s \in 1 .. Len(ss) /\ n \in Names /\ sym \in Nat \X Nat
          /\ tt = Define(ss, s, n, sym)
      BY <2>1, <2>2
    <3> HIDE DEF ScopeRecords, SameButTable, Define
    <3> QED  BY ONLY <3>1, DefineTable, SMTT(30)
  <2>4. Extended
    <3>1. Len(scopes') = Len(scopes) /\ Len(scopes) \in Nat
      BY <2>1, <2>2, <2>3
    <3>2. \A r \in 1 .. Len(scopes) : scopes'[r].enclosingScope = scopes[r].enclosingScope
      BY <2>1, <2>2, <2>3 DEF SameButTable
    <3> QED  BY <3>1, <3>2 DEF Extended
  <2>5. ASSUME NEW r \in 1 .. Len(scopes), NEW x \in Names
        PROVE  /\ InTable(r, x)' = IF Adds(node, r, x) THEN sym ELSE InTable(r, x)
               /\ Adds(node, r, x) => InTable(r, x) = nullptr
    <3>1. Adds(node, r, x) <=> r = s /\ x = n
      <4>1. <<n>> = <<x>> <=> x = n
        OBVIOUS
      <4> QED  BY <1>3, <2>1, <4>1 DEF Adds
    <3>2. CASE r # s
      BY <2>1, <2>2, <2>3, <3>1, <3>2 DEF InTable
    <3>3. CASE r = s
      <4>1. n \notin DOMAIN ss[s].symbols
        BY <1>6, <2>1
      <4> HIDE DEF nullptr
      <4> QED  BY <2>1, <2>2, <2>3, <3>1, <3>3, <4>1 DEF InTable
    <3> QED  BY <3>2, <3>3
  <2>6. Keeps(node)
    <3>1. \A r \in 1 .. Len(scopes) : scopes'[r].subroutine = scopes[r].subroutine
      BY <2>1, <2>2, <2>3 DEF SameButTable
    <3> HIDE DEF InTable, Adds, nullptr
    <3> QED  BY <2>1, <2>4, <2>5, <3>1 DEF Keeps
  <2>7. Wrote(node) /\ ~HasBody(node) /\ node.kind # "subroutine"
    <3>1. \A i \in DOMAIN program : program[i].line <= node.line
      BY <1>2, <1>3, <1>4, LinesGrow
    <3> QED  BY <1>3, <3>1 DEF Wrote, Headed, Headless, HasBody, Openers
  <2>8. \A m : Placed(m) => Placed(m)'
    BY <1>4, <1>6, <2>4, <2>7, PlacedStays
  <2>9. PICK ids : ids = Uses(node, currentScope)
    OBVIOUS
  <2>10. /\ ids \in Numberings /\ identifiers' = Append(identifiers, ids)
         /\ \A k \in DOMAIN ids : ids[k] = s /\ k = 0 /\ u # noName
    <3>1. ids \in Numberings /\ \A k \in DOMAIN ids : ids[k] = currentScope
      BY <2>2, <2>9, UsesNumbering
    <3>2. ASSUME NEW k \in DOMAIN ids PROVE k = 0 /\ u # noName
      <4>1. CASE u = noName
        <5>1. ids = NoIdentifiers
          BY <1>3, <2>9, <4>1 DEF Uses
        <5> QED  BY <5>1, <3>2, EmptyNumbering
      <4>2. CASE u # noName
        <5>1. ids = [j \in {0} |-> currentScope]
          BY <1>3, <2>9, <4>2 DEF Uses
        <5> QED  BY <4>2, <5>1
      <4> QED  BY <4>1, <4>2
    <3> QED  BY <1>6, <2>1, <2>9, <3>1, <3>2 DEF Identify
  <2>11. ASSUME NEW m, Placed(m), NEW k \in DOMAIN ids PROVE Located(ids[k], new, k, m)'
    <3>1. ids[k] = s /\ k = 0 /\ u # noName
      BY <2>10
    <3>2. UsedName(node, k) \in Names
      BY <1>3, <3>1 DEF UsedName
    <3>3. Located(s, new, k, m)'
      <4> HIDE DEF UsedName
      <4> QED  BY <1>3, <1>4, <2>1, <2>11, <3>2, LocatedHere
    <3> QED  BY <3>1, <3>3
  <2> HIDE DEF Located
  <2> QED  BY <1>0, <1>4, <1>6, <2>1, <2>6, <2>7, <2>8, <2>10, <2>11, NamesPlain
<1> QED  BY <1>1, <1>5, <1>6

\* The scope that DefWalk makes for a header has its names, each with the
\* symbol that the header gives it.
LEMMA HeaderTable ==
  ASSUME TextOK, ScopesOK, NEW node, Reads(node), node.names \in Seq(Names),
         NEW tt, tt = WithHeader(node), NEW own, own = Len(scopes) + 1, NEW new, new = This
  PROVE  /\ tt[own].subroutine = noName
         /\ \A x \in Names :
              (IF x \in DOMAIN tt[own].symbols THEN tt[own].symbols[x] ELSE nullptr) = InHeader(new, x)'
<1>0. PICK inner, t : /\ inner = Append(scopes, LocalScope(currentScope))
                      /\ t = [n \in Range(node.names) |-> <<This, SelectInSeq(node.names, LAMBDA m : m = n)>>]
  OBVIOUS
<1>1. PICK x : x = LocalScope(currentScope)
  OBVIOUS
<1>2. currentScope \in Nat /\ scopes \in Seq(ScopeRecords)
  BY DEF ScopesOK
<1>3. x \in ScopeRecords /\ x.subroutine = noName
  BY <1>1, <1>2, NewLocalScope
<1>4. inner \in Seq(ScopeRecords) /\ Len(inner) = own /\ inner[own] = x /\ own \in 1 .. Len(inner)
  <2>1. inner = Append(scopes, x)
    BY <1>0, <1>1
  <2>2. /\ inner \in Seq(ScopeRecords) /\ Len(inner) = own /\ inner[own] = x
        /\ own \in DOMAIN inner /\ DOMAIN inner = 1 .. Len(inner)
    <3> HIDE DEF ScopeRecords
    <3> QED  BY <1>2, <1>3, <2>1, AppendFacts
  <2> QED  BY <2>2
<1>5. tt[own] = [x EXCEPT !.symbols = t]
  <2>1. tt = [inner EXCEPT ![own].symbols = t]
    BY <1>0 DEF WithHeader, DefineDomains
  <2> HIDE DEF ScopeRecords
  <2> QED  BY <1>4, <2>1
<1>6. tt[own].subroutine = noName /\ tt[own].symbols = t
  BY <1>3, <1>5 DEF ScopeRecords
<1>7. ASSUME NEW y \in Names
      PROVE  (IF y \in DOMAIN t THEN t[y] ELSE nullptr) = InHeader(new, y)'
  <2> DEFINE found == {k \in 1 .. Len(node.names) : node.names[k] = y}
  <2>1. program'[new] = node
    BY TextGrows
  <2>2. InHeader(new, y)' = IF FirstOf(found) = 0 THEN nullptr ELSE <<new, FirstOf(found)>>
    BY <2>1 DEF InHeader, SelectInSeq, FirstOf
  <2>3. SelectInSeq(node.names, LAMBDA m : m = y) = FirstOf(found)
    BY DEF SelectInSeq, FirstOf
  <2>4. found \in SUBSET (1 .. Len(node.names)) /\ Len(node.names) \in Nat
    OBVIOUS
  <2>5. y \in DOMAIN t <=> found # {}
    <3>1. DOMAIN t = Range(node.names) /\ DOMAIN node.names = 1 .. Len(node.names)
      BY <1>0
    <3> QED  BY <3>1 DEF Range
  <2>6. found = {} <=> FirstOf(found) = 0
    <3> HIDE DEF found
    <3>1. PICK n, I : n = Len(node.names) /\ I = found
      OBVIOUS
    <3>2. n \in Nat /\ I \in SUBSET (1 .. n)
      BY <2>4, <3>1
    <3>3. (I = {} => FirstOf(I) = 0) /\ (I # {} => FirstOf(I) \in 1 .. n)
      BY ONLY <3>2, FirstIsIn
    <3> QED  BY <3>1, <3>2, <3>3
  <2>7. y \in DOMAIN t => t[y] = <<new, FirstOf(found)>>
    <3>1. y \in DOMAIN t => t[y] = <<This, SelectInSeq(node.names, LAMBDA m : m = y)>>
      BY <1>0
    <3> HIDE DEF found, This
    <3> QED  BY <2>3, <3>1, Zenon
  <2> HIDE DEF found, nullptr, InHeader
  <2> QED  BY <2>2, <2>5, <2>6, <2>7
<1> HIDE DEF InHeader, nullptr
<1> QED  BY <1>6, <1>7

LEMMA NamesGeneratorStep ==
  ASSUME IInv, NInv, VisitGenerator
  PROVE  NInv'
<1>0. IInv'
  BY GeneratorStep
<1>a. PICK n, d, u, node :
        /\ n \in Names /\ d \in Names /\ u \in Names
        /\ node = [Node("generator", NextLine) EXCEPT !.names = <<n>>, !.domains = <<d>>, !.use = u]
        /\ LET own == Len(scopes) + 1
               inner == Append(scopes, LocalScope(currentScope))
           IN  /\ Read(node) /\ scopes' = DefineDomains(inner, own, node)
               /\ Identify([k \in {0, 1} |-> IF k = 0 THEN own ELSE DomainScope(inner, own)])
        /\ UNCHANGED <<pass, open, currentScope, subroutines, typeSymbols, hasMainProcedure>>
  BY DEF VisitGenerator
<1>u. n \in Names /\ d \in Names /\ u \in Names
  BY <1>a
<1>b. PICK own, inner : own = Len(scopes) + 1 /\ inner = Append(scopes, LocalScope(currentScope))
  OBVIOUS
<1>1. /\ node = [Node("generator", NextLine) EXCEPT !.names = <<n>>, !.domains = <<d>>, !.use = u]
      /\ own = Len(scopes) + 1 /\ inner = Append(scopes, LocalScope(currentScope))
      /\ Read(node) /\ scopes' = DefineDomains(inner, own, node)
      /\ Identify([k \in {0, 1} |-> IF k = 0 THEN own ELSE DomainScope(inner, own)])
      /\ UNCHANGED <<pass, open, currentScope, subroutines, typeSymbols, hasMainProcedure>>
  BY <1>a, <1>b
<1> USE <1>u
<1>2. TextOK /\ ScopesOK /\ LinesOK /\ StackOK
  BY DEF IInv, Rest, NInv
<1>3. /\ node \in Nodes /\ node.kind = "generator" /\ node.names \in Seq(Names)
      /\ node.domains = <<d>> /\ node.use = u /\ node.line = NextLine
  <2>1. /\ NextLine \in Nat /\ "generator" \in Kinds
        /\ <<n>> \in Seq(Names \cup Typedefs) /\ <<n>> \in Seq(Names) /\ <<d>> \in Seq(Names)
    BY <1>2, LineFacts, EmptyLists DEF Kinds
  <2>2. node = [kind |-> "generator", line |-> NextLine, names |-> <<n>>, domains |-> <<d>>,
                use |-> u, subroutine |-> noName, body |-> FALSE, const |-> FALSE]
    BY <1>1 DEF Node
  <2> HIDE DEF noName, builtIn, Kinds, NextLine
  <2> QED  BY <2>1, <2>2 DEF Nodes
<1>4. /\ Reads(node) /\ pass = "DefWalk" /\ UNCHANGED <<at, named, resolved>>
  BY <1>1, <1>2, <1>3, ReadFacts
<1>5. PICK tt, new, s : tt = WithHeader(node) /\ new = This /\ s = currentScope
  OBVIOUS
<1>6. /\ scopes' = tt /\ Len(tt) = own
      /\ \A r \in 1 .. Len(scopes) :
           SameButTable(tt[r], scopes[r]) /\ tt[r].symbols = scopes[r].symbols
      /\ tt[own].enclosingScope = currentScope /\ own \in 1 .. Len(tt) /\ own \in Nat
      /\ DomainScope(inner, own) = currentScope
      /\ Len(scopes) \in Nat /\ currentScope \in 1 .. Len(scopes) /\ currentScope \in Nat
  <2>1. TextOK /\ ScopesOK /\ Reads(node) /\ node.names \in Seq(Names)
    BY <1>2, <1>3, <1>4
  <2> HIDE DEF SymbolIds
  <2>2. /\ tt \in Seq(ScopeRecords) /\ Len(tt) = Len(scopes) + 1
        /\ \A r \in 1 .. Len(scopes) :
             SameButTable(tt[r], scopes[r]) /\ tt[r].symbols = scopes[r].symbols
        /\ \A r \in Len(scopes) + 1 .. Len(tt) :
             /\ tt[r].enclosingScope = currentScope /\ Unmarked(tt[r])
             /\ \A x \in DOMAIN tt[r].symbols : tt[r].symbols[x] \in SymbolIds'
        /\ DomainScope(Append(scopes, LocalScope(currentScope)), Len(scopes) + 1) = currentScope
        /\ Len(scopes) \in Nat /\ currentScope \in 1 .. Len(scopes) /\ currentScope \in Nat
    BY ONLY <2>1, <1>5, HeaderScope
  <2>3. scopes' = tt /\ DomainScope(inner, own) = currentScope
    BY <1>1, <1>5, <2>2 DEF WithHeader
  <2>4. own \in Len(scopes) + 1 .. Len(tt) /\ own \in 1 .. Len(tt) /\ own \in Nat
    BY <1>1, <2>2
  <2> QED  BY <1>1, <2>2, <2>3, <2>4
<1>7. /\ tt[own].subroutine = noName
      /\ \A x \in Names : InTable(own, x)' = InHeader(new, x)'
  <2>1. /\ tt[own].subroutine = noName
        /\ \A x \in Names :
             (IF x \in DOMAIN tt[own].symbols THEN tt[own].symbols[x] ELSE nullptr) = InHeader(new, x)'
    <3>1. /\ TextOK /\ ScopesOK /\ Reads(node) /\ node.names \in Seq(Names) /\ tt = WithHeader(node)
          /\ own = Len(scopes) + 1 /\ new = This
      BY <1>1, <1>2, <1>3, <1>4, <1>5
    <3> HIDE DEF InHeader, nullptr
    <3> QED  BY ONLY <3>1, HeaderTable
  <2>2. \A x : InTable(own, x)' = IF x \in DOMAIN tt[own].symbols THEN tt[own].symbols[x] ELSE nullptr
    BY <1>6 DEF InTable
  <2> HIDE DEF InTable, InHeader, nullptr
  <2> QED  BY <2>1, <2>2
<1>8. Extended
  BY <1>1, <1>6 DEF Extended, SameButTable
<1>9. Wrote(node) /\ ~HasBody(node) /\ node.kind # "subroutine" /\ node.kind # "var"
  <2>1. \A i \in DOMAIN program : program[i].line <= node.line
    BY <1>2, <1>3, <1>4, LinesGrow
  <2> QED  BY <1>3, <2>1 DEF Wrote, Headed, Headless, HasBody, Openers
<1>10. Keeps(node)
  BY <1>6, <1>8, <1>9, KeepsTables DEF SameButTable
<1>11. \A m : Placed(m) => Placed(m)'
  BY <1>1, <1>4, <1>8, <1>9, PlacedStays
<1>12. PICK ids : ids = [k \in {0, 1} |-> IF k = 0 THEN own ELSE s]
  OBVIOUS
<1>13. ids \in Numberings /\ identifiers' = Append(identifiers, ids)
  <2>1. ids \in [{0, 1} -> Nat] /\ {0, 1} \in SUBSET Nat
    BY <1>5, <1>6, <1>12
  <2>2. identifiers' = Append(identifiers, ids)
    BY <1>1, <1>5, <1>6, <1>12 DEF Identify
  <2> QED  BY <2>1, <2>2 DEF Numberings
<1>14. ASSUME NEW m, Placed(m), NEW k \in DOMAIN ids PROVE Located(ids[k], new, k, m)'
  <2>1. CASE k = 0
    <3>1. /\ program'[new] = node /\ new \in 1 .. new /\ Bodies' = Bodies
          /\ Body(new)' = Body(new) /\ Body(new) = Innermost
      <4>1. program'[new] = node /\ new \in 1 .. new
        BY <1>4, <1>5, TextGrows
      <4>2. \A i \in 1 .. new : Body(i)' = Body(i)
        BY <1>2, <1>4, <1>5, BodiesGrow
      <4>3. Bodies' = Bodies
        BY <1>2, <1>4, <1>9, BodiesGrow
      <4>4. Body(new) = Innermost
        BY <1>2, <1>4, <1>5, BodyOfThis
      <4> QED  BY <4>1, <4>2, <4>3, <4>4
    <3>2. m \in [Bodies -> 1 .. Len(scopes)] /\ currentScope = m[Innermost]
      BY <1>14 DEF Placed
    <3>3. \A b \in Bodies' : m[b] # own
      <4> HIDE DEF Bodies
      <4> QED  BY <1>1, <1>6, <3>1, <3>2
    <3>4. Heads(own, new, m)'
      <4>1. scopes'[own].enclosingScope = m[Body(new)'] /\ scopes'[own].subroutine = noName
            /\ own \in 1 .. Len(scopes')
        BY <1>6, <1>7, <3>1, <3>2
      <4> HIDE DEF Bodies, Body, InTable, InHeader, Innermost
      <4> QED  BY <1>7, <3>3, <4>1 DEF Heads
    <3>5. UsedName(node, k) \in Names /\ ids[k] = own
      BY <1>3, <1>12, <2>1 DEF UsedName
    <3>6. Located(own, new, k, m)'
      <4> HIDE DEF Heads, Body, UsedName
      <4> QED  BY <1>3, <2>1, <3>1, <3>4, <3>5 DEF Located
    <3> HIDE DEF Located
    <3> QED  BY <3>5, <3>6
  <2>2. CASE k # 0
    <3>1. ids[k] = s /\ k = 1
      BY <1>12, <2>2
    <3>2. UsedName(node, k) \in Names
      BY <1>3, <3>1 DEF UsedName
    <3>3. Located(s, new, k, m)'
      <4> HIDE DEF UsedName
      <4> QED  BY <1>3, <1>4, <1>5, <1>14, <2>2, <3>2, LocatedHere
    <3> QED  BY <3>1, <3>3
  <2> QED  BY <2>1, <2>2
<1> HIDE DEF Located
<1> QED  BY <1>0, <1>1, <1>4, <1>5, <1>9, <1>10, <1>11, <1>13, <1>14, NamesPlain

\* With the body that opens at the node, whose scope is c.
Opens(n, m, new, c) ==
  n \in [Bodies' -> 1 .. Len(scopes')] /\ n[new] = c /\ \A b \in Bodies : n[b] = m[b]

LEMMA NamesOpens ==
  ASSUME IInv, NInv, IInv', NEW node, Reads(node), Wrote(node), HasBody(node), ArgsOK',
         pass = "DefWalk", UNCHANGED <<pass, at, named, resolved>>, Keeps(node),
         NEW new, new = This, open' = Append(open, This),
         NEW c \in Len(scopes) + 1 .. Len(scopes'), currentScope' = c,
         scopes'[c].enclosingScope # 0, ScopeOutside(scopes', c, node.kind) = currentScope,
         scopes'[c].subroutine = noName, \A x \in Names : InTable(c, x)' = nullptr,
         NEW ids \in Numberings, identifiers' = Append(identifiers, ids),
         \A f \in Subroutines :
           subroutines[f].scope # 0 => subroutines'[f].scope = subroutines[f].scope,
         \A m, n : Placed(m) /\ Laid(m) /\ Opens(n, m, new, c) =>
           /\ Outside(new, n)' /\ \A k \in DOMAIN ids : Located(ids[k], new, k, n)'
           /\ \A f \in Subroutines :
                subroutines[f].scope = 0 /\ subroutines'[f].scope # 0 => OfSubroutine(f, n)'
  PROVE  NInv'
<1>1. PICK m : Placed(m) /\ Laid(m)
  BY DEF NInv, LaidOK
<1>2. TextOK /\ ScopesOK /\ StackOK /\ Around(This)
  <2>1. TextOK /\ ScopesOK /\ StackOK
    BY DEF IInv, Rest
  <2> QED  BY <2>1, TextGrows DEF StackOK
<1>3. PICK n : n = [i \in Bodies' |-> IF i = This THEN c ELSE m[i]]
  OBVIOUS
<1>4. Placed(n)'
  BY <1>1, <1>2, <1>3, PlacedOpens DEF Keeps
<1>5. Opens(n, m, new, c)
  <2>1. Bodies' = Bodies \cup {new} /\ new \notin Bodies
    BY <1>2, BodiesGrow
  <2>2. n \in [Bodies' -> 1 .. Len(scopes')]
    BY <1>4 DEF Placed
  <2> HIDE DEF Bodies
  <2> QED  BY <1>3, <2>1, <2>2 DEF Opens
<1>6. /\ Outside(new, n)' /\ \A k \in DOMAIN ids : Located(ids[k], new, k, n)'
      /\ \A f \in Subroutines :
           subroutines[f].scope = 0 /\ subroutines'[f].scope # 0 => OfSubroutine(f, n)'
  BY <1>1, <1>5
<1>7. Laid(n)'
  <2>1. /\ n \in [Bodies' -> 1 .. Len(scopes')] /\ n[new] = c /\ \A b \in Bodies : n[b] = m[b]
    BY <1>5 DEF Opens
  <2>2. /\ n[new] \notin 1 .. Len(scopes) /\ scopes'[n[new]].subroutine = noName
        /\ \A x \in Names : InTable(n[new], x)' = nullptr
        /\ Outside(new, n)'
    <3>1. c \notin 1 .. Len(scopes)
      BY <1>2 DEF ScopesOK
    <3>2. \A x \in Names : InTable(n[new], x)' = nullptr
      BY <2>1 DEF InTable
    <3> HIDE DEF Outside, InTable, nullptr
    <3> QED  BY <1>6, <2>1, <3>1, <3>2
  <2>3. \A f \in Subroutines :
          IF subroutines[f].scope # 0 THEN subroutines'[f].scope = subroutines[f].scope
          ELSE subroutines'[f].scope # 0 => OfSubroutine(f, n)'
    <3> HIDE DEF OfSubroutine
    <3> QED  BY <1>6
  <2> HIDE DEF Located, OfSubroutine, Outside, InTable, nullptr, Bodies, noName
  <2> QED  BY <1>1, <1>6, <2>1, <2>2, <2>3, LaidReads
<1>8. LinesOK' /\ NamedOK' /\ ResolvedOK'
  BY NamesRead
<1>9. LaidOK'
  BY <1>4, <1>7 DEF LaidOK
<1> QED  BY <1>8, <1>9 DEF NInv

\* One that declares no subroutine.
LEMMA ArgsOpen ==
  ASSUME IInv, NInv, IInv', NEW node, Reads(node), Wrote(node), pass = "DefWalk",
         UNCHANGED <<pass, at, named, resolved, subroutines>>, node.kind # "subroutine"
  PROVE  ArgsOK'
<1>1. /\ \A j \in DOMAIN program' : ~Finished(j)'
      /\ \A j \in DOMAIN program : ~Finished(j)
  BY NamesRead
<1> QED  BY <1>1, ArgsRead

LEMMA NamesBlockStep ==
  ASSUME IInv, NInv, VisitBlock
  PROVE  NInv'
<1>0. IInv'
  BY BlockStep
<1>1. PICK kind, node :
        /\ kind \in {"block", "loop", "conditional"}
        /\ node = Node(kind, NextLine)
        /\ Read(node) /\ Identify(NoIdentifiers)
        /\ open' = Append(open, This)
        /\ scopes' = Append(scopes, LocalScope(currentScope)) /\ currentScope' = Len(scopes) + 1
        /\ UNCHANGED <<pass, subroutines, typeSymbols, hasMainProcedure>>
  BY DEF VisitBlock
<1>u. kind \in {"block", "loop", "conditional"}
  BY <1>1
<1> USE <1>u
<1>2. TextOK /\ ScopesOK /\ StackOK /\ LinesOK
  BY DEF IInv, Rest, NInv
<1>3. node \in Nodes /\ node.kind = kind /\ node.names = <<>> /\ node.line = NextLine
  <2>1. /\ NextLine \in Nat /\ kind \in Kinds
        /\ <<>> \in Seq(Names \cup Typedefs) /\ <<>> \in Seq(Names)
    BY <1>2, LineFacts, EmptyLists DEF Kinds, Openers
  <2>2. node = [kind |-> kind, line |-> NextLine, names |-> <<>>, domains |-> <<>>,
                use |-> noName, subroutine |-> noName, body |-> FALSE, const |-> FALSE]
    BY <1>1 DEF Node
  <2> HIDE DEF noName, builtIn, Kinds, NextLine
  <2> QED  BY <2>1, <2>2 DEF Nodes
<1>4. /\ Reads(node) /\ pass = "DefWalk" /\ UNCHANGED <<at, named, resolved>>
  BY <1>1, <1>2, <1>3, ReadFacts
<1>5. /\ Wrote(node) /\ HasBody(node)
      /\ node.kind \notin {"var", "subroutine", "iterator"} /\ node.kind \in Headless
  <2>1. \A i \in DOMAIN program : program[i].line <= node.line
    BY <1>2, <1>3, <1>4, LinesGrow
  <2> QED  BY <1>3, <2>1 DEF Wrote, Headed, Headless, HasBody, Openers
<1>6. PICK c, new : c = Len(scopes) + 1 /\ new = This
  OBVIOUS
<1>7. /\ currentScope \in 1 .. Len(scopes) /\ Len(scopes) \in Nat /\ Len(scopes') = c
      /\ scopes'[c].enclosingScope = currentScope /\ scopes'[c].subroutine = noName
      /\ \A n \in DOMAIN scopes'[c].symbols : FALSE
      /\ \A s \in 1 .. Len(scopes) : scopes'[s] = scopes[s]
  <2>1. currentScope \in 1 .. Len(scopes) /\ scopes \in Seq(ScopeRecords) /\ currentScope \in Nat
    BY <1>2 DEF ScopesOK
  <2>2. PICK x : x = LocalScope(currentScope)
    OBVIOUS
  <2>3. /\ x \in ScopeRecords /\ x.enclosingScope = currentScope /\ x.subroutine = noName
        /\ \A n \in DOMAIN x.symbols : FALSE
    BY <2>1, <2>2, NewLocalScope
  <2>4. scopes' = Append(scopes, x)
    BY <1>1, <2>2
  <2> HIDE DEF ScopeRecords
  <2> QED  BY <1>6, <2>1, <2>3, <2>4, AppendFacts
<1>8. Keeps(node)
  <2>1. Extended
    BY <1>6, <1>7 DEF Extended
  <2> QED  BY <1>5, <1>7, <2>1, KeepsTables
<1>9. ArgsOK'
  BY <1>0, <1>1, <1>4, <1>5, ArgsOpen
<1>10. PICK ids : ids = NoIdentifiers
  OBVIOUS
<1>11. ids \in Numberings /\ DOMAIN ids = {} /\ identifiers' = Append(identifiers, ids)
  BY <1>1, <1>10, EmptyNumbering DEF Identify
<1>12. ASSUME NEW m, NEW n, Placed(m), Laid(m), Opens(n, m, new, c) PROVE Outside(new, n)'
  <2>1. program'[new] = node /\ Body(new)' = Innermost
    <3>1. program'[new] = node /\ new \in 1 .. new
      BY <1>4, <1>6, TextGrows
    <3>2. Body(new)' = Body(new)
      BY <1>2, <1>4, <1>6, <3>1, BodiesGrow
    <3>3. Body(new) = Innermost
      BY <1>2, <1>4, <1>6, BodyOfThis
    <3> QED  BY <3>1, <3>2, <3>3
  <2>2. n[new] = c /\ n[Innermost] = currentScope
    <3>1. Innermost \in Bodies
      BY <1>2, <1>4, DeclaredGrows
    <3>2. currentScope = m[Innermost]
      BY <1>12 DEF Placed
    <3> HIDE DEF Innermost, Bodies
    <3> QED  BY <1>12, <3>1, <3>2 DEF Opens
  <2> HIDE DEF Body, Innermost, Headless, Heads
  <2> QED  BY <1>5, <1>7, <2>1, <2>2 DEF Outside
<1>13. ASSUME NEW m, NEW n, Placed(m), Laid(m), Opens(n, m, new, c)
       PROVE  /\ Outside(new, n)' /\ \A k \in DOMAIN ids : Located(ids[k], new, k, n)'
              /\ \A f \in Subroutines :
                   subroutines[f].scope = 0 /\ subroutines'[f].scope # 0 => OfSubroutine(f, n)'
  <2> HIDE DEF Outside, Located, OfSubroutine
  <2> QED  BY <1>1, <1>11, <1>12, <1>13
<1>14. /\ c \in Len(scopes) + 1 .. Len(scopes') /\ currentScope' = c
       /\ scopes'[c].enclosingScope # 0 /\ ScopeOutside(scopes', c, node.kind) = currentScope
       /\ \A x \in Names : InTable(c, x)' = nullptr
  <2>1. ScopeOutside(scopes', c, node.kind) = currentScope
    BY <1>5, <1>7 DEF ScopeOutside
  <2>2. \A x \in Names : InTable(c, x)' = nullptr
    BY <1>7 DEF InTable
  <2>3. c \in Len(scopes) + 1 .. Len(scopes') /\ currentScope' = c /\ scopes'[c].enclosingScope # 0
    BY <1>1, <1>6, <1>7
  <2> HIDE DEF InTable, nullptr
  <2> QED  BY <2>1, <2>2, <2>3
<1> HIDE DEF Located, Outside, OfSubroutine, Opens, InTable, nullptr, noName
<1> QED  BY <1>0, <1>1, <1>4, <1>5, <1>6, <1>7, <1>8, <1>9, <1>11, <1>13, <1>14, NamesOpens

LEMMA NamesIteratorStep ==
  ASSUME IInv, NInv, VisitIteratorLoop
  PROVE  NInv'
<1>0. IInv'
  BY IteratorStep
<1>1. PICK k, ns, ds, node, own, inner :
        /\ k \in DomainLists /\ ns \in [1 .. k -> Names] /\ ds \in [1 .. k -> Names]
        /\ node = [Node("iterator", NextLine) EXCEPT !.names = ns, !.domains = ds]
        /\ own = Len(scopes) + 1 /\ inner = Append(scopes, LocalScope(currentScope))
        /\ Read(node) /\ open' = Append(open, This)
        /\ scopes' = Append(DefineDomains(inner, own, node), LocalScope(own))
        /\ currentScope' = own + 1
        /\ Identify([i \in 1 .. k |-> DomainScope(inner, own)])
        /\ UNCHANGED <<pass, subroutines, typeSymbols, hasMainProcedure>>
  BY DEF VisitIteratorLoop
<1>u. k \in DomainLists
  BY <1>1
<1> USE <1>u
<1>2. TextOK /\ ScopesOK /\ StackOK /\ LinesOK
  BY DEF IInv, Rest, NInv
<1>3. /\ node \in Nodes /\ node.kind = "iterator" /\ node.names \in Seq(Names)
      /\ node.domains = ds /\ node.line = NextLine /\ k \in Nat
  <2>1. ns \in Seq(Names) /\ ds \in Seq(Names) /\ ns \in Seq(Names \cup Typedefs) /\ k \in Nat
    <3>1. k \in Nat /\ ns \in [1 .. k -> Names] /\ ds \in [1 .. k -> Names]
      BY <1>1, ListsAssumption
    <3>2. ns \in Seq(Names) /\ ds \in Seq(Names)
      BY <3>1, SeqDef
    <3> QED  BY <3>1, <3>2, WiderSequence
  <2>2. NextLine \in Nat /\ "iterator" \in Kinds
    BY <1>2, LineFacts DEF Kinds, Openers
  <2>3. node = [kind |-> "iterator", line |-> NextLine, names |-> ns, domains |-> ds,
                use |-> noName, subroutine |-> noName, body |-> FALSE, const |-> FALSE]
    BY <1>1 DEF Node
  <2> HIDE DEF noName, builtIn, Kinds, NextLine
  <2> QED  BY <2>1, <2>2, <2>3 DEF Nodes
<1>4. /\ Reads(node) /\ pass = "DefWalk" /\ UNCHANGED <<at, named, resolved>>
  BY <1>1, <1>2, <1>3, ReadFacts
<1>5. Wrote(node) /\ HasBody(node) /\ node.kind \notin {"var", "subroutine"}
  <2>1. \A i \in DOMAIN program : program[i].line <= node.line
    BY <1>2, <1>3, <1>4, LinesGrow
  <2> QED  BY <1>3, <2>1 DEF Wrote, Headed, Headless, HasBody, Openers
<1>6. PICK tt, c, new, s : tt = WithHeader(node) /\ c = own + 1 /\ new = This /\ s = currentScope
  OBVIOUS
<1>7. /\ tt \in Seq(ScopeRecords) /\ Len(tt) = own /\ own \in Nat /\ own \in 1 .. Len(tt)
      /\ \A r \in 1 .. Len(scopes) :
           SameButTable(tt[r], scopes[r]) /\ tt[r].symbols = scopes[r].symbols
      /\ tt[own].enclosingScope = currentScope
      /\ DomainScope(inner, own) = currentScope
      /\ Len(scopes) \in Nat /\ currentScope \in 1 .. Len(scopes) /\ currentScope \in Nat
      /\ scopes' = Append(tt, LocalScope(own))
  <2>1. TextOK /\ ScopesOK /\ Reads(node) /\ node.names \in Seq(Names)
    BY <1>2, <1>3, <1>4
  <2> HIDE DEF SymbolIds
  <2>2. /\ tt \in Seq(ScopeRecords) /\ Len(tt) = Len(scopes) + 1
        /\ \A r \in 1 .. Len(scopes) :
             SameButTable(tt[r], scopes[r]) /\ tt[r].symbols = scopes[r].symbols
        /\ \A r \in Len(scopes) + 1 .. Len(tt) :
             /\ tt[r].enclosingScope = currentScope /\ Unmarked(tt[r])
             /\ \A x \in DOMAIN tt[r].symbols : tt[r].symbols[x] \in SymbolIds'
        /\ DomainScope(Append(scopes, LocalScope(currentScope)), Len(scopes) + 1) = currentScope
        /\ Len(scopes) \in Nat /\ currentScope \in 1 .. Len(scopes) /\ currentScope \in Nat
    BY ONLY <2>1, <1>6, HeaderScope
  <2>3. scopes' = Append(tt, LocalScope(own)) /\ DomainScope(inner, own) = currentScope
    BY <1>1, <1>6, <2>2 DEF WithHeader
  <2>4. own \in Len(scopes) + 1 .. Len(tt) /\ own \in 1 .. Len(tt) /\ own \in Nat
    BY <1>1, <2>2
  <2> QED  BY <1>1, <2>2, <2>3, <2>4
<1>8. /\ Len(scopes') = c /\ scopes'[c].enclosingScope = own /\ scopes'[c].subroutine = noName
      /\ \A x \in DOMAIN scopes'[c].symbols : FALSE
      /\ \A r \in 1 .. own : scopes'[r] = tt[r]
  <2>1. PICK x : x = LocalScope(own)
    OBVIOUS
  <2>2. /\ x \in ScopeRecords /\ x.enclosingScope = own /\ x.subroutine = noName
        /\ \A n \in DOMAIN x.symbols : FALSE
    BY <1>7, <2>1, NewLocalScope
  <2>3. scopes' = Append(tt, x)
    BY <1>7, <2>1
  <2> HIDE DEF ScopeRecords
  <2> QED  BY <1>6, <1>7, <2>2, <2>3, AppendFacts
<1>9. /\ tt[own].subroutine = noName
      /\ \A x \in Names : InTable(own, x)' = InHeader(new, x)'
  <2>1. /\ tt[own].subroutine = noName
        /\ \A x \in Names :
             (IF x \in DOMAIN tt[own].symbols THEN tt[own].symbols[x] ELSE nullptr) = InHeader(new, x)'
    <3>1. /\ TextOK /\ ScopesOK /\ Reads(node) /\ node.names \in Seq(Names) /\ tt = WithHeader(node)
          /\ own = Len(scopes) + 1 /\ new = This
      BY <1>1, <1>2, <1>3, <1>4, <1>6
    <3> HIDE DEF InHeader, nullptr
    <3> QED  BY ONLY <3>1, HeaderTable
  <2>2. \A x : InTable(own, x)' = IF x \in DOMAIN tt[own].symbols THEN tt[own].symbols[x] ELSE nullptr
    BY <1>7, <1>8 DEF InTable
  <2> HIDE DEF InTable, InHeader, nullptr
  <2> QED  BY <2>1, <2>2
<1>10. /\ Extended
       /\ \A r \in 1 .. Len(scopes) :
            scopes'[r].subroutine = scopes[r].subroutine /\ scopes'[r].symbols = scopes[r].symbols
  <2>1. \A r \in 1 .. Len(scopes) : r \in 1 .. own
    BY <1>1, <1>7
  <2> QED  BY <1>1, <1>6, <1>7, <1>8, <2>1 DEF Extended, SameButTable
<1>11. Keeps(node)
  BY <1>5, <1>10, KeepsTables
<1>12. ArgsOK'
  BY <1>0, <1>1, <1>4, <1>5, ArgsOpen
<1>13. PICK ids : ids = [i \in 1 .. k |-> s]
  OBVIOUS
<1>14. ids \in Numberings /\ identifiers' = Append(identifiers, ids)
  <2>1. ids \in [1 .. k -> Nat] /\ 1 .. k \in SUBSET Nat
    BY <1>3, <1>6, <1>7, <1>13
  <2>2. identifiers' = Append(identifiers, ids)
    BY <1>1, <1>6, <1>7, <1>13 DEF Identify
  <2> QED  BY <2>1, <2>2 DEF Numberings
<1>15. ASSUME NEW m, NEW n, Placed(m), Laid(m), Opens(n, m, new, c)
       PROVE  Outside(new, n)' /\ \A i \in DOMAIN ids : Located(ids[i], new, i, n)'
  <2>1. /\ program'[new] = node /\ Body(new)' = Innermost /\ Bodies' = Bodies \cup {new}
        /\ Innermost \in Bodies
    <3>1. program'[new] = node /\ new \in 1 .. new
      BY <1>4, <1>6, TextGrows
    <3>2. Body(new)' = Body(new)
      BY <1>2, <1>4, <1>6, <3>1, BodiesGrow
    <3>3. Body(new) = Innermost
      BY <1>2, <1>4, <1>6, BodyOfThis
    <3>4. Bodies' = Bodies \cup {new}
      BY <1>2, <1>4, <1>5, <1>6, BodiesGrow
    <3>5. Innermost \in Bodies
      BY <1>2, <1>4, DeclaredGrows
    <3> QED  BY <3>1, <3>2, <3>3, <3>4, <3>5
  <2>2. /\ m \in [Bodies -> 1 .. Len(scopes)] /\ currentScope = m[Innermost]
        /\ n[new] = c /\ \A b \in Bodies : n[b] = m[b]
    BY <1>15 DEF Placed, Opens
  <2>3. Heads(own, new, n)'
    <3>1. \A b \in Bodies' : n[b] # own
      <4> HIDE DEF Bodies
      <4> QED  BY <1>1, <1>6, <1>7, <2>1, <2>2
    <3>2. /\ scopes'[own].enclosingScope = n[Body(new)'] /\ scopes'[own].subroutine = noName
          /\ own \in 1 .. Len(scopes')
      <4>1. own \in 1 .. own /\ own \in 1 .. Len(scopes')
        BY <1>6, <1>7, <1>8
      <4>2. n[Body(new)'] = currentScope
        <5> HIDE DEF Body, Bodies, Innermost
        <5> QED  BY <2>1, <2>2
      <4> QED  BY <1>7, <1>8, <1>9, <4>1, <4>2
    <3> HIDE DEF Bodies, Body, InTable, InHeader, Innermost
    <3> QED  BY <1>9, <3>1, <3>2 DEF Heads
  <2>4. Outside(new, n)'
    <3> HIDE DEF Heads, Body, Headless
    <3>1. "iterator" \notin Headless
      BY DEF Headless
    <3> QED  BY <1>3, <1>8, <2>1, <2>2, <2>3, <3>1 DEF Outside
  <2>5. ASSUME NEW i \in DOMAIN ids PROVE Located(ids[i], new, i, n)'
    <3>1. ids[i] = s /\ i \in 1 .. k /\ i # 0
      BY <1>3, <1>13
    <3>2. UsedName(node, i) \in Names
      BY <1>1, <1>3, <3>1 DEF UsedName
    <3>3. Located(s, new, i, n)'
      <4> HIDE DEF UsedName
      <4> QED  BY <1>3, <1>4, <1>6, <1>15, <2>2, <3>1, <3>2, LocatedHere
    <3> QED  BY <3>1, <3>3
  <2> QED  BY <2>4, <2>5
<1>16. ASSUME NEW m, NEW n, Placed(m), Laid(m), Opens(n, m, new, c)
       PROVE  /\ Outside(new, n)' /\ \A i \in DOMAIN ids : Located(ids[i], new, i, n)'
              /\ \A f \in Subroutines :
                   subroutines[f].scope = 0 /\ subroutines'[f].scope # 0 => OfSubroutine(f, n)'
  <2> HIDE DEF Outside, Located, OfSubroutine
  <2> QED  BY <1>1, <1>15, <1>16
<1>17. /\ c \in Len(scopes) + 1 .. Len(scopes') /\ currentScope' = c
       /\ scopes'[c].enclosingScope # 0 /\ ScopeOutside(scopes', c, node.kind) = currentScope
       /\ \A x \in Names : InTable(c, x)' = nullptr
  <2>1. ScopeOutside(scopes', c, node.kind) = currentScope
    BY <1>3, <1>7, <1>8 DEF ScopeOutside
  <2>2. \A x \in Names : InTable(c, x)' = nullptr
    BY <1>8 DEF InTable
  <2>3. c \in Len(scopes) + 1 .. Len(scopes') /\ currentScope' = c /\ scopes'[c].enclosingScope # 0
    BY <1>1, <1>6, <1>7, <1>8
  <2> HIDE DEF InTable, nullptr
  <2> QED  BY <2>1, <2>2, <2>3
<1> HIDE DEF Located, Outside, OfSubroutine, Opens, InTable, nullptr, noName
<1> QED  BY <1>0, <1>1, <1>4, <1>5, <1>6, <1>8, <1>11, <1>12, <1>14, <1>16, <1>17, NamesOpens

\* A subroutine that is declared once more.
LEMMA ArgsDeclared ==
  ASSUME IInv, NInv, IInv', NEW node, Reads(node), Wrote(node), pass = "DefWalk",
         UNCHANGED <<pass, at, named, resolved>>,
         node.kind = "subroutine", node.names \in Seq(Names), NEW f \in Subroutines,
         node.subroutine = f, NEW sub \in SubroutineRecords, sub = Declared(node),
         subroutines' = [subroutines EXCEPT ![f] = sub], ~(sub.numTimesDeclare > 2)
  PROVE  ArgsOK'
<1>1. /\ \A j \in DOMAIN program' : ~Finished(j)'
      /\ \A j \in DOMAIN program : ~Finished(j)
  BY NamesRead
<1>2. TextOK /\ SubroutinesOK
  BY DEF IInv, Rest
<1>3. \A g \in Subroutines : subroutines'[g] = IF g = f THEN sub ELSE subroutines[g]
  BY <1>2, SetSubroutine
<1>4. ASSUME NEW g \in Subroutines, g # f
      PROVE  (Undeclared(g) \/ (\E j : DeclaredOnce(g, j)) \/ (\E j, k : DeclaredTwice(g, j, k)))'
  <2>1. subroutines'[g] = subroutines[g] /\ ~(node.kind = "subroutine" /\ node.subroutine = g)
    BY <1>3, <1>4
  <2> QED  BY <1>1, <2>1, ArgsKept
<1>5. PICK new, old, t : new = This /\ old = subroutines[f] /\ t = [k \in DOMAIN node.names |-> <<new, k>>]
  OBVIOUS
<1>6. /\ Declarations(f)' = Declarations(f) \cup {new} /\ Params(new)' = t
      /\ \A j \in Declarations(f) : j < new /\ Params(j)' = Params(j) /\ ~Finished(j) /\ ~Finished(j)'
  <2>1. /\ program'[new] = node /\ DOMAIN program = 1 .. Len(program) /\ new = Len(program) + 1
        /\ Len(program) \in Nat /\ DOMAIN program' = DOMAIN program \cup {new}
        /\ \A j \in DOMAIN program : program'[j] = program[j]
    BY <1>5, TextGrows
  <2>2. Declarations(f)' = Declarations(f) \cup {new}
    <3>1. Declarations(f)' = Declarations(f) \cup
            (IF node.kind = "subroutine" /\ node.subroutine = f THEN {This} ELSE {})
      BY BodiesGrow
    <3> HIDE DEF Declarations
    <3> QED  BY <1>5, <3>1
  <2>3. Params(new)' = t
    BY <1>5, <2>1 DEF Params
  <2>4. \A j \in Declarations(f) : j \in DOMAIN program
    BY DEF Declarations
  <2>5. \A j \in DOMAIN program : j < new /\ Params(j)' = Params(j)
    BY <2>1 DEF Params
  <2> HIDE DEF Declarations, Params, Finished
  <2> QED  BY <1>1, <2>1, <2>2, <2>3, <2>4, <2>5
<1>7. sub.orderedArgs = old.orderedArgs \o t /\ sub.numTimesDeclare = old.numTimesDeclare + 1
  <2>1. old \in SubroutineRecords
    BY <1>2, <1>5 DEF SubroutinesOK
  <2>2. sub = [old EXCEPT !.scope = IF @ = 0 THEN Len(scopes) + 1 ELSE @,
                          !.orderedArgs = @ \o t,
                          !.numTimesDeclare = @ + 1,
                          !.numTimesDefined = IF node.body THEN @ + 1 ELSE @]
    BY <1>5 DEF Declared
  <2>3. DOMAIN old = {"scope", "orderedArgs", "numTimesDeclare", "numTimesDefined"}
    BY <2>1 DEF SubroutineRecords
  <2> QED  BY <2>2, <2>3
<1>8. (Undeclared(f) \/ (\E j : DeclaredOnce(f, j)) \/ (\E j, k : DeclaredTwice(f, j, k)))'
  <2>1. Undeclared(f) \/ (\E j : DeclaredOnce(f, j)) \/ (\E j, k : DeclaredTwice(f, j, k))
    BY DEF NInv, ArgsOK, Live
  <2>2. subroutines'[f] = sub
    BY <1>3
  <2> HIDE DEF Declarations, Params, Finished
  <2>3. CASE Undeclared(f)
    <3>1. Declarations(f) = {} /\ old.orderedArgs = <<>> /\ old.numTimesDeclare = 0
      BY <1>5, <2>3 DEF Undeclared
    <3>2. <<>> \o t = t
      <4>1. DOMAIN node.names = 1 .. Len(node.names) /\ Len(node.names) \in Nat
        OBVIOUS
      <4>2. t \in [1 .. Len(node.names) -> {<<new, k>> : k \in 1 .. Len(node.names)}]
        BY <1>5, <4>1
      <4>3. t \in Seq({<<new, k>> : k \in 1 .. Len(node.names)})
        BY ONLY <4>1, <4>2, SeqDef
      <4> QED  BY <4>3
    <3>3. DeclaredOnce(f, new)'
      BY <1>6, <1>7, <2>2, <3>1, <3>2 DEF DeclaredOnce
    <3> HIDE DEF DeclaredOnce
    <3> QED  BY <3>3
  <2>4. CASE \E j : DeclaredOnce(f, j)
    <3>1. PICK j : DeclaredOnce(f, j)
      BY <2>4
    <3>2. Declarations(f) = {j} /\ old.orderedArgs = Params(j) /\ old.numTimesDeclare = 1
      BY <1>5, <3>1 DEF DeclaredOnce
    <3>3. j < new /\ Params(j)' = Params(j) /\ ~Finished(j)' /\ Declarations(f)' = {j, new}
      BY <1>6, <3>2
    <3>4. DeclaredTwice(f, j, new)'
      BY <1>6, <1>7, <2>2, <3>2, <3>3, SMTT(30) DEF DeclaredTwice
    <3> HIDE DEF DeclaredTwice
    <3> QED  BY <3>4
  <2>5. CASE \E j, k : DeclaredTwice(f, j, k)
    <3>1. PICK j, k : DeclaredTwice(f, j, k)
      BY <2>5
    <3>2. j \in Declarations(f)
      BY <3>1 DEF DeclaredTwice
    <3>3. old.numTimesDeclare = 2
      BY <1>5, <1>6, <3>1, <3>2 DEF DeclaredTwice
    <3> QED  BY <1>7, <3>3
  <2> HIDE DEF Undeclared, DeclaredOnce, DeclaredTwice
  <2> QED  BY <2>1, <2>3, <2>4, <2>5
<1> HIDE DEF Undeclared, DeclaredOnce, DeclaredTwice
<1> QED  BY <1>4, <1>8 DEF ArgsOK

\* The scope that the first declaration of a subroutine makes.
LEMMA KnownNew ==
  ASSUME ScopesOK, NEW f \in Subroutines, subroutines[f].scope = 0, NEW known, known = KnownScopes(f),
         NEW s, s = Len(scopes) + 1
  PROVE  /\ Len(known) = s /\ known[s].subroutine = f
         /\ \A n \in DOMAIN known[s].symbols : FALSE
<1>1. PICK x : x = Scope(1, f)
  OBVIOUS
<1>2. x \in ScopeRecords /\ x.subroutine = f /\ \A n \in DOMAIN x.symbols : FALSE
  <2>1. 1 \in Nat /\ f \in Subroutines \cup {noName}
    OBVIOUS
  <2> QED  BY <1>1, <2>1, NewScope
<1>3. known = Append(scopes, x) /\ scopes \in Seq(ScopeRecords)
  BY <1>1 DEF KnownScopes, ScopesOK
<1> HIDE DEF ScopeRecords
<1> QED  BY <1>2, <1>3, AppendFacts

LEMMA NamesSubroutineRead ==
  ASSUME IInv, NInv, VisitSubroutineDeclDef
  PROVE  NInv'
<1>0. IInv'
  BY SubroutineStep
<1>1. PICK f \in Subroutines, parameters \in ParameterLists, body \in BOOLEAN :
        LET node == [Node("subroutine", NextLine) EXCEPT !.subroutine = f,
                       !.names = parameters, !.body = body]
            sub == Declared(node)
            known == IF subroutines[f].scope = 0 THEN Append(scopes, Scope(1, f)) ELSE scopes
        IN  /\ AtGlobal /\ Read(node)
            /\ IF sub.numTimesDeclare > 2 THEN Throw
               ELSE /\ subroutines' = [subroutines EXCEPT ![f] = sub]
                    /\ hasMainProcedure' = (hasMainProcedure \/ f = main)
                    /\ Identify(NoIdentifiers)
                    /\ UNCHANGED <<pass, typeSymbols>>
                    /\ IF body
                       THEN /\ open' = Append(open, This)
                            /\ scopes' = Append(known, LocalScope(sub.scope))
                            /\ currentScope' = Len(known) + 1
                       ELSE /\ scopes' = known
                            /\ UNCHANGED <<open, currentScope>>
  BY ZenonT(30) DEF VisitSubroutineDeclDef
<1>2. PICK node, sub, known, new :
        /\ node = [Node("subroutine", NextLine) EXCEPT !.subroutine = f, !.names = parameters, !.body = body]
        /\ sub = Declared(node) /\ new = This
        /\ known = IF subroutines[f].scope = 0 THEN Append(scopes, Scope(1, f)) ELSE scopes
  OBVIOUS
<1>3. /\ AtGlobal /\ Read(node)
      /\ sub.numTimesDeclare > 2 => Throw
      /\ ~(sub.numTimesDeclare > 2) =>
           /\ subroutines' = [subroutines EXCEPT ![f] = sub]
           /\ Identify(NoIdentifiers) /\ UNCHANGED <<pass, typeSymbols>>
           /\ body => /\ open' = Append(open, This)
                      /\ scopes' = Append(known, LocalScope(sub.scope))
                      /\ currentScope' = Len(known) + 1
           /\ ~body => scopes' = known /\ UNCHANGED <<open, currentScope>>
  BY <1>1, <1>2
<1>4. TextOK /\ ScopesOK /\ StackOK /\ LinesOK /\ Rest /\ SubroutinesOK
  BY DEF IInv, Rest, NInv
<1>5. /\ node \in Nodes /\ node.kind = "subroutine" /\ node.names \in Seq(Names)
      /\ node.subroutine = f /\ (HasBody(node) <=> body) /\ node.line = NextLine
  <2>1. /\ NextLine \in Nat /\ "subroutine" \in Kinds
        /\ parameters \in Seq(Names) /\ <<>> \in Seq(Names)
    BY <1>4, LineFacts, EmptyLists, ListsAssumption DEF Kinds, Openers
  <2>2. parameters \in Seq(Names \cup Typedefs)
    BY <2>1, WiderSequence
  <2>3. node = [kind |-> "subroutine", line |-> NextLine, names |-> parameters, domains |-> <<>>,
                use |-> noName, subroutine |-> f, body |-> body, const |-> FALSE]
    BY <1>2 DEF Node
  <2>4. HasBody(node) <=> body
    BY <2>3 DEF HasBody, Openers
  <2> HIDE DEF noName, builtIn, Kinds, NextLine
  <2> QED  BY <2>1, <2>2, <2>3, <2>4 DEF Nodes
<1>6. /\ Reads(node) /\ pass = "DefWalk" /\ UNCHANGED <<at, named, resolved>>
  BY <1>3, <1>4, <1>5, ReadFacts
<1>7. CASE sub.numTimesDeclare > 2
  BY <1>3, <1>7, Dies DEF Throw
<1>8. CASE ~(sub.numTimesDeclare > 2)
  <2>1. /\ subroutines' = [subroutines EXCEPT ![f] = sub]
        /\ identifiers' = Append(identifiers, NoIdentifiers) /\ UNCHANGED <<pass, typeSymbols>>
    BY <1>3, <1>8 DEF Identify
  <2>2. sub \in SubroutineRecords /\ sub.scope = ScopeNumber(f)
    <3> HIDE DEF SymbolIds
    <3>1. PICK old : old = subroutines[node.subroutine]
      OBVIOUS
    <3>2. node.names \in Seq(Names) /\ node.subroutine \in Subroutines /\ node.kind = "subroutine"
          /\ sub = Declared(node) /\ node.subroutine = f
      BY <1>2, <1>5
    <3>3. sub \in SubroutineRecords /\ sub.scope = ScopeNumber(node.subroutine)
      BY ONLY <1>4, <1>6, <3>1, <3>2, DeclaredFacts
    <3> QED  BY <3>2, <3>3
  <2>3. PICK a : a = sub.scope
    OBVIOUS
  <2>4. /\ known \in Seq(ScopeRecords) /\ Len(scopes) \in Nat \ {0}
        /\ Len(known) \in {Len(scopes), Len(scopes) + 1}
        /\ \A s \in 1 .. Len(scopes) : known[s] = scopes[s]
        /\ a \in 1 .. Len(known) /\ known[a].enclosingScope = 1
    <3>1. a = ScopeNumber(f) /\ known = KnownScopes(f)
      BY <1>2, <2>2, <2>3 DEF KnownScopes
    <3> QED  BY ONLY <1>4, <3>1, KnownFacts
  <2>5. subroutines[f].scope = 0 =>
          /\ a = Len(scopes) + 1 /\ Len(known) = a /\ known[a].subroutine = f
          /\ \A n \in DOMAIN known[a].symbols : FALSE
    <3>1. known = KnownScopes(f)
      BY <1>2 DEF KnownScopes
    <3>2. subroutines[f].scope = 0 => a = Len(scopes) + 1
      BY <2>2, <2>3 DEF ScopeNumber
    <3> QED  BY <1>4, <3>1, <3>2, KnownNew
  <2>6. currentScope = 1 /\ open = <<>>
    BY <1>3, <1>4, <1>6, AtTheTop
  <2>7. /\ \A g \in Subroutines : subroutines'[g] = IF g = f THEN sub ELSE subroutines[g]
        /\ \A g \in Subroutines :
             IF subroutines[g].scope # 0 THEN subroutines'[g].scope = subroutines[g].scope
             ELSE subroutines'[g].scope # 0 => g = f
    <3>1. \A g \in Subroutines : subroutines'[g] = IF g = f THEN sub ELSE subroutines[g]
      BY <1>4, <2>1, <2>2, SetSubroutine
    <3> QED  BY <2>2, <3>1 DEF ScopeNumber
  <2>8. Wrote(node)
    <3>1. \A i \in DOMAIN program : program[i].line <= node.line
      BY <1>4, <1>5, <1>6, LinesGrow
    <3> QED  BY <1>5, <2>6, <3>1 DEF Wrote, Headed, Headless
  <2>9. ArgsOK'
    BY <1>0, <1>2, <1>5, <1>6, <1>8, <2>1, <2>2, <2>8, ArgsDeclared
  <2>10. PICK ids : ids = NoIdentifiers
    OBVIOUS
  <2>11. ids \in Numberings /\ DOMAIN ids = {} /\ identifiers' = Append(identifiers, ids)
    BY <2>1, <2>10, EmptyNumbering
  <2>12. ASSUME NEW n, subroutines[f].scope = 0, a \in 1 .. Len(scopes'), scopes'[a] = known[a],
                \A b \in Bodies' : n[b] # a
         PROVE  OfSubroutine(f, n)'
    <3>1. subroutines'[f].scope = a /\ scopes'[a].subroutine = f
      BY <2>3, <2>5, <2>7, <2>12
    <3>2. \A x \in Names : InTable(a, x)' = nullptr
      BY <2>5, <2>12 DEF InTable
    <3> HIDE DEF InTable, nullptr, Bodies
    <3> QED  BY <2>12, <3>1, <3>2 DEF OfSubroutine
  <2>13. CASE ~HasBody(node)
    <3>1. scopes' = known /\ UNCHANGED <<open, currentScope>>
      BY <1>3, <1>5, <1>8, <2>13
    <3>2. Extended
      BY <2>4, <3>1 DEF Extended
    <3>3. Keeps(node)
      BY <1>5, <2>4, <3>1, <3>2, KeepsTables
    <3>4. PICK m : Placed(m) /\ Laid(m)
      BY <1>6 DEF NInv, LaidOK
    <3>5. Placed(m)'
      BY <1>6, <2>13, <3>1, <3>2, <3>4, PlacedStays
    <3>6. m \in [Bodies -> 1 .. Len(scopes)] /\ m \in [Bodies' -> 1 .. Len(scopes')] /\ Bodies' = Bodies
      <4>1. Bodies' = Bodies
        BY <1>4, <1>6, <2>13, BodiesGrow
      <4> QED  BY <3>4, <3>5, <4>1 DEF Placed
    <3>7. \A g \in Subroutines :
            IF subroutines[g].scope # 0 THEN subroutines'[g].scope = subroutines[g].scope
            ELSE subroutines'[g].scope # 0 => OfSubroutine(g, m)'
      <4>1. ASSUME subroutines[f].scope = 0 PROVE OfSubroutine(f, m)'
        <5>1. a \in 1 .. Len(scopes') /\ scopes'[a] = known[a]
          BY <2>4, <3>1
        <5>2. \A b \in Bodies' : m[b] # a
          <6> HIDE DEF Bodies
          <6> QED  BY <2>4, <2>5, <3>6, <4>1
        <5> QED  BY <2>12, <4>1, <5>1, <5>2
      <4> HIDE DEF OfSubroutine
      <4> QED  BY <2>7, <4>1
    <3>8. Laid(m)'
      <4>1. \A k \in DOMAIN ids : Located(ids[k], new, k, m)'
        BY <2>11
      <4> HIDE DEF Located, OfSubroutine, Outside, InTable, nullptr, Bodies, noName
      <4> QED  BY <1>2, <1>6, <2>11, <2>13, <3>3, <3>4, <3>6, <3>7, <4>1, LaidReads
    <3>9. LinesOK' /\ NamedOK' /\ ResolvedOK'
      BY <1>0, <1>6, <2>1, <2>8, NamesRead
    <3>10. LaidOK'
      BY <3>5, <3>8 DEF LaidOK
    <3> QED  BY <2>9, <3>9, <3>10 DEF NInv
  <2>14. CASE HasBody(node)
    <3>1. /\ open' = Append(open, This)
          /\ scopes' = Append(known, LocalScope(sub.scope)) /\ currentScope' = Len(known) + 1
      BY <1>3, <1>5, <1>8, <2>14
    <3>2. PICK c, x : c = Len(known) + 1 /\ x = LocalScope(a)
      OBVIOUS
    <3>3. /\ Len(scopes') = c /\ scopes'[c].enclosingScope = a /\ scopes'[c].subroutine = noName
          /\ \A y \in DOMAIN scopes'[c].symbols : FALSE
          /\ \A s \in 1 .. Len(known) : scopes'[s] = known[s]
          /\ c \in Nat /\ a \in Nat \ {0} /\ Len(known) \in Nat
      <4>1. /\ x \in ScopeRecords /\ x.enclosingScope = a /\ x.subroutine = noName
            /\ \A n \in DOMAIN x.symbols : FALSE
        <5>1. a \in Nat
          BY <2>4
        <5> QED  BY <3>2, <5>1, NewLocalScope
      <4>2. scopes' = Append(known, x) /\ known \in Seq(ScopeRecords)
        BY <2>3, <2>4, <3>1, <3>2
      <4>3. c \in Nat /\ a \in Nat \ {0} /\ Len(known) \in Nat
        BY <2>4, <3>2
      <4>4. /\ Len(scopes') = c /\ scopes'[c] = x
            /\ \A s \in 1 .. Len(known) : scopes'[s] = known[s]
        <5> HIDE DEF ScopeRecords
        <5> QED  BY <3>2, <4>1, <4>2, AppendFacts
      <4> QED  BY <4>1, <4>3, <4>4
    <3>4. \A s \in 1 .. Len(scopes) : scopes'[s] = scopes[s] /\ s \in 1 .. Len(scopes')
      BY <2>4, <3>2, <3>3
    <3>5. Extended
      BY <2>4, <3>2, <3>3, <3>4 DEF Extended
    <3>6. Keeps(node)
      BY <1>5, <3>4, <3>5, KeepsTables
    <3>7. /\ c \in Len(scopes) + 1 .. Len(scopes') /\ currentScope' = c /\ scopes'[c].enclosingScope # 0
          /\ ScopeOutside(scopes', c, node.kind) = currentScope
          /\ \A y \in Names : InTable(c, y)' = nullptr
      <4>1. scopes'[a].enclosingScope = 1
        BY <2>4, <3>3
      <4>2. ScopeOutside(scopes', c, node.kind) = currentScope
        BY <1>5, <2>6, <3>3, <4>1 DEF ScopeOutside
      <4>3. \A y \in Names : InTable(c, y)' = nullptr
        BY <3>3 DEF InTable
      <4>4. c \in Len(scopes) + 1 .. Len(scopes') /\ currentScope' = c /\ scopes'[c].enclosingScope # 0
        BY <2>4, <3>1, <3>2, <3>3
      <4> HIDE DEF InTable, nullptr
      <4> QED  BY <4>2, <4>3, <4>4
    <3>8. ASSUME NEW m, NEW n, Placed(m), Laid(m), Opens(n, m, new, c)
          PROVE  /\ Outside(new, n)' /\ \A k \in DOMAIN ids : Located(ids[k], new, k, n)'
                 /\ \A g \in Subroutines :
                      subroutines[g].scope = 0 /\ subroutines'[g].scope # 0 => OfSubroutine(g, n)'
      <4>1. /\ program'[new] = node /\ Bodies' = Bodies \cup {new}
        BY <1>2, <1>4, <1>6, <2>14, BodiesGrow, TextGrows
      <4>2. m \in [Bodies -> 1 .. Len(scopes)] /\ n[new] = c /\ \A b \in Bodies : n[b] = m[b]
        BY <3>8 DEF Placed, Opens
      <4>3. Outside(new, n)'
        <5>1. subroutines'[f].scope = a
          BY <2>3, <2>7
        <5>2. "subroutine" \notin Headless
          BY DEF Headless
        <5> HIDE DEF Heads, Body, Headless
        <5> QED  BY <1>5, <3>3, <4>1, <4>2, <5>1, <5>2 DEF Outside
      <4>4. ASSUME subroutines[f].scope = 0 PROVE OfSubroutine(f, n)'
        <5>1. a \in 1 .. Len(scopes') /\ scopes'[a] = known[a]
          BY <2>4, <3>2, <3>3
        <5>2. \A b \in Bodies' : n[b] # a
          <6> HIDE DEF Bodies
          <6> QED  BY <2>4, <2>5, <3>2, <4>1, <4>2, <4>4
        <5> QED  BY <2>12, <4>4, <5>1, <5>2
      <4> HIDE DEF Outside, Located, OfSubroutine
      <4> QED  BY <2>7, <2>11, <4>3, <4>4
    <3>9. \A g \in Subroutines :
            subroutines[g].scope # 0 => subroutines'[g].scope = subroutines[g].scope
      BY <2>7
    <3> HIDE DEF Located, Outside, OfSubroutine, Opens, InTable, nullptr, noName
    <3>10. /\ Reads(node) /\ Wrote(node) /\ HasBody(node) /\ pass = "DefWalk"
           /\ UNCHANGED <<pass, at, named, resolved>> /\ Keeps(node)
           /\ new = This /\ open' = Append(open, This)
           /\ c \in Len(scopes) + 1 .. Len(scopes') /\ currentScope' = c
           /\ scopes'[c].enclosingScope # 0 /\ ScopeOutside(scopes', c, node.kind) = currentScope
           /\ scopes'[c].subroutine = noName /\ \A y \in Names : InTable(c, y)' = nullptr
           /\ ids \in Numberings /\ identifiers' = Append(identifiers, ids)
      BY <1>2, <1>6, <2>1, <2>8, <2>11, <2>14, <3>1, <3>3, <3>6, <3>7
    <3>11. IInv /\ NInv /\ IInv' /\ ArgsOK'
      BY <1>0, <2>9
    <3> HIDE DEF IInv, NInv, ArgsOK, ScopeOutside, Wrote, Keeps, HasBody, Reads
    <3> QED  BY ONLY <3>8, <3>9, <3>10, <3>11, NamesOpens
  <2> QED  BY <2>13, <2>14
<1> QED  BY <1>7, <1>8

LEMMA NamesDefWalkStep ==
  ASSUME IInv, NInv, DefWalk
  PROVE  NInv'
<1>1. CASE VisitVariableDeclaration
  BY <1>1, NamesVariableStep
<1>2. CASE VisitUse
  BY <1>2, NamesUseStep
<1>3. CASE VisitCall
  BY <1>3, NamesCallRead
<1>4. CASE VisitSubroutineDeclDef
  BY <1>4, NamesSubroutineRead
<1>5. CASE VisitBlock
  BY <1>5, NamesBlockStep
<1>6. CASE VisitIteratorLoop
  BY <1>6, NamesIteratorStep
<1>7. CASE VisitGenerator
  BY <1>7, NamesGeneratorStep
<1>8. CASE VisitBreak
  BY <1>8, NamesBreakStep
<1>9. CASE VisitReturn
  BY <1>9, NamesReturnStep
<1>10. CASE VisitTypedefStatement
  BY <1>10, NamesTypedefRead
<1>11. CASE Leave
  BY <1>11, NamesLeaveRead
<1> QED  BY <1>1, <1>2, <1>3, <1>4, <1>5, <1>6, <1>7, <1>8, <1>9, <1>10, <1>11 DEF DefWalk

(***************************************************************************)
(* The invariant.                                                          *)
(***************************************************************************)
\* A step that passes on from one walk to the next, or is none.
LEMMA NamesPassOn ==
  ASSUME IInv, NInv, IInv', Live, pass' = "DefWalk" => pass = "DefWalk", pass' = "RefWalk" => Walking,
         UNCHANGED <<program, at, open, scopes, currentScope, subroutines, identifiers, named, resolved>>
  PROVE  NInv'
<1>0. TextOK /\ TextOK' /\ ScopesOK /\ IdentifiersOK
  BY DEF IInv, Rest
<1>1. LinesOK'
  <2>1. Depth' = Depth
    BY DEF Depth
  <2>2. \A i : WrittenOK(i) => WrittenOK(i)'
    BY <2>1 DEF WrittenOK
  <2> HIDE DEF WrittenOK
  <2> QED  BY <2>2 DEF NInv, LinesOK
<1>2. NamedOK'
  BY DEF NInv, NamedOK
<1>3. ArgsOK'
  <2>1. \A f : Declarations(f)' = Declarations(f)
    BY DEF Declarations
  <2>2. \A j : Params(j)' = Params(j) /\ (Finished(j)' <=> Finished(j))
    BY DEF Params, Finished, IsOpen
  <2> HIDE DEF Declarations, Params, Finished
  <2>3. \A f \in Subroutines :
          /\ Undeclared(f) => Undeclared(f)'
          /\ \A j : DeclaredOnce(f, j) => DeclaredOnce(f, j)'
          /\ \A j, k : DeclaredTwice(f, j, k) => DeclaredTwice(f, j, k)'
    BY <2>1, <2>2 DEF Undeclared, DeclaredOnce, DeclaredTwice
  <2> HIDE DEF Undeclared, DeclaredOnce, DeclaredTwice
  <2> QED  BY <2>3 DEF NInv, ArgsOK
<1>4. ResolvedOK'
  <2>1. Len(identifiers) = Len(program) /\ Len(resolved) <= Len(program) /\ Len(resolved) \in Nat
        /\ Len(program) \in Nat
    BY <1>0 DEF NInv, ResolvedOK, IdentifiersOK, TextOK
  <2>2. \A i \in 1 .. Len(program) : \A k : Right(i, k) => Right(i, k)'
    <3>1. /\ \A i, name : NamesakeOnItsLine(i, name)' = NamesakeOnItsLine(i, name)
          /\ \A i, name : Misdeclared(i, name)' = Misdeclared(i, name)
          /\ \A i \in 1 .. Len(program) : \A k : MeaningOf(i, k)' = MeaningOf(i, k)
      BY <1>0, TextStays
    <3>2. \A i, k : UsedName(program'[i], k) = UsedName(program[i], k)
      OBVIOUS
    <3> HIDE DEF NamesakeOnItsLine, Misdeclared, MeaningOf, UsedName
    <3> QED  BY <3>1, <3>2 DEF Right
  <2> HIDE DEF Right
  <2> QED  BY <2>1, <2>2 DEF NInv, ResolvedOK
<1>5. LaidOK'
  <2>1. ASSUME NEW m, Laid(m) PROVE Laid(m)'
    BY <1>0, <2>1, LaidStays
  <2>2. ASSUME NEW m, Placed(m) PROVE Placed(m)'
    <3>1. Bodies' = Bodies /\ Innermost' = Innermost
      BY DEF Bodies, Innermost
    <3> HIDE DEF Bodies, Innermost
    <3> QED  BY <2>2, <3>1 DEF Placed, ScopeOutside, BodyAround
  <2> HIDE DEF Laid, Placed
  <2> QED  BY <2>1, <2>2 DEF NInv, LaidOK, Walking
<1> QED  BY <1>1, <1>2, <1>3, <1>4, <1>5 DEF NInv

LEMMA NamesInitially ==
  ASSUME Init
  PROVE  NInv
<1>0. IInv /\ program = <<>> /\ Len(program) = 0 /\ DOMAIN program = {} /\ Len(resolved) = 0
      /\ open = <<>> /\ scopes = <<LocalScope(0)>> /\ currentScope = 1 /\ identifiers = <<>>
      /\ subroutines = [f \in Subroutines |-> NoSubroutine]
  BY Initially DEF Init
<1>1. LinesOK /\ NamedOK /\ ResolvedOK
  BY <1>0 DEF LinesOK, NamedOK, ResolvedOK
<1>2. ArgsOK
  BY <1>0 DEF ArgsOK, Undeclared, Declarations, NoSubroutine
<1>3. PICK m : m = [i \in Bodies |-> 1]
  OBVIOUS
<1>4. Bodies = {0} /\ Innermost = 0 /\ Len(open) = 0 /\ Len(scopes) = 1 /\ m[0] = 1
      /\ m \in [Bodies -> 1 .. Len(scopes)]
  BY <1>0, <1>3 DEF Bodies, Innermost
<1>5. Placed(m)
  BY <1>0, <1>4 DEF Placed
<1>6. Laid(m)
  <2>1. PICK x : x = LocalScope(0)
    OBVIOUS
  <2>2. x.subroutine = noName /\ (\A n \in DOMAIN x.symbols : FALSE) /\ scopes[1] = x
    <3>1. scopes[1] = x
      BY <1>0, <2>1
    <3> QED  BY <2>1, <3>1, NewLocalScope
  <2>3. \A n : DeclaredIn(0, n) = {} /\ InTable(1, n) = nullptr
    BY <1>0, <2>2 DEF DeclaredIn, InTable
  <2>4. Holds(1, 0)
    <3> HIDE DEF DeclaredIn, InTable, nullptr, noName
    <3> QED  BY <2>2, <2>3 DEF Holds
  <2>5. \A f \in Subroutines : OfSubroutine(f, m)
    BY <1>0 DEF OfSubroutine, NoSubroutine
  <2> HIDE DEF Holds, OfSubroutine, Outside, Located, Bodies
  <2> QED  BY <1>0, <1>4, <2>4, <2>5 DEF Laid
<1>7. LaidOK
  BY <1>5, <1>6 DEF LaidOK
<1> QED  BY <1>1, <1>2, <1>7 DEF NInv

LEMMA NamesStep ==
  ASSUME IInv, NInv, [Next]_vars
  PROVE  NInv'
<1>0. IInv'
  BY Steps
<1>1. CASE DefWalk
  BY <1>1, NamesDefWalkStep
<1>2. CASE CheckMain
  <2>1. /\ pass = "DefWalk" /\ pass' \in {"RefWalk", "rejected"}
        /\ UNCHANGED <<program, at, open, scopes, currentScope, subroutines, identifiers, named, resolved>>
    BY <1>2 DEF CheckMain, tables
  <2>2. CASE pass' = "rejected"
    BY <2>2, Dies
  <2>3. CASE pass' = "RefWalk"
    BY <1>0, <2>1, <2>3, NamesPassOn DEF Live, Walking
  <2> QED  BY <2>1, <2>2, <2>3
<1>3. CASE RefWalk /\ UNCHANGED <<shape, program>>
  BY <1>3, NamesRefWalkStep
<1>4. CASE TypeWalkIdentifiers
  <2>1. /\ pass = "RefWalk" /\ pass' \in {"accepted", "rejected"}
        /\ UNCHANGED <<program, at, open, scopes, currentScope, subroutines, identifiers, named, resolved>>
    BY <1>4 DEF TypeWalkIdentifiers, tables
  <2>2. CASE pass' = "rejected"
    BY <2>2, Dies
  <2>3. CASE pass' = "accepted"
    BY <1>0, <2>1, <2>3, NamesPassOn DEF Live, Walking
  <2> QED  BY <2>1, <2>2, <2>3
<1>5. CASE UNCHANGED vars
  <2>1. /\ UNCHANGED <<program, at, open, scopes, currentScope, subroutines, identifiers, named, resolved>>
        /\ pass' = pass
    BY <1>5 DEF vars, tables
  <2>2. CASE ~Live
    BY <2>1, <2>2, Dies DEF Live
  <2>3. CASE Live
    BY <1>0, <2>1, <2>3, NamesPassOn DEF Live, Walking
  <2> QED  BY <2>2, <2>3
<1> QED  BY <1>1, <1>2, <1>3, <1>4, <1>5 DEF Next

LEMMA NamesInvariant == Spec => []NInv
<1>1. Init => NInv
  BY NamesInitially
<1>2. IInv /\ NInv /\ [Next]_vars => NInv'
  BY NamesStep
<1> QED  BY <1>1, <1>2, Invariant, PTL DEF Spec

\* In a program that is accepted every name means the innermost declaration
\* around it that comes before it, whatever the program, but for a declaration
\* that follows on the same line and for a subroutine declared with a different
\* number of parameters: the scopes DefWalk made, read by RefWalk with all that
\* was declared later already in them, and its test on line numbers
\* (BaseScope::resolve, SubroutineSymbol::resolve, RefWalk::visitIdentifier).
THEOREM NamesResolveLexically == Spec => []UsesResolveLexically
<1>1. ASSUME IInv, NInv PROVE UsesResolveLexically
  <2>1. TextOK /\ IdentifiersOK /\ ResolvedOK
    BY <1>1 DEF IInv, Rest, NInv
  <2>2. ASSUME pass = "accepted", NEW id \in Identifiers
        PROVE  LET i == id[1]
                   name == UsedName(program[i], id[2])
               IN  \/ resolved[i][id[2]] = MeaningOf(i, id[2])
                   \/ NamesakeOnItsLine(i, name) \/ Misdeclared(i, name)
    <3>1. id[1] \in DOMAIN identifiers /\ id[2] \in DOMAIN identifiers[id[1]]
      BY DEF Identifiers
    <3>2. /\ Len(identifiers) = Len(program) /\ DOMAIN identifiers = 1 .. Len(identifiers)
          /\ Len(resolved) = Len(program)
      <4>1. Len(program) \in Nat /\ Len(resolved) = at - 1 /\ at = Len(program) + 1
        BY <2>1, <2>2 DEF TextOK, IdentifiersOK
      <4> QED  BY <2>1, <2>2, <4>1 DEF IdentifiersOK, ResolvedOK, Live
    <3>3. Right(id[1], id[2])
      <4> HIDE DEF Right
      <4> QED  BY <2>1, <2>2, <3>1, <3>2 DEF ResolvedOK, Live
    <3> HIDE DEF MeaningOf, NamesakeOnItsLine, Misdeclared, UsedName
    <3> QED  BY <3>3 DEF Right
  <2> HIDE DEF MeaningOf, NamesakeOnItsLine, Misdeclared, UsedName, Identifiers
  <2> QED  BY <2>2 DEF UsesResolveLexically
<1> QED  BY <1>1, Invariant, NamesInvariant, PTL

(***************************************************************************)
(* What a name can mean: nothing, a variable that does not come after it,  *)
(* or a name in the header of a node it is in.                             *)
(***************************************************************************)
Known(sym, i, name) ==
  \/ sym = nullptr
  \/ \E d \in DOMAIN program : d <= i /\ program[d].kind = "var" /\ sym = <<d, 1>>
  \/ \E b \in Enclosing(i) : sym = InHeader(b, name)

LEMMA MeaningIsKnown ==
  ASSUME TextOK, NEW i \in 1 .. Len(program), NEW name
  PROVE  Known(Meaning(i, name), i, name)
<1> DEFINE E == Enclosing(i) \cup {0}
           Fit(b) == Known(MeansIn(i, name, b), i, name)
           T == {k \in 0 .. i : \A b \in E : b <= k => Fit(b)}
<1>1. /\ Len(program) \in Nat /\ DOMAIN program = 1 .. Len(program)
      /\ i \in Nat /\ i \in 1 .. Len(program) + 1
  BY TextIs
<1>2. \A b \in E : b \in 0 .. i /\ b \in Nat /\ b \in 0 .. Len(program)
  BY <1>1, EnclosingFacts
<1>3. \A b \in E : b # 0 => Body(b) \in E /\ Body(b) < b /\ Body(b) \in Nat
  <2>1. ASSUME NEW b \in E, b # 0 PROVE Body(b) \in E /\ Body(b) < b
    BY <1>1, <2>1, EnclosingChain
  <2> QED  BY <1>2, <2>1
<1>4. ASSUME NEW b \in E, b # 0 => Fit(Body(b)) PROVE Fit(b)
  <2>0. b \in 0 .. Len(program)
    BY <1>2
  <2>1. CASE Before(i, name, b) # {}
    <3>1. Before(i, name, b) \in SUBSET (0 .. i)
      BY <1>1 DEF Before, DeclaredIn
    <3>2. PICK d : d = Max(Before(i, name, b))
      OBVIOUS
    <3>3. d \in Before(i, name, b)
      <4> HIDE DEF Before
      <4> QED  BY <1>1, <2>1, <3>1, <3>2, Extremes
    <3>4. d \in DOMAIN program /\ d <= i /\ program[d].kind = "var"
      BY <3>3 DEF Before, DeclaredIn
    <3>5. MeansIn(i, name, b) = <<d, 1>>
      <4> HIDE DEF Before, MeansIn
      <4> QED  BY <2>0, <2>1, <3>2, MeansCases
    <3> HIDE DEF MeansIn
    <3> QED  BY <3>4, <3>5 DEF Known
  <2>2. CASE Before(i, name, b) = {} /\ b = 0
    <3>1. MeansIn(i, name, b) = nullptr
      <4> HIDE DEF Before, MeansIn
      <4> QED  BY <2>0, <2>2, MeansCases
    <3> HIDE DEF MeansIn, nullptr
    <3> QED  BY <3>1 DEF Known
  <2>3. CASE Before(i, name, b) = {} /\ b # 0 /\ InHeader(b, name) # nullptr
    <3>1. MeansIn(i, name, b) = InHeader(b, name) /\ b \in Enclosing(i)
      <4> HIDE DEF Before, MeansIn, InHeader, nullptr
      <4> QED  BY <2>0, <2>3, MeansCases
    <3> HIDE DEF MeansIn, nullptr, InHeader
    <3> QED  BY <3>1 DEF Known
  <2>4. CASE Before(i, name, b) = {} /\ b # 0 /\ InHeader(b, name) = nullptr
    <3>1. MeansIn(i, name, b) = MeansIn(i, name, Body(b))
      <4> HIDE DEF Before, MeansIn, InHeader, nullptr
      <4> QED  BY <2>0, <2>4, MeansCases
    <3> HIDE DEF MeansIn, nullptr, InHeader
    <3> QED  BY <1>4, <2>4, <3>1
  <2> HIDE DEF Before, InHeader, nullptr
  <2> QED  BY <2>1, <2>2, <2>3, <2>4
<1> HIDE DEF E, Fit
<1>5. 0 \in T
  <2>1. \A b \in E : b <= 0 => b = 0
    BY <1>2
  <2> QED  BY <1>1, <1>4, <2>1
<1>6. ASSUME NEW k \in 0 .. i - 1, k \in T PROVE k + 1 \in T
  <2>1. ASSUME NEW b \in E, b <= k + 1 PROVE Fit(b)
    <3>1. b # 0 => Body(b) \in E /\ Body(b) <= k
      BY <1>2, <1>3, <2>1
    <3> QED  BY <1>4, <1>6, <3>1
  <2>2. k + 1 \in 0 .. i
    BY <1>1
  <2> QED  BY <2>1, <2>2
<1>7. 0 .. i \subseteq T
  <2> HIDE DEF T
  <2> QED  BY <1>1, <1>5, <1>6, IntervalInduction
<1>8. \A b \in E : Fit(b)
  <2>1. i \in T
    BY <1>1, <1>7
  <2> QED  BY <1>2, <2>1
<1>9. Body(i) \in E
  BY <1>1, EnclosingFacts DEF E
<1>10. Known(MeansIn(i, name, Body(i)), i, name)
  BY <1>8, <1>9 DEF Fit
<1> HIDE DEF MeansIn, Known, Meaning
<1> QED  BY <1>10, MeaningIs

\* An identifier in the text, too.
LEMMA MeaningOfIsKnown ==
  ASSUME TextOK, NEW i \in 1 .. Len(program), NEW k, NEW name, name = UsedName(program[i], k)
  PROVE  \/ Known(MeaningOf(i, k), i, name)
         \/ program[i].kind = "generator" /\ MeaningOf(i, k) = InHeader(i, name)
<1>1. Known(Meaning(i, name), i, name)
  BY MeaningIsKnown
<1> HIDE DEF Known, Meaning, InHeader, nullptr, UsedName
<1> QED  BY <1>1 DEF MeaningOf

(***************************************************************************)
(* The nodes around a node are open when it is visited.                    *)
(***************************************************************************)
LEMMA EnclosingAreOpen ==
  ASSUME TextOK, NEW i \in 1 .. Len(program) + 1, Around(i), NEW b \in Enclosing(i), Depth[b] >= 0
  PROVE  IsOpen(b)
<1>1. /\ Len(program) \in Nat /\ i \in Nat /\ b \in 1 .. i - 1
      /\ \A k \in 1 .. Len(program) + 1 : Depth[k] \in Int
  BY TextIs DEF Enclosing
<1>2. b \in 1 .. Len(program) /\ b \in Nat /\ Depth[b] \in Int /\ i \in b + 1 .. i
  BY <1>1
<1>3. \A k \in b + 1 .. i : Depth[k] > Depth[b]
  BY DEF Enclosing
<1>4. /\ Len(open) = Depth[i] /\ open \in Seq(DOMAIN program) /\ Len(open) \in Nat
      /\ \A k \in 1 .. Len(open) :
           /\ open[k] < i /\ Depth[open[k]] = k - 1 /\ open[k] \in 1 .. Len(program)
           /\ \A j \in open[k] + 1 .. i : Depth[j] >= k
  <2>1. \A k \in 1 .. Len(open) : open[k] \in 1 .. Len(program)
    BY TextIs, OpenBodies
  <2>2. open \in Seq(DOMAIN program)
    BY DEF TextOK
  <2>3. Len(open) \in Nat
    <3> HIDE DEF Nodes
    <3> QED  BY ONLY <2>2
  <2>4. /\ Len(open) = Depth[i]
        /\ \A k \in 1 .. Len(open) :
             /\ open[k] < i /\ Depth[open[k]] = k - 1
             /\ \A j \in open[k] + 1 .. i : Depth[j] >= k
    BY DEF Around
  <2> QED  BY ONLY <2>1, <2>2, <2>3, <2>4
<1>5. PICK k : k = Depth[b] + 1
  OBVIOUS
<1>6. Depth[i] > Depth[b] /\ Depth[i] \in Int
  BY <1>1, <1>2, <1>3
<1>7. k \in 1 .. Len(open)
  BY <1>2, <1>4, <1>5, <1>6
<1>8. PICK o : o = open[k]
  OBVIOUS
<1>9. o < i /\ Depth[o] = Depth[b] /\ o \in Nat /\ \A j \in o + 1 .. i : Depth[j] >= k
  <2>1. /\ open[k] < i /\ Depth[open[k]] = k - 1 /\ open[k] \in 1 .. Len(program)
        /\ \A j \in open[k] + 1 .. i : Depth[j] >= k
    BY <1>4, <1>7
  <2> QED  BY ONLY <1>2, <1>1, <1>5, <1>8, <2>1
<1>10. ~(o < b)
  <2>1. o < b => b \in o + 1 .. i
    BY <1>1, <1>2, <1>9
  <2>2. o < b => Depth[b] >= k
    BY <1>9, <2>1
  <2> QED  BY <1>2, <1>5, <2>2
<1>11. ~(b < o)
  <2>1. b < o => o \in b + 1 .. i
    BY <1>1, <1>2, <1>9
  <2> QED  BY <1>2, <1>3, <1>9, <2>1
<1>12. o = b
  BY <1>2, <1>9, <1>10, <1>11
<1> QED  BY <1>7, <1>8, <1>12 DEF IsOpen

(***************************************************************************)
(* What else holds of the walks: the second inductive invariant.           *)
(***************************************************************************)
\* Only subroutines and calls name one; a typedef is at the top level.
KindsOK ==
  Live => \A i \in DOMAIN program :
    /\ program[i].kind \notin {"subroutine", "call"} => program[i].subroutine = noName
    /\ IsTypedef(i) => /\ Depth[i] = 0 /\ \E t \in Typedefs : program[i].names = <<t>>
                       /\ program[i].use \in Typedefs \cup {builtIn}

\* What was opened is closed.
ClosedOK ==
  /\ pass = "RefWalk" => Depth[Len(program) + 1] = 0
  /\ pass = "accepted" => open = <<>>

MainOK == pass = "DefWalk" /\ Declarations(main) # {} => hasMainProcedure

BodiesCounted ==
  Walking => \A f \in Subroutines :
    (\E j \in Declarations(f) : program[j].body) => subroutines[f].numTimesDefined # 0

TypedefsDeclared ==
  pass = "DefWalk" =>
    \A t \in DOMAIN typeSymbols : \E i \in DOMAIN program : IsTypedef(i) /\ TypedefName(i) = t

\* RefWalk has given a typedef its target, unless that comes later.
TypedefsTaken ==
  pass = "RefWalk" =>
    \A i \in 1 .. at - 1 : IsTypedef(i) =>
      \/ typeSymbols[TypedefName(i)] # unset
      \/ program[i].use # builtIn /\ program[i].use \notin DOMAIN typeSymbols

AllResolved ==
  Live => \A i \in 1 .. Len(resolved) : DOMAIN resolved[i] = DOMAIN identifiers[i]

WInv ==
  /\ KindsOK /\ ClosedOK /\ MainOK /\ BodiesCounted /\ TypedefsDeclared /\ TypedefsTaken
  /\ AllResolved /\ WellFormedIsAccepted

(***************************************************************************)
(* Parameters.                                                             *)
(***************************************************************************)
\* Two subroutines do not enclose one node.
LEMMA OneSubroutineAround ==
  ASSUME TextOK, LinesOK, Live, NEW i \in 1 .. Len(program),
         NEW b \in Enclosing(i), NEW c \in Enclosing(i),
         program[b].kind = "subroutine", program[c].kind = "subroutine"
  PROVE  b = c
<1>1. b \in 1 .. i - 1 /\ c \in 1 .. i - 1 /\ i \in Nat /\ i <= Len(program) /\ Len(program) \in Nat
  BY TextIs DEF Enclosing
<1>2. b \in DOMAIN program /\ c \in DOMAIN program /\ b \in Nat /\ c \in Nat
  BY <1>1, TextIs
<1>3. Depth[b] = 0 /\ Depth[c] = 0
  BY <1>2, SubroutineNodes
<1>4. /\ \A k \in (b + 1) .. i : Depth[k] > Depth[b]
      /\ \A k \in (c + 1) .. i : Depth[k] > Depth[c]
  BY DEF Enclosing
<1>5. ~(b < c)
  <2>1. b < c => c \in (b + 1) .. i
    BY <1>1, <1>2
  <2> QED  BY <1>3, <1>4, <2>1
<1>6. ~(c < b)
  <2>1. c < b => b \in (c + 1) .. i
    BY <1>1, <1>2
  <2> QED  BY <1>3, <1>4, <2>1
<1> QED  BY <1>2, <1>5, <1>6

\* A symbol in the header of node b is one of b's names.
LEMMA HeaderSymbol ==
  ASSUME NEW b, NEW name, program[b].names \in Seq(Names), InHeader(b, name) # nullptr
  PROVE  \E q \in 1 .. Len(program[b].names) : InHeader(b, name) = <<b, q>>
<1> DEFINE I == {q \in 1 .. Len(program[b].names) : program[b].names[q] = name}
<1>1. InHeader(b, name) = IF FirstOf(I) = 0 THEN nullptr ELSE <<b, FirstOf(I)>>
  BY HeaderIs
<1>2. I \in SUBSET (1 .. Len(program[b].names)) /\ Len(program[b].names) \in Nat
  OBVIOUS
<1>3. FirstOf(I) # 0
  <2> HIDE DEF InHeader, nullptr, I
  <2> QED  BY <1>1
<1>4. FirstOf(I) \in 1 .. Len(program[b].names)
  <2>1. PICK n, J : n = Len(program[b].names) /\ J = I
    OBVIOUS
  <2>2. n \in Nat /\ J \in SUBSET (1 .. n) /\ FirstOf(J) # 0
    BY <1>2, <1>3, <2>1
  <2>3. FirstOf(J) \in 1 .. n
    BY ONLY <2>2, FirstIsIn
  <2> HIDE DEF I
  <2> QED  BY <2>1, <2>3
<1> HIDE DEF I, InHeader, nullptr
<1> QED  BY <1>1, <1>3, <1>4

\* What the parameters of a subroutine are when both declarations are done
\* with and have as many.
LEMMA KeptParameters ==
  ASSUME TextOK, LinesOK, ArgsOK, pass = "accepted", open = <<>>, NEW f \in Subroutines,
         NEW b \in Declarations(f), b = Max(Declarations(f)),
         \A j \in Declarations(f) : Len(program[j].names) = Len(program[b].names),
         NEW q \in 1 .. Len(program[b].names)
  PROVE  subroutines[f].orderedArgs[q] = <<b, q>>
<1>0. Live
  BY DEF Live
<1>1. \A j \in Declarations(f) : /\ j \in DOMAIN program /\ program[j].kind = "subroutine"
                                 /\ j \in Nat /\ j < at
  BY TextIs DEF Declarations, TextOK
<1>2. \A j \in Declarations(f) :
        /\ Params(j) \in Seq(Nat \X Nat) /\ Len(Params(j)) = Len(program[j].names)
        /\ \A k \in 1 .. Len(program[j].names) : Params(j)[k] = <<j, k>>
  <2>1. ASSUME NEW j \in Declarations(f)
        PROVE  /\ Params(j) \in Seq(Nat \X Nat) /\ Len(Params(j)) = Len(program[j].names)
               /\ \A k \in 1 .. Len(program[j].names) : Params(j)[k] = <<j, k>>
    <3> HIDE DEF Params, Declarations
    <3> QED  BY <1>0, <1>1, ParamsAre
  <2> QED  BY <2>1
<1>3. \A j \in Declarations(f) : Finished(j)
  <2>1. \A j : ~IsOpen(j)
    BY DEF IsOpen
  <2> QED  BY <1>1, <2>1 DEF Finished
<1>4. Undeclared(f) \/ (\E j : DeclaredOnce(f, j)) \/ (\E j, k : DeclaredTwice(f, j, k))
  BY <1>0 DEF ArgsOK
<1> HIDE DEF Declarations, Params, Finished
<1>5. ~Undeclared(f)
  BY DEF Undeclared
<1>6. CASE \E j : DeclaredOnce(f, j)
  <2>1. subroutines[f].orderedArgs = Params(b)
    BY <1>6 DEF DeclaredOnce
  <2> QED  BY <1>2, <2>1
<1>7. CASE \E j, k : DeclaredTwice(f, j, k)
  <2>1. PICK j, k : DeclaredTwice(f, j, k)
    BY <1>7
  <2>2. Declarations(f) = {j, k} /\ j < k /\ subroutines[f].orderedArgs = SecondHalf(Params(j) \o Params(k))
    BY <1>3, <2>1 DEF DeclaredTwice
  <2>3. j \in Nat /\ k \in Nat /\ k \in Declarations(f) /\ j \in Declarations(f)
    BY <1>1, <2>2
  <2>4. k = b
    <3>1. {j, k} \in SUBSET (0 .. k) /\ {j, k} # {}
      BY <2>2, <2>3
    <3>2. /\ Max({j, k}) \in {j, k} /\ \A i \in {j, k} : i <= Max({j, k})
      BY ONLY <2>3, <3>1, Extremes
    <3>3. Max({j, k}) = k
      BY <2>2, <2>3, <3>2
    <3> QED  BY <2>2, <3>3
  <2>5. PICK s, t, h, n : /\ s = Params(j) /\ t = Params(b) /\ h = SecondHalf(s \o t)
                          /\ n = Len(program[b].names)
    OBVIOUS
  <2>6. /\ s \in Seq(Nat \X Nat) /\ t \in Seq(Nat \X Nat) /\ Len(s) = n /\ Len(t) = n
        /\ subroutines[f].orderedArgs = h /\ n \in Nat /\ q \in 1 .. n /\ t[q] = <<b, q>>
    <3>1. /\ Params(j) \in Seq(Nat \X Nat) /\ Len(Params(j)) = Len(program[j].names)
          /\ Params(b) \in Seq(Nat \X Nat) /\ Len(Params(b)) = Len(program[b].names)
          /\ Params(b)[q] = <<b, q>> /\ Len(program[j].names) = Len(program[b].names)
      BY <1>2, <2>3
    <3>2. s \in Seq(Nat \X Nat) /\ t \in Seq(Nat \X Nat) /\ Len(s) = n /\ Len(t) = n /\ t[q] = <<b, q>>
      BY ONLY <2>5, <3>1
    <3>3. n \in Nat
      BY ONLY <3>2
    <3>4. subroutines[f].orderedArgs = h /\ q \in 1 .. n
      <4> HIDE DEF SecondHalf
      <4> QED  BY <2>2, <2>4, <2>5
    <3> QED  BY ONLY <3>2, <3>3, <3>4
  <2>7. (Len(s) + Len(t)) \div 2 = n
    BY <2>6
  <2>8. LET cut == (Len(s) + Len(t)) \div 2
        IN  /\ Len(h) = Len(s) + Len(t) - cut
            /\ \A p \in 1 .. Len(h) :
                 h[p] = IF cut + p <= Len(s) THEN s[cut + p] ELSE t[cut + p - Len(s)]
    <3>1. h = SecondHalf(s \o t) /\ s \in Seq(Nat \X Nat) /\ t \in Seq(Nat \X Nat)
      BY <2>5, <2>6
    <3> HIDE DEF SecondHalf
    <3> QED  BY ONLY <3>1, SecondHalfIs
  <2>9. Len(h) = n /\ h[q] = IF n + q <= n THEN s[n + q] ELSE t[n + q - n]
    BY <2>6, <2>7, <2>8
  <2>10. h[q] = t[q]
    <3>1. n \in Nat /\ q \in Nat /\ ~(n + q <= n) /\ n + q - n = q
      BY ONLY <2>6
    <3> QED  BY ONLY <2>9, <3>1
  <2> QED  BY <2>6, <2>10
<1> QED  BY <1>4, <1>5, <1>6, <1>7

LEMMA ParametersBound ==
  ASSUME IInv, NInv, WInv
  PROVE  ParametersAreBound
<1> SUFFICES ASSUME pass = "accepted", NEW id \in Identifiers,
                    NEW sym, sym = MeaningOf(id[1], id[2]),
                    NEW f, f = program[sym[1]].subroutine,
                    sym # nullptr, f \in Subroutines,
                    ~NamesakeOnItsLine(id[1], UsedName(program[id[1]], id[2])),
                    sym[1] = Max(Declarations(f)),
                    \A j \in Declarations(f) : Len(program[j].names) = Len(program[sym[1]].names)
             PROVE  resolved[id[1]][id[2]] = sym /\ subroutines[f].orderedArgs[sym[2]] = sym
  <2> HIDE DEF MeaningOf, NamesakeOnItsLine, UsedName, Declarations, Identifiers, nullptr
  <2> QED  BY DEF ParametersAreBound
<1>1. PICK i, k, name : i = id[1] /\ k = id[2] /\ name = UsedName(program[id[1]], id[2])
  OBVIOUS
<1>2. /\ TextOK /\ LinesOK /\ ArgsOK /\ KindsOK /\ ResolvedOK /\ Live /\ open = <<>> /\ IdentifiersOK
  BY DEF IInv, Rest, NInv, WInv, ClosedOK, Live
<1>3. /\ i \in 1 .. Len(program) /\ k \in DOMAIN identifiers[i] /\ Len(resolved) = Len(program)
      /\ DOMAIN program = 1 .. Len(program)
  <2>1. i \in DOMAIN identifiers /\ k \in DOMAIN identifiers[i]
    <3>1. id \in Identifiers /\ i = id[1] /\ k = id[2]
      BY <1>1
    <3> QED  BY ONLY <3>1 DEF Identifiers
  <2>2. /\ Len(identifiers) = Len(program) /\ DOMAIN identifiers = 1 .. Len(identifiers)
        /\ Len(resolved) = Len(program)
    <3>1. Len(program) \in Nat
      BY <1>2, TextIs
    <3>2. at = Len(program) + 1
      BY <1>2 DEF TextOK
    <3>3. Len(resolved) = at - 1 /\ DOMAIN identifiers = 1 .. Len(identifiers)
      <4>1. IdentifiersOK
        BY <1>2
      <4> HIDE DEF Live
      <4> QED  BY ONLY <4>1 DEF IdentifiersOK
    <3>4. Len(identifiers) = Len(program)
      BY <1>2 DEF ResolvedOK
    <3> QED  BY ONLY <3>1, <3>2, <3>3, <3>4
  <2> QED  BY <1>2, <2>1, <2>2, TextIs
<1>4. Right(i, k)
  BY <1>2, <1>3 DEF ResolvedOK
<1>5. noName \notin Subroutines
  BY NamesAre
<1>6. \/ Known(sym, i, name)
      \/ program[i].kind = "generator" /\ sym = InHeader(i, name)
  <2> HIDE DEF MeaningOf, Known, UsedName, InHeader
  <2> QED  BY <1>1, <1>2, <1>3, MeaningOfIsKnown
<1>7. PICK b \in Enclosing(i) : sym = InHeader(b, name)
  <2>1. ASSUME NEW d \in DOMAIN program, program[d].kind = "var", sym = <<d, 1>> PROVE FALSE
    <3>1. sym[1] = d
      BY ONLY <2>1
    <3>2. program[d].subroutine = noName
      BY <1>2, <2>1 DEF KindsOK
    <3> HIDE DEF noName
    <3> QED  BY <1>5, <3>1, <3>2
  <2>2. ASSUME program[i].kind = "generator", sym = InHeader(i, name) PROVE FALSE
    <3>1. \E q \in 1 .. Len(program[i].names) : InHeader(i, name) = <<i, q>>
      <4>1. program[i].names \in Seq(Names)
        BY <1>2, <1>3, <2>2 DEF LinesOK, WrittenOK, Headed
      <4> HIDE DEF InHeader, nullptr
      <4> QED  BY <2>2, <4>1, HeaderSymbol
    <3>2. sym[1] = i
      <4> HIDE DEF InHeader
      <4> QED  BY ONLY <2>2, <3>1
    <3>3. program[i].subroutine = noName
      BY <1>2, <1>3, <2>2 DEF KindsOK
    <3> HIDE DEF noName
    <3> QED  BY <1>5, <3>2, <3>3
  <2> HIDE DEF InHeader, nullptr
  <2> QED  BY <1>6, <2>1, <2>2 DEF Known
<1>8. /\ b \in DOMAIN program /\ HasBody(program[b]) /\ b \in Nat /\ b \in 1 .. Len(program)
  <2>1. i \in 1 .. Len(program) + 1 /\ i \in Nat /\ Len(program) \in Nat
    <3>1. Len(program) \in Nat
      BY <1>2, TextIs
    <3> QED  BY ONLY <1>3, <3>1
  <2>2. b \in 1 .. i - 1 /\ HasBody(program[b])
    BY <1>2, <2>1, EnclosingFacts
  <2>3. b \in Nat /\ b \in 1 .. Len(program)
    BY ONLY <1>3, <2>1, <2>2
  <2> QED  BY ONLY <1>3, <2>2, <2>3
<1>9. PICK q \in 1 .. Len(program[b].names) : sym = <<b, q>>
  <2>1. CASE program[b].kind \in Headed
    <3>1. program[b].names \in Seq(Names)
      BY <1>2, <1>8, <2>1 DEF LinesOK, WrittenOK
    <3> HIDE DEF InHeader, nullptr
    <3> QED  BY <1>7, <3>1, HeaderSymbol
  <2>2. CASE program[b].kind \notin Headed
    <3>1. program[b].kind \in Headless
      BY <1>8, <2>2 DEF HasBody, Headed, Headless, Openers
    <3>2. program[b].names \in Seq(Names)
      <4>1. program[b].names = <<>>
        BY <1>2, <1>8, <3>1 DEF LinesOK, WrittenOK
      <4> QED  BY ONLY <4>1, EmptyLists
    <3> HIDE DEF InHeader, nullptr
    <3> QED  BY <1>7, <3>2, HeaderSymbol
  <2> QED  BY <2>1, <2>2
<1>10. sym[1] = b /\ sym[2] = q /\ f = program[b].subroutine
  <2>1. sym[1] = b /\ sym[2] = q
    BY ONLY <1>9
  <2> HIDE DEF MeaningOf
  <2> QED  BY <2>1
<1>11. program[b].kind = "subroutine"
  <2>1. program[b].kind \in {"subroutine", "call"}
    <3> HIDE DEF noName
    <3> QED  BY <1>2, <1>5, <1>8, <1>10 DEF KindsOK
  <2> QED  BY <1>8, <2>1 DEF HasBody, Openers
<1>12. b \in Declarations(f)
  BY <1>8, <1>10, <1>11 DEF Declarations
<1>13. subroutines[f].orderedArgs[q] = <<b, q>>
  <2>1. b = Max(Declarations(f)) /\ \A j \in Declarations(f) : Len(program[j].names) = Len(program[b].names)
    BY <1>10
  <2> HIDE DEF Declarations
  <2> QED  BY <1>2, <1>12, <2>1, KeptParameters
<1>14. ~Misdeclared(i, name)
  <2> SUFFICES ASSUME NEW g \in Subroutines, NEW j \in Declarations(g), NEW l \in Declarations(g),
                      j \in Enclosing(i),
                      \/ Len(program[j].names) - Len(program[l].names) > 1
                      \/ Len(program[j].names) - Len(program[l].names) < 0
               PROVE  FALSE
    <3> HIDE DEF Declarations, Enclosing, InHeader, nullptr
    <3> QED  BY Zenon DEF Misdeclared
  <2>1. program[j].kind = "subroutine" /\ program[j].subroutine = g
    BY DEF Declarations
  <2>2. j = b
    BY <1>2, <1>3, <1>7, <1>11, <2>1, OneSubroutineAround
  <2>3. g = f
    BY <1>10, <2>1, <2>2
  <2>4. Len(program[j].names) = Len(program[l].names) /\ Len(program[l].names) \in Nat
    <3>1. Len(program[j].names) = Len(program[b].names) /\ Len(program[l].names) = Len(program[b].names)
      BY <1>10, <2>3
    <3>2. Len(program[b].names) \in Nat
      BY <1>2, <1>8, <1>11, SubroutineNodes
    <3> QED  BY <3>1, <3>2
  <2>5. PICK x, y : x = Len(program[j].names) /\ y = Len(program[l].names)
    OBVIOUS
  <2>6. x = y /\ y \in Nat /\ (x - y > 1 \/ x - y < 0)
    BY <2>4, <2>5
  <2> QED  BY ONLY <2>6
<1>15. resolved[i][k] = sym
  <2>1. name = UsedName(program[i], k) /\ sym = MeaningOf(i, k)
    BY <1>1
  <2>2. ~NamesakeOnItsLine(i, name)
    BY <1>1
  <2> HIDE DEF MeaningOf, NamesakeOnItsLine, UsedName, Misdeclared
  <2> QED  BY <1>4, <1>14, <2>1, <2>2 DEF Right
<1> HIDE DEF MeaningOf
<1> QED  BY <1>1, <1>9, <1>10, <1>13, <1>15

(***************************************************************************)
(* What makes a program other than well formed.                            *)
(***************************************************************************)
Alike(i, j, kind) ==
  /\ program[i].kind = kind /\ program[j].kind = kind
  /\ Body(i) = Body(j) /\ program[i].names = program[j].names

Clash ==
  \E i, j \in DOMAIN program : i # j /\ (Alike(i, j, "var") \/ Alike(i, j, "typedef"))
Thrice ==
  \E f \in Subroutines : \E i \in Declarations(f) : ~(Cardinality(Declarations(f)) <= 2)
StrayBreak ==
  \E i \in DOMAIN program :
    program[i].kind = "break" /\ \A j \in Enclosing(i) : program[j].kind \notin {"loop", "iterator"}
NoMain == Declarations(main) = {}
Unmeant ==
  \E i \in DOMAIN identifiers : \E k \in DOMAIN identifiers[i] : MeaningOf(i, k) = nullptr
Shadowed ==
  \E i \in DOMAIN identifiers : \E k \in DOMAIN identifiers[i] : \E name :
    name = UsedName(program[i], k) /\ LaterNamesakes(i, name) # {}
Uneven ==
  \E f \in Subroutines : \E j, k \in Declarations(f) :
    Len(program[j].names) # Len(program[k].names)
Bodiless ==
  \E f \in Subroutines :
    /\ \E i \in DOMAIN program :
         program[i].kind \in {"call", "subroutine"} /\ program[i].subroutine = f
    /\ \A j \in Declarations(f) : ~program[j].body
Variable ==
  \E i \in DOMAIN program : program[i].kind = "var" /\ Body(i) = 0 /\ ~program[i].const
EarlyTypedef ==
  \E i \in DOMAIN program :
    /\ program[i].kind = "typedef" /\ program[i].use # builtIn
    /\ \A j \in 1 .. i - 1 : ~(program[j].kind = "typedef" /\ program[j].names = <<program[i].use>>)

Flawed ==
  \/ Clash \/ Thrice \/ StrayBreak \/ NoMain \/ Unmeant
  \/ Shadowed \/ Uneven \/ Bodiless \/ Variable \/ EarlyTypedef

LEMMA FlawsShow == Flawed => ~WellFormed
<1> SUFFICES ASSUME Flawed, WellFormed PROVE FALSE
  OBVIOUS
<1>1. \A i \in DOMAIN identifiers : \A k \in DOMAIN identifiers[i] :
        MeaningOf(i, k) # nullptr /\ LaterNamesakes(i, UsedName(program[i], k)) = {}
  <2>1. \A id \in Identifiers :
          MeaningOf(id[1], id[2]) # nullptr /\ LaterNamesakes(id[1], UsedName(program[id[1]], id[2])) = {}
    BY DEF WellFormed
  <2>2. \A i \in DOMAIN identifiers : \A k \in DOMAIN identifiers[i] : <<i, k>> \in Identifiers
    BY DEF Identifiers
  <2>3. \A i, k : <<i, k>>[1] = i /\ <<i, k>>[2] = k
    OBVIOUS
  <2> HIDE DEF MeaningOf, LaterNamesakes, UsedName, Identifiers, nullptr
  <2> QED  BY ONLY <2>1, <2>2, <2>3
<1>2. ~Unmeant /\ ~Shadowed
  <2> HIDE DEF MeaningOf, LaterNamesakes, UsedName, nullptr
  <2> QED  BY <1>1 DEF Unmeant, Shadowed
<1>3. ~Clash
  <2>1. \A i, j \in DOMAIN program :
          (i # j /\ {program[i].kind, program[j].kind} \in {{"var"}, {"typedef"}} /\ Body(i) = Body(j))
            => program[i].names # program[j].names
    BY DEF WellFormed
  <2> HIDE DEF Body
  <2> QED  BY <2>1 DEF Clash, Alike
<1>4. \A i \in DOMAIN program : program[i].kind \in {"call", "subroutine"} =>
        /\ Cardinality(Declarations(program[i].subroutine)) <= 2
        /\ \E j \in Declarations(program[i].subroutine) : program[j].body
        /\ \A j, k \in Declarations(program[i].subroutine) : Len(program[j].names) = Len(program[k].names)
  BY DEF WellFormed
<1>5. \A f : \A i \in Declarations(f) :
        i \in DOMAIN program /\ program[i].kind = "subroutine" /\ program[i].subroutine = f
  BY DEF Declarations
<1>6. ~Thrice /\ ~Uneven /\ ~Bodiless
  <2> HIDE DEF Declarations
  <2>1. ~Thrice
    BY <1>4, <1>5 DEF Thrice
  <2>2. ~Uneven
    BY <1>4, <1>5 DEF Uneven
  <2>3. ~Bodiless
    BY <1>4 DEF Bodiless
  <2> QED  BY <2>1, <2>2, <2>3
<1>7. ~StrayBreak /\ ~NoMain /\ ~Variable /\ ~EarlyTypedef
  <2>1. ~NoMain
    BY DEF WellFormed, NoMain
  <2>2. \A i \in DOMAIN program :
          /\ program[i].kind = "var" /\ Body(i) = 0 => program[i].const
          /\ program[i].kind = "break" => \E j \in Enclosing(i) : program[j].kind \in {"loop", "iterator"}
          /\ program[i].kind = "typedef" /\ program[i].use # builtIn =>
               \E j \in 1..(i - 1) : program[j].kind = "typedef" /\ program[j].names = <<program[i].use>>
    BY DEF WellFormed
  <2> HIDE DEF Body, Enclosing, builtIn
  <2> QED  BY <2>1, <2>2 DEF StrayBreak, Variable, EarlyTypedef
<1> HIDE DEF Clash, Thrice, StrayBreak, NoMain, Unmeant, Shadowed, Uneven, Bodiless, Variable, EarlyTypedef
<1> QED  BY <1>2, <1>3, <1>6, <1>7 DEF Flawed

LEMMA FlawsShowNext == Flawed' => ~WellFormed'
BY FlawsShow, PTL

\* The flaws stay while RefWalk reads the program.
LEMMA FlawsStay ==
  ASSUME UNCHANGED <<program, identifiers>>, TextOK, TextOK', Len(identifiers) <= Len(program),
         IdentifiersOK, Flawed
  PROVE  Flawed'
<1>1. Depth' = Depth
  BY DEF Depth
<1>2. \A i : Enclosing(i)' = Enclosing(i) /\ Body(i)' = Body(i)
  BY <1>1 DEF Enclosing, Body
<1>3. \A f : Declarations(f)' = Declarations(f)
  BY DEF Declarations
<1>4. \A b, name : DeclaredIn(b, name)' = DeclaredIn(b, name)
  BY <1>2 DEF DeclaredIn
<1>5. \A i, name : LaterNamesakes(i, name)' = LaterNamesakes(i, name)
  BY <1>2, <1>4 DEF LaterNamesakes
<1>6. \A i \in DOMAIN identifiers : \A k : MeaningOf(i, k)' = MeaningOf(i, k)
  <2>1. \A i \in 1 .. Len(program) : \A k : MeaningOf(i, k)' = MeaningOf(i, k)
    <3> HIDE DEF MeaningOf
    <3> QED  BY TextStays
  <2>2. \A i \in DOMAIN identifiers : i \in 1 .. Len(program)
    <3>1. DOMAIN identifiers = 1 .. Len(identifiers) /\ Len(identifiers) \in Nat
      BY DEF IdentifiersOK
    <3>2. Len(program) \in Nat
      BY TextIs
    <3> QED  BY <3>1, <3>2
  <2> HIDE DEF MeaningOf
  <2> QED  BY <2>1, <2>2
<1>7. program' = program /\ identifiers' = identifiers
  OBVIOUS
<1> HIDE DEF Enclosing, Body, Declarations, MeaningOf, LaterNamesakes, UsedName, nullptr, builtIn
<1>8. Clash => Clash'
  BY <1>2, <1>7 DEF Clash, Alike
<1>9. (Thrice => Thrice') /\ (NoMain => NoMain')
  BY <1>3 DEF Thrice, NoMain
<1>10. StrayBreak => StrayBreak'
  BY <1>2, <1>7 DEF StrayBreak
<1>11. Unmeant => Unmeant'
  BY <1>6, <1>7 DEF Unmeant
<1>12. Shadowed => Shadowed'
  <2>1. \A i, k : UsedName(program[i], k)' = UsedName(program[i], k)
    BY <1>7 DEF UsedName
  <2> QED  BY <1>5, <1>7, <2>1 DEF Shadowed
<1>13. Uneven => Uneven'
  BY <1>3, <1>7 DEF Uneven
<1>14. Bodiless => Bodiless'
  BY <1>3, <1>7 DEF Bodiless
<1>15. Variable => Variable'
  BY <1>2, <1>7 DEF Variable
<1>16. EarlyTypedef => EarlyTypedef'
  BY <1>7 DEF EarlyTypedef
<1> HIDE DEF Clash, Thrice, StrayBreak, NoMain, Unmeant, Shadowed, Uneven, Bodiless, Variable, EarlyTypedef
<1> QED  BY <1>8, <1>9, <1>10, <1>11, <1>12, <1>13, <1>14, <1>15, <1>16 DEF Flawed

LEMMA Ends ==
  ASSUME pass' \in {"rejected", "crashed"}, ~WellFormed'
  PROVE  WInv'
BY DEF WInv, KindsOK, ClosedOK, MainOK, BodiesCounted, TypedefsDeclared, TypedefsTaken, AllResolved,
       WellFormedIsAccepted, Live, Walking

(***************************************************************************)
(* DefWalk reads a node.                                                   *)
(***************************************************************************)
Written(node) ==
  /\ Reads(node) /\ pass = "DefWalk" /\ UNCHANGED <<at, named, resolved>>
  /\ node.kind \notin {"subroutine", "call"} => node.subroutine = noName
  /\ node.kind = "typedef" => /\ open = <<>> /\ \E t \in Typedefs : node.names = <<t>>
                              /\ node.use \in Typedefs \cup {builtIn}

Noted(node) ==
  /\ (hasMainProcedure \/ (node.kind = "subroutine" /\ node.subroutine = main)) => hasMainProcedure'
  /\ \A f \in Subroutines :
       /\ subroutines[f].numTimesDefined # 0 => subroutines'[f].numTimesDefined # 0
       /\ (node.kind = "subroutine" /\ node.subroutine = f /\ node.body)
             => subroutines'[f].numTimesDefined # 0
  /\ \A t \in DOMAIN typeSymbols' :
       t \in DOMAIN typeSymbols \/ (node.kind = "typedef" /\ node.names = <<t>>)

LEMMA ReadsOn ==
  ASSUME IInv, WInv, NEW node, Written(node), Noted(node), pass' = pass
  PROVE  WInv'
<1>1. /\ TextOK /\ StackOK /\ IdentifiersOK /\ KindsOK /\ Live /\ Walking /\ Reads(node)
      /\ MainOK /\ BodiesCounted /\ TypedefsDeclared /\ pass = "DefWalk" /\ at' = at /\ at = 1
  BY DEF IInv, Rest, WInv, Written, Live, Walking, TextOK
<1>2. PICK new : new = This
  OBVIOUS
<1>3. /\ DOMAIN program' = DOMAIN program \cup {new} /\ program'[new] = node
      /\ \A i \in DOMAIN program : program'[i] = program[i]
  BY <1>1, <1>2, TextGrows
<1>4. /\ \A i \in DOMAIN program : Depth'[i] = Depth[i]
      /\ Depth'[new] = Depth[new]
  <2>1. \A i \in 1 .. This : Depth'[i] = Depth[i]
    BY <1>1, DepthGrows
  <2>2. This = Len(program) + 1 /\ Len(program) \in Nat /\ DOMAIN program = 1 .. Len(program)
    BY <1>1, TextGrows
  <2> QED  BY <1>2, <2>1, <2>2
<1>5. open = <<>> => Depth[new] = 0
  <2>1. Around(This)
    BY <1>1, TextGrows DEF StackOK
  <2>2. Len(open) = Depth[new]
    BY <1>2, <2>1 DEF Around
  <2> QED  BY <2>2
<1>6. KindsOK'
  <2>1. \A i \in DOMAIN program' :
          /\ program'[i].kind \notin {"subroutine", "call"} => program'[i].subroutine = noName
          /\ program'[i].kind = "typedef" =>
               /\ Depth'[i] = 0 /\ \E t \in Typedefs : program'[i].names = <<t>>
               /\ program'[i].use \in Typedefs \cup {builtIn}
    <3> HIDE DEF noName, builtIn
    <3> QED  BY <1>1, <1>3, <1>4, <1>5 DEF Written, KindsOK, IsTypedef
  <2> HIDE DEF noName, builtIn
  <2> QED  BY <2>1 DEF KindsOK, IsTypedef
<1>7. \A f : Declarations(f)' =
              Declarations(f) \cup (IF node.kind = "subroutine" /\ node.subroutine = f THEN {new} ELSE {})
  BY <1>1, <1>2, BodiesGrow
<1>8. \A f : \A j \in Declarations(f) : j \in DOMAIN program
  BY DEF Declarations
<1>9. MainOK'
  <2> HIDE DEF main, Declarations
  <2> QED  BY <1>1, <1>7 DEF MainOK, Noted
<1>10. BodiesCounted'
  <2> HIDE DEF Declarations
  <2> QED  BY <1>1, <1>3, <1>7, <1>8 DEF BodiesCounted, Noted
<1>11. TypedefsDeclared'
  <2>1. ASSUME NEW t \in DOMAIN typeSymbols'
        PROVE  \E i \in DOMAIN program' : program'[i].kind = "typedef" /\ program'[i].names[1] = t
    <3>1. CASE t \in DOMAIN typeSymbols
      BY <1>1, <1>3, <3>1 DEF TypedefsDeclared, IsTypedef, TypedefName
    <3>2. CASE node.kind = "typedef" /\ node.names = <<t>>
      BY <1>3, <3>2
    <3> QED  BY <2>1, <3>1, <3>2 DEF Noted
  <2> QED  BY <2>1 DEF TypedefsDeclared, IsTypedef, TypedefName
<1>12. AllResolved'
  <2>1. Len(resolved) = 0 /\ resolved' = resolved
    BY <1>1 DEF IdentifiersOK, Written
  <2> QED  BY <2>1 DEF AllResolved
<1>13. pass' = "DefWalk"
  BY <1>1
<1> QED  BY <1>6, <1>9, <1>10, <1>11, <1>12, <1>13
         DEF WInv, ClosedOK, TypedefsTaken, WellFormedIsAccepted

\* A node that the tables keep nothing of but scopes.
LEMMA ReadsQuietly ==
  ASSUME IInv, WInv, NEW node \in Nodes, Read(node), node.kind \notin {"subroutine", "typedef"},
         node.kind # "call" => node.subroutine = noName,
         UNCHANGED <<pass, subroutines, typeSymbols, hasMainProcedure>>
  PROVE  WInv'
<1>1. TextOK
  BY DEF IInv, Rest
<1>2. Reads(node) /\ pass = "DefWalk" /\ UNCHANGED <<at, named, resolved>>
  BY <1>1, ReadFacts
<1> HIDE DEF noName, builtIn
<1>3. Written(node)
  BY <1>2 DEF Written
<1>4. Noted(node)
  BY DEF Noted
<1> QED  BY <1>3, <1>4, ReadsOn

\* A node whose names are those of another in the same body.
LEMMA ClashShows ==
  ASSUME TextOK, StackOK, pass = "DefWalk", NEW node, Reads(node), NEW d \in DOMAIN program,
         program[d].kind = node.kind, node.kind \in {"var", "typedef"},
         program[d].names = node.names, Body(d) = Innermost
  PROVE  ~WellFormed'
<1>1. PICK new : new = This
  OBVIOUS
<1>2. /\ DOMAIN program' = DOMAIN program \cup {new} /\ program'[new] = node /\ new \notin DOMAIN program
      /\ program'[d] = program[d] /\ d \in 1 .. new /\ new \in 1 .. new
  <2>1. /\ Len(program) \in Nat /\ This = Len(program) + 1 /\ program'[This] = node
        /\ DOMAIN program = 1 .. Len(program) /\ DOMAIN program' = DOMAIN program \cup {This}
        /\ This \notin DOMAIN program /\ program'[d] = program[d]
    BY TextGrows
  <2> QED  BY <1>1, <2>1
<1>3. Body(d)' = Body(d) /\ Body(new)' = Body(new) /\ Body(new) = Innermost
  <2>1. \A i \in 1 .. new : Body(i)' = Body(i)
    BY <1>1, BodiesGrow
  <2>2. Body(new) = Innermost
    BY <1>1, BodyOfThis
  <2> HIDE DEF Body, Innermost
  <2> QED  BY <1>2, <2>1, <2>2
<1>4. Alike(d, new, node.kind)'
  <2> HIDE DEF Body, Innermost
  <2> QED  BY <1>2, <1>3 DEF Alike
<1>5. Clash'
  <2> HIDE DEF Alike
  <2> QED  BY <1>2, <1>4 DEF Clash
<1> QED  BY <1>5, FlawsShowNext DEF Flawed

LEMMA OutcomeUse ==
  ASSUME IInv, WInv, VisitUse
  PROVE  WInv'
<1>1. PICK u, line, node :
        /\ u \in Names /\ line \in SomeLine
        /\ node = [Node("use", line) EXCEPT !.use = u]
        /\ Read(node)
        /\ UNCHANGED <<pass, open, scopes, currentScope, subroutines, typeSymbols, hasMainProcedure>>
  BY DEF VisitUse
<1>u. u \in Names /\ line \in SomeLine
  BY <1>1
<1> USE <1>u
<1>2. TextOK
  BY DEF IInv, Rest
<1>3. node \in Nodes /\ node.kind = "use" /\ node.subroutine = noName
  <2>1. line \in Nat /\ "use" \in Kinds /\ <<>> \in Seq(Names \cup Typedefs) /\ <<>> \in Seq(Names)
    BY <1>1, <1>2, LineFacts, EmptyLists DEF Kinds
  <2>2. node = [kind |-> "use", line |-> line, names |-> <<>>, domains |-> <<>>,
                use |-> u, subroutine |-> noName, body |-> FALSE, const |-> FALSE]
    BY <1>1 DEF Node
  <2> HIDE DEF noName, builtIn, Kinds
  <2> QED  BY <2>1, <2>2 DEF Nodes
<1> HIDE DEF Read
<1> QED  BY <1>1, <1>3, ReadsQuietly

LEMMA OutcomeCall ==
  ASSUME IInv, WInv, VisitCall
  PROVE  WInv'
<1>1. PICK f, node :
        /\ f \in Subroutines
        /\ node = [Node("call", NextLine) EXCEPT !.subroutine = f]
        /\ Read(node)
        /\ UNCHANGED <<pass, open, scopes, currentScope, subroutines, typeSymbols, hasMainProcedure>>
  BY DEF VisitCall
<1>u. f \in Subroutines
  BY <1>1
<1> USE <1>u
<1>2. TextOK
  BY DEF IInv, Rest
<1>3. node \in Nodes /\ node.kind = "call"
  <2>1. /\ NextLine \in Nat /\ "call" \in Kinds
        /\ <<>> \in Seq(Names \cup Typedefs) /\ <<>> \in Seq(Names)
    BY <1>2, LineFacts, EmptyLists DEF Kinds
  <2>2. node = [kind |-> "call", line |-> NextLine, names |-> <<>>, domains |-> <<>>,
                use |-> noName, subroutine |-> f, body |-> FALSE, const |-> FALSE]
    BY <1>1 DEF Node
  <2> HIDE DEF noName, builtIn, Kinds, NextLine
  <2> QED  BY <2>1, <2>2 DEF Nodes
<1> HIDE DEF Read
<1> QED  BY <1>1, <1>3, ReadsQuietly

\* A node with no names, no identifiers and no subroutine.
LEMMA PlainNode ==
  ASSUME TextOK, NEW kind \in {"block", "loop", "conditional", "break", "return", "close"},
         NEW node, node = Node(kind, NextLine)
  PROVE  node \in Nodes /\ node.kind = kind /\ node.subroutine = noName
<1>1. /\ NextLine \in Nat /\ kind \in Kinds
      /\ <<>> \in Seq(Names \cup Typedefs) /\ <<>> \in Seq(Names)
  BY LineFacts, EmptyLists DEF Kinds, Openers
<1>2. node = [kind |-> kind, line |-> NextLine, names |-> <<>>, domains |-> <<>>,
              use |-> noName, subroutine |-> noName, body |-> FALSE, const |-> FALSE]
  BY DEF Node
<1> HIDE DEF noName, builtIn, Kinds, NextLine
<1> QED  BY <1>1, <1>2 DEF Nodes

LEMMA OutcomePlain ==
  ASSUME IInv, WInv, VisitReturn \/ VisitBlock \/ Leave
  PROVE  WInv'
<1>1. TextOK
  BY DEF IInv, Rest
<1>2. PICK kind, node :
        /\ kind \in {"block", "loop", "conditional", "return", "close"}
        /\ node = Node(kind, NextLine) /\ Read(node)
        /\ UNCHANGED <<pass, subroutines, typeSymbols, hasMainProcedure>>
  <2>1. CASE VisitReturn
    BY <2>1 DEF VisitReturn
  <2>2. CASE VisitBlock
    <3> HIDE DEF Read, Node, LocalScope, Identify, NextLine
    <3> QED  BY <2>2 DEF VisitBlock
  <2>3. CASE Leave
    BY <2>3 DEF Leave
  <2> QED  BY <2>1, <2>2, <2>3
<1>3. node \in Nodes /\ node.kind = kind /\ node.subroutine = noName
  <2> HIDE DEF Node, NextLine, noName
  <2> QED  BY <1>1, <1>2, PlainNode
<1> HIDE DEF Read
<1> QED  BY <1>2, <1>3, ReadsQuietly

LEMMA OutcomeGenerator ==
  ASSUME IInv, WInv, VisitGenerator
  PROVE  WInv'
<1>1. PICK n, d, u, node :
        /\ n \in Names /\ d \in Names /\ u \in Names
        /\ node = [Node("generator", NextLine) EXCEPT !.names = <<n>>, !.domains = <<d>>, !.use = u]
        /\ Read(node)
        /\ UNCHANGED <<pass, open, currentScope, subroutines, typeSymbols, hasMainProcedure>>
  BY DEF VisitGenerator
<1>u. n \in Names /\ d \in Names /\ u \in Names
  BY <1>1
<1> USE <1>u
<1>2. TextOK
  BY DEF IInv, Rest
<1>3. node \in Nodes /\ node.kind = "generator" /\ node.subroutine = noName
  <2>1. /\ NextLine \in Nat /\ "generator" \in Kinds
        /\ <<n>> \in Seq(Names \cup Typedefs) /\ <<d>> \in Seq(Names)
    BY <1>1, <1>2, LineFacts, EmptyLists DEF Kinds
  <2>2. node = [kind |-> "generator", line |-> NextLine, names |-> <<n>>, domains |-> <<d>>,
                use |-> u, subroutine |-> noName, body |-> FALSE, const |-> FALSE]
    BY <1>1 DEF Node
  <2> HIDE DEF noName, builtIn, Kinds, NextLine
  <2> QED  BY <2>1, <2>2 DEF Nodes
<1> HIDE DEF Read
<1> QED  BY <1>1, <1>3, ReadsQuietly

LEMMA OutcomeIterator ==
  ASSUME IInv, WInv, VisitIteratorLoop
  PROVE  WInv'
<1>1. PICK k, ns, ds, node :
        /\ k \in DomainLists /\ ns \in [1 .. k -> Names] /\ ds \in [1 .. k -> Names]
        /\ node = [Node("iterator", NextLine) EXCEPT !.names = ns, !.domains = ds]
        /\ Read(node) /\ UNCHANGED <<pass, subroutines, typeSymbols, hasMainProcedure>>
  BY DEF VisitIteratorLoop
<1>2. TextOK
  BY DEF IInv, Rest
<1>3. node \in Nodes /\ node.kind = "iterator" /\ node.subroutine = noName
  <2>1. ns \in Seq(Names \cup Typedefs) /\ ds \in Seq(Names)
    <3>1. k \in Nat
      BY <1>1, ListsAssumption
    <3>2. ns \in Seq(Names) /\ ds \in Seq(Names)
      BY <1>1, <3>1, SeqDef
    <3> QED  BY <3>2, WiderSequence
  <2>2. NextLine \in Nat /\ "iterator" \in Kinds
    BY <1>2, LineFacts DEF Kinds, Openers
  <2>3. node = [kind |-> "iterator", line |-> NextLine, names |-> ns, domains |-> ds,
                use |-> noName, subroutine |-> noName, body |-> FALSE, const |-> FALSE]
    BY <1>1 DEF Node
  <2> HIDE DEF noName, builtIn, Kinds, NextLine
  <2> QED  BY <2>1, <2>2, <2>3 DEF Nodes
<1> HIDE DEF Read
<1> QED  BY <1>1, <1>3, ReadsQuietly

\* A variable is rejected when its name is in the table of the body it is in.
LEMMA OutcomeVariable ==
  ASSUME IInv, NInv, WInv, VisitVariableDeclaration
  PROVE  WInv'
<1>1. PICK n, u, line, const, node :
        /\ n \in Names /\ u \in Names \cup {noName} /\ line \in SomeLine /\ const \in BOOLEAN
        /\ node = [Node("var", line) EXCEPT !.names = <<n>>, !.use = u, !.const = const]
        /\ Read(node)
        /\ \/ n \in DOMAIN scopes[currentScope].symbols /\ Throw
           \/ UNCHANGED <<pass, open, currentScope, subroutines, typeSymbols, hasMainProcedure>>
  <2> HIDE DEF Read, Throw, Define, Uses, Node, noName, SomeLine
  <2> QED  BY ZenonT(60) DEF VisitVariableDeclaration
<1>u. n \in Names /\ u \in Names \cup {noName} /\ line \in SomeLine /\ const \in BOOLEAN
  BY <1>1
<1> USE <1>u
<1>2. TextOK /\ ScopesOK /\ StackOK
  BY DEF IInv, Rest
<1>3. node \in Nodes /\ node.kind = "var" /\ node.names = <<n>> /\ node.subroutine = noName
  <2>1. line \in Nat /\ "var" \in Kinds /\ <<n>> \in Seq(Names \cup Typedefs) /\ <<>> \in Seq(Names)
    BY <1>2, LineFacts, EmptyLists DEF Kinds
  <2>2. node = [kind |-> "var", line |-> line, names |-> <<n>>, domains |-> <<>>,
                use |-> u, subroutine |-> noName, body |-> FALSE, const |-> const]
    BY <1>1 DEF Node
  <2> HIDE DEF noName, builtIn, Kinds, SomeLine
  <2>3. node \in Nodes
    BY <2>1, <2>2 DEF Nodes
  <2> QED  BY <2>2, <2>3
<1>4. Reads(node) /\ pass = "DefWalk"
  BY <1>1, <1>2, <1>3, ReadFacts
<1>5. CASE n \in DOMAIN scopes[currentScope].symbols /\ Throw
  <2>1. PICK m : Placed(m) /\ Laid(m)
    BY <1>4 DEF NInv, LaidOK
  <2>2. PICK b, s : b = Innermost /\ s = currentScope
    OBVIOUS
  <2>3. Holds(s, b)
    <3>1. b \in Bodies
      BY <1>2, <1>4, <2>2, DeclaredGrows
    <3>2. s = m[b]
      BY <2>1, <2>2 DEF Placed
    <3> HIDE DEF Holds, Bodies
    <3> QED  BY <2>1, <3>1, <3>2 DEF Laid
  <2>4. InTable(s, n) # nullptr
    <3>1. scopes[s].symbols[n] \in SymbolIds
      BY <1>2, <1>5, <2>2 DEF ScopesOK
    <3>2. \A sym \in SymbolIds : sym # nullptr
      <4>1. SymbolIds \subseteq Nat \X Nat
        BY <1>2, SymbolIdsType
      <4>2. \A sym \in Nat \X Nat : \E i, k : sym = <<i, k>>
        OBVIOUS
      <4> HIDE DEF nullptr, SymbolIds
      <4> QED  BY <4>1, <4>2, PairIsNotNull
    <3> HIDE DEF nullptr, SymbolIds
    <3> QED  BY <1>5, <2>2, <3>1, <3>2 DEF InTable
  <2>5. PICK d : DeclaredIn(b, n) = {d}
    <3> HIDE DEF InTable, nullptr, DeclaredIn
    <3> QED  BY <2>3, <2>4 DEF Holds
  <2>6. d \in DOMAIN program /\ program[d].kind = "var" /\ program[d].names = <<n>> /\ Body(d) = b
    <3>1. d \in DeclaredIn(b, n)
      BY <2>5
    <3> HIDE DEF Body
    <3> QED  BY <3>1 DEF DeclaredIn
  <2>7. ~WellFormed'
    <3> HIDE DEF Body, Innermost, WellFormed
    <3> QED  BY <1>2, <1>3, <1>4, <2>2, <2>6, ClashShows
  <2> QED  BY <1>5, <2>7, Ends DEF Throw
<1>6. CASE UNCHANGED <<pass, open, currentScope, subroutines, typeSymbols, hasMainProcedure>>
  <2> HIDE DEF Read
  <2> QED  BY <1>1, <1>3, <1>6, ReadsQuietly
<1> QED  BY <1>1, <1>5, <1>6

\* A break is rejected when it is in no loop.
LEMMA OutcomeBreak ==
  ASSUME IInv, WInv, VisitBreak
  PROVE  WInv'
<1>1. PICK node : node = Node("break", NextLine)
  OBVIOUS
<1>2. /\ Read(node)
      /\ \/ numLoopAncestors = 0 /\ Throw
         \/ UNCHANGED <<pass, open, scopes, currentScope, subroutines, typeSymbols, hasMainProcedure>>
  BY <1>1 DEF VisitBreak
<1>3. TextOK /\ StackOK
  BY DEF IInv, Rest
<1>4. node \in Nodes /\ node.kind = "break" /\ node.subroutine = noName
  <2> HIDE DEF Node, NextLine, noName
  <2> QED  BY <1>1, <1>3, PlainNode
<1>5. Reads(node) /\ pass = "DefWalk"
  BY <1>2, <1>3, <1>4, ReadFacts
<1>6. CASE numLoopAncestors = 0 /\ Throw
  <2>1. PICK new : new = This
    OBVIOUS
  <2>2. /\ DOMAIN program = 1 .. Len(program) /\ Len(program) \in Nat /\ new = Len(program) + 1
        /\ DOMAIN program' = DOMAIN program \cup {new} /\ program'[new] = node
        /\ \A i \in DOMAIN program : program'[i] = program[i]
    <3>1. /\ DOMAIN program = 1 .. Len(program) /\ Len(program) \in Nat /\ This = Len(program) + 1
          /\ DOMAIN program' = DOMAIN program \cup {This} /\ program'[This] = node
          /\ \A i \in DOMAIN program : program'[i] = program[i]
      BY <1>5, TextGrows
    <3> QED  BY ONLY <2>1, <3>1
  <2>3. ASSUME NEW k \in 1 .. Len(open) PROVE program[open[k]].kind \notin {"loop", "iterator"}
    <3>1. PICK L : L = {i \in DOMAIN open : program[open[i]].kind \in {"loop", "iterator"}}
      OBVIOUS
    <3>2. L \in SUBSET (1 .. Len(open)) /\ Len(open) \in Nat /\ DOMAIN open = 1 .. Len(open)
      BY <1>3, <3>1 DEF TextOK
    <3>3. IsFiniteSet(L)
      <4>1. IsFiniteSet(1 .. Len(open))
        BY <3>2, FS_Interval
      <4> QED  BY <3>2, <4>1, FS_Subset
    <3>4. Cardinality(L) = 0
      BY <1>6, <3>1 DEF numLoopAncestors
    <3>5. L = {}
      BY <3>3, <3>4, FS_EmptySet
    <3> QED  BY <3>1, <3>2, <3>5
  <2>4. ASSUME NEW b \in Enclosing(new) PROVE program'[b].kind \notin {"loop", "iterator"}
    <3>1. b \in 1 .. Len(program) /\ new \in 1 .. Len(program) + 1
      BY <2>2 DEF Enclosing
    <3>2. Depth[b] >= 0 /\ Around(new)
      BY <1>3, <1>5, <2>2, <3>1 DEF StackOK, Walking
    <3>3. IsOpen(b)
      <4> HIDE DEF IsOpen, Around, Enclosing
      <4> QED  BY <1>3, <3>1, <3>2, EnclosingAreOpen
    <3> QED  BY <2>2, <2>3, <3>1, <3>3 DEF IsOpen
  <2>5. Enclosing(new)' = Enclosing(new)
    <3>1. \A i \in 1 .. This : Enclosing(i)' = Enclosing(i)
      BY <1>5, BodiesGrow
    <3>2. new \in 1 .. This
      BY <2>1, <2>2
    <3> HIDE DEF Enclosing
    <3> QED  BY <3>1, <3>2
  <2>6. StrayBreak'
    <3> HIDE DEF Enclosing
    <3> QED  BY <1>4, <2>2, <2>4, <2>5 DEF StrayBreak
  <2>7. ~WellFormed'
    BY <2>6, FlawsShowNext DEF Flawed
  <2> QED  BY <1>6, <2>7, Ends DEF Throw
<1>7. CASE UNCHANGED <<pass, open, scopes, currentScope, subroutines, typeSymbols, hasMainProcedure>>
  <2> HIDE DEF Read
  <2> QED  BY <1>2, <1>4, <1>7, ReadsQuietly
<1> QED  BY <1>2, <1>6, <1>7

\* A typedef is rejected when its name is another's.
LEMMA OutcomeTypedef ==
  ASSUME IInv, WInv, VisitTypedefStatement
  PROVE  WInv'
<1>1. PICK t, target, node :
        /\ t \in Typedefs /\ target \in Typedefs \cup {builtIn}
        /\ node = [Node("typedef", NextLine) EXCEPT !.names = <<t>>, !.use = target]
        /\ Read(node) /\ open = <<>>
        /\ \/ t \in DOMAIN typeSymbols /\ Throw
           \/ /\ typeSymbols' = [s \in DOMAIN typeSymbols \cup {t} |-> unset]
              /\ UNCHANGED <<pass, open, scopes, currentScope, subroutines, hasMainProcedure>>
  BY DEF VisitTypedefStatement, AtGlobal
<1>u. t \in Typedefs /\ target \in Typedefs \cup {builtIn}
  BY <1>1
<1> USE <1>u
<1>2. TextOK /\ StackOK
  BY DEF IInv, Rest
<1>3. node \in Nodes /\ node.kind = "typedef" /\ node.names = <<t>> /\ node.use = target /\ node.subroutine = noName
  <2>1. /\ NextLine \in Nat /\ "typedef" \in Kinds
        /\ <<t>> \in Seq(Names \cup Typedefs) /\ <<>> \in Seq(Names)
    BY <1>2, LineFacts, EmptyLists DEF Kinds, Openers
  <2>2. node = [kind |-> "typedef", line |-> NextLine, names |-> <<t>>, domains |-> <<>>,
                use |-> target, subroutine |-> noName, body |-> FALSE, const |-> FALSE]
    BY <1>1 DEF Node
  <2> HIDE DEF noName, builtIn, Kinds, NextLine
  <2> QED  BY <2>1, <2>2 DEF Nodes
<1>4. Reads(node) /\ pass = "DefWalk" /\ UNCHANGED <<at, named, resolved>>
  BY <1>1, <1>2, <1>3, ReadFacts
<1>5. CASE t \in DOMAIN typeSymbols /\ Throw
  <2>1. PICK d \in DOMAIN program : program[d].kind = "typedef" /\ program[d].names[1] = t
    BY <1>4, <1>5 DEF WInv, TypedefsDeclared, IsTypedef, TypedefName
  <2>2. Depth[d] = 0 /\ program[d].names = <<t>>
    <3>1. Depth[d] = 0 /\ \E s \in Typedefs : program[d].names = <<s>>
      BY <1>4, <2>1 DEF WInv, KindsOK, IsTypedef, Live
    <3> QED  BY <2>1, <3>1
  <2>3. Body(d) = Innermost
    <3>1. Body(d) = 0
      <4>1. d \in 1 .. Len(program) + 1
        BY <1>2, TextIs
      <4> HIDE DEF Body
      <4> QED  BY <1>2, <1>4, <2>2, <4>1, AtTheTopOf DEF Walking
    <3>2. Innermost = 0
      BY <1>1 DEF Innermost
    <3> QED  BY <3>1, <3>2
  <2>4. ~WellFormed'
    <3> HIDE DEF Body, Innermost, WellFormed
    <3> QED  BY <1>2, <1>3, <1>4, <2>1, <2>2, <2>3, ClashShows
  <2> QED  BY <1>5, <2>4, Ends DEF Throw
<1>6. CASE /\ typeSymbols' = [s \in DOMAIN typeSymbols \cup {t} |-> unset]
           /\ UNCHANGED <<pass, open, scopes, currentScope, subroutines, hasMainProcedure>>
  <2>1. Written(node)
    <3> HIDE DEF noName, builtIn
    <3> QED  BY <1>1, <1>3, <1>4 DEF Written
  <2>2. Noted(node)
    BY <1>3, <1>6 DEF Noted
  <2> QED  BY <1>6, <2>1, <2>2, ReadsOn
<1> QED  BY <1>1, <1>5, <1>6

\* A subroutine is rejected when it has been declared twice.
LEMMA OutcomeSubroutine ==
  ASSUME IInv, NInv, WInv, VisitSubroutineDeclDef
  PROVE  WInv'
<1>0. PICK f \in Subroutines, parameters \in ParameterLists, body \in BOOLEAN :
        LET node == [Node("subroutine", NextLine) EXCEPT !.subroutine = f,
                       !.names = parameters, !.body = body]
        IN  /\ Read(node)
            /\ IF Declared(node).numTimesDeclare > 2 THEN Throw
               ELSE /\ subroutines' = [subroutines EXCEPT ![f] = Declared(node)]
                    /\ hasMainProcedure' = (hasMainProcedure \/ f = main)
                    /\ UNCHANGED <<pass, typeSymbols>>
  <2> HIDE DEF Read, Declared, Throw, Identify, main, Node, NextLine, LocalScope
  <2> QED  BY ZenonT(30) DEF VisitSubroutineDeclDef
<1>1. PICK node, sub :
        /\ node = [Node("subroutine", NextLine) EXCEPT !.subroutine = f, !.names = parameters, !.body = body]
        /\ sub = Declared(node) /\ Read(node)
        /\ \/ sub.numTimesDeclare > 2 /\ Throw
           \/ /\ subroutines' = [subroutines EXCEPT ![f] = sub]
              /\ hasMainProcedure' = (hasMainProcedure \/ f = main)
              /\ UNCHANGED <<pass, typeSymbols>>
  BY <1>0
<1>2. TextOK /\ SubroutinesOK
  BY DEF IInv, Rest
<1>3. /\ node \in Nodes /\ node.kind = "subroutine" /\ node.names \in Seq(Names)
      /\ node.subroutine = f /\ (HasBody(node) <=> body) /\ node.body = body
  <2>1. /\ NextLine \in Nat /\ "subroutine" \in Kinds
        /\ parameters \in Seq(Names) /\ <<>> \in Seq(Names)
    BY <1>2, LineFacts, EmptyLists, ListsAssumption DEF Kinds, Openers
  <2>2. parameters \in Seq(Names \cup Typedefs)
    BY <2>1, WiderSequence
  <2>3. node = [kind |-> "subroutine", line |-> NextLine, names |-> parameters, domains |-> <<>>,
                use |-> noName, subroutine |-> f, body |-> body, const |-> FALSE]
    BY <1>1 DEF Node
  <2>4. HasBody(node) <=> body
    BY <2>3 DEF HasBody, Openers
  <2> HIDE DEF noName, builtIn, Kinds, NextLine
  <2> QED  BY <2>1, <2>2, <2>3, <2>4 DEF Nodes
<1>4. Reads(node) /\ pass = "DefWalk" /\ UNCHANGED <<at, named, resolved>>
  <2> HIDE DEF Nodes
  <2> QED  BY <1>1, <1>2, <1>3, ReadFacts
<1>5. PICK old : old = subroutines[f]
  OBVIOUS
<1>6. /\ sub \in SubroutineRecords /\ sub.numTimesDeclare = old.numTimesDeclare + 1
      /\ body => sub.numTimesDefined = old.numTimesDefined + 1
      /\ ~body => sub.numTimesDefined = old.numTimesDefined
      /\ old.numTimesDeclare \in 0 .. 2 /\ old.numTimesDefined \in 0 .. 2
  <2>1. /\ node.names \in Seq(Names) /\ node.subroutine \in Subroutines /\ node.kind = "subroutine"
        /\ sub = Declared(node) /\ old = subroutines[node.subroutine]
    BY <1>1, <1>3, <1>5
  <2> HIDE DEF SymbolIds
  <2>2. /\ sub \in SubroutineRecords /\ sub.numTimesDeclare = old.numTimesDeclare + 1
        /\ HasBody(node) => sub.numTimesDefined = old.numTimesDefined + 1
        /\ ~HasBody(node) => sub.numTimesDefined = old.numTimesDefined
    BY ONLY <1>2, <1>4, <2>1, DeclaredFacts
  <2>3. old.numTimesDeclare \in 0 .. 2 /\ old.numTimesDefined \in 0 .. 2
    BY <1>2, <1>5 DEF SubroutinesOK
  <2> QED  BY <1>3, <2>2, <2>3
<1>7. CASE sub.numTimesDeclare > 2 /\ Throw
  <2>1. old.numTimesDeclare = 2
    BY <1>6, <1>7
  <2>2. PICK j, k : Declarations(f) = {j, k} /\ j < k
    <3>1. Undeclared(f) \/ (\E j : DeclaredOnce(f, j)) \/ (\E j, k : DeclaredTwice(f, j, k))
      BY <1>4 DEF NInv, ArgsOK, Live
    <3>2. ~Undeclared(f)
      BY <1>5, <2>1 DEF Undeclared
    <3>3. \A j : ~DeclaredOnce(f, j)
      BY <1>5, <2>1 DEF DeclaredOnce
    <3> QED  BY <3>1, <3>2, <3>3 DEF DeclaredTwice
  <2>3. PICK new : new = This
    OBVIOUS
  <2>4. /\ Declarations(f)' = {j, k} \cup {new} /\ new \notin {j, k} /\ j # k
    <3>1. \A g : Declarations(g)' = Declarations(g) \cup
                   (IF node.kind = "subroutine" /\ node.subroutine = g THEN {This} ELSE {})
      BY <1>4, BodiesGrow
    <3>2. Declarations(f)' = Declarations(f) \cup {new}
      <4> HIDE DEF Declarations
      <4> QED  BY <1>3, <2>3, <3>1
    <3>3. This \notin DOMAIN program
      BY <1>4, TextGrows
    <3>4. j \in DOMAIN program /\ k \in DOMAIN program
      <4>1. j \in Declarations(f) /\ k \in Declarations(f)
        BY <2>2
      <4> QED  BY <4>1 DEF Declarations
    <3>5. j \in Nat /\ k \in Nat
      BY <1>2, <3>4, TextIs
    <3> HIDE DEF Declarations
    <3> QED  BY <2>2, <2>3, <3>2, <3>3, <3>4, <3>5
  <2>5. Cardinality({j, k} \cup {new}) = 3
    <3>1. \A S, x : IsFiniteSet(S) /\ x \notin S =>
            IsFiniteSet(S \cup {x}) /\ Cardinality(S \cup {x}) = Cardinality(S) + 1
      BY FS_AddElement
    <3>2. IsFiniteSet({j}) /\ Cardinality({j}) = 1 /\ k \notin {j}
      BY <2>4, FS_Singleton
    <3>3. IsFiniteSet({j} \cup {k}) /\ Cardinality({j} \cup {k}) = 2
      BY ONLY <3>1, <3>2
    <3>4. {j, k} = {j} \cup {k} /\ new \notin {j} \cup {k}
      BY <2>4
    <3> QED  BY ONLY <3>1, <3>3, <3>4
  <2>6. Thrice'
    <3>1. new \in Declarations(f)' /\ ~(Cardinality(Declarations(f)') <= 2)
      BY <2>4, <2>5
    <3> HIDE DEF Declarations
    <3> QED  BY <3>1 DEF Thrice
  <2>7. ~WellFormed'
    BY <2>6, FlawsShowNext DEF Flawed
  <2> QED  BY <1>7, <2>7, Ends DEF Throw
<1>8. CASE /\ subroutines' = [subroutines EXCEPT ![f] = sub]
           /\ hasMainProcedure' = (hasMainProcedure \/ f = main)
           /\ UNCHANGED <<pass, typeSymbols>>
  <2>1. Written(node)
    <3> HIDE DEF noName, builtIn
    <3> QED  BY <1>1, <1>3, <1>4 DEF Written
  <2>2. \A g \in Subroutines : subroutines'[g] = IF g = f THEN sub ELSE subroutines[g]
    BY <1>2, <1>6, <1>8, SetSubroutine
  <2>3. /\ old.numTimesDefined # 0 => sub.numTimesDefined # 0
        /\ body => sub.numTimesDefined # 0
    BY <1>6
  <2>4. \A g \in Subroutines :
          /\ subroutines[g].numTimesDefined # 0 => subroutines'[g].numTimesDefined # 0
          /\ (node.subroutine = g /\ node.body) => subroutines'[g].numTimesDefined # 0
    BY <1>3, <1>5, <2>2, <2>3
  <2>5. Noted(node)
    BY <1>3, <1>8, <2>4 DEF Noted
  <2> QED  BY <1>8, <2>1, <2>5, ReadsOn
<1> QED  BY <1>1, <1>7, <1>8

LEMMA OutcomesOfDefWalk ==
  ASSUME IInv, NInv, WInv, DefWalk
  PROVE  WInv'
<1>1. CASE VisitVariableDeclaration
  BY <1>1, OutcomeVariable
<1>2. CASE VisitUse
  BY <1>2, OutcomeUse
<1>3. CASE VisitCall
  BY <1>3, OutcomeCall
<1>4. CASE VisitSubroutineDeclDef
  BY <1>4, OutcomeSubroutine
<1>5. CASE VisitBlock \/ VisitReturn \/ Leave
  BY <1>5, OutcomePlain
<1>6. CASE VisitIteratorLoop
  BY <1>6, OutcomeIterator
<1>7. CASE VisitGenerator
  BY <1>7, OutcomeGenerator
<1>8. CASE VisitBreak
  BY <1>8, OutcomeBreak
<1>9. CASE VisitTypedefStatement
  BY <1>9, OutcomeTypedef
<1> QED  BY <1>1, <1>2, <1>3, <1>4, <1>5, <1>6, <1>7, <1>8, <1>9 DEF DefWalk

(***************************************************************************)
(* From one walk to the next, and in RefWalk.                              *)
(***************************************************************************)
LEMMA Rejects ==
  ASSUME IInv, NInv, IInv', Live, UNCHANGED <<program, identifiers>>, Flawed,
         pass' \in {"rejected", "crashed"}
  PROVE  WInv'
<1>1. TextOK /\ TextOK' /\ IdentifiersOK
  BY DEF IInv, Rest
<1>2. Len(identifiers) <= Len(program)
  <2>1. Len(identifiers) = Len(program)
    BY DEF NInv, ResolvedOK
  <2>2. Len(program) \in Nat
    BY <1>1, TextIs
  <2> QED  BY <2>1, <2>2
<1>3. Flawed'
  <2> HIDE DEF Flawed
  <2> QED  BY <1>1, <1>2, FlawsStay
<1>4. ~WellFormed'
  <2> HIDE DEF Flawed, WellFormed
  <2> QED  BY <1>3, FlawsShowNext
<1> HIDE DEF WellFormed
<1> QED  BY <1>4, Ends

LEMMA KindsStay ==
  ASSUME KindsOK, Live, UNCHANGED program
  PROVE  KindsOK'
<1>1. Depth' = Depth
  BY DEF Depth
<1> HIDE DEF noName, builtIn
<1> QED  BY <1>1 DEF KindsOK, IsTypedef

LEMMA CountedStay ==
  ASSUME BodiesCounted, Walking, UNCHANGED program,
         \A f \in Subroutines : subroutines'[f].numTimesDefined = subroutines[f].numTimesDefined
  PROVE  BodiesCounted'
<1>1. \A f : Declarations(f)' = Declarations(f)
  BY DEF Declarations
<1> HIDE DEF Declarations
<1> QED  BY <1>1 DEF BodiesCounted

LEMMA OutcomeMain ==
  ASSUME IInv, NInv, WInv, CheckMain
  PROVE  WInv'
<1>0. IInv'
  BY MainStep
<1>1. /\ pass = "DefWalk" /\ open = <<>> /\ Live /\ Walking
      /\ UNCHANGED <<program, at, open, subroutines, typeSymbols, identifiers, resolved>>
      /\ pass' = IF hasMainProcedure THEN "RefWalk" ELSE "rejected"
  BY DEF CheckMain, AtGlobal, tables, Live, Walking
<1>2. TextOK /\ StackOK /\ IdentifiersOK
  BY DEF IInv, Rest
<1>3. CASE ~hasMainProcedure
  <2>1. NoMain
    BY <1>1, <1>3 DEF WInv, MainOK, NoMain
  <2> QED  BY <1>0, <1>1, <1>3, <2>1, Rejects DEF Flawed
<1>4. CASE hasMainProcedure
  <2>1. pass' = "RefWalk" /\ at' = 1 /\ Len(resolved') = 0
    BY <1>1, <1>2, <1>4 DEF TextOK, IdentifiersOK
  <2>2. Depth'[Len(program') + 1] = 0
    <3>1. Around(Len(program) + 1)
      BY <1>1, <1>2 DEF StackOK
    <3>2. Len(open) = Depth[Len(program) + 1]
      BY <3>1 DEF Around
    <3>3. Depth' = Depth
      BY <1>1 DEF Depth
    <3> QED  BY <1>1, <3>2, <3>3
  <2>3. KindsOK' /\ BodiesCounted'
    BY <1>1, KindsStay, CountedStay DEF WInv
  <2>4. ClosedOK'
    BY <2>1, <2>2 DEF ClosedOK
  <2>5. TypedefsTaken' /\ AllResolved'
    BY <2>1 DEF TypedefsTaken, AllResolved
  <2> QED  BY <2>1, <2>3, <2>4, <2>5 DEF WInv, MainOK, TypedefsDeclared, WellFormedIsAccepted
<1> QED  BY <1>3, <1>4

\* RefWalk visits a node and goes on.
LEMMA GoesOn ==
  ASSUME IInv, WInv, pass = "RefWalk", pass' = pass, at \in DOMAIN program, at' = at + 1,
         UNCHANGED <<program, identifiers>>, resolved' = Append(resolved, Symbols),
         \A f \in Subroutines : subroutines'[f].numTimesDefined = subroutines[f].numTimesDefined,
         TypedefsTaken'
  PROVE  WInv'
<1>1. TextOK /\ ScopesOK /\ SubroutinesOK /\ IdentifiersOK /\ Live /\ Walking
  BY DEF IInv, Rest, Live, Walking
<1>2. KindsOK' /\ BodiesCounted'
  BY <1>1, KindsStay, CountedStay DEF WInv
<1>3. ClosedOK'
  <2>1. Depth' = Depth
    BY DEF Depth
  <2> QED  BY <2>1 DEF WInv, ClosedOK
<1>4. AllResolved'
  <2>1. PICK here, sy : here = at /\ sy = Symbols
    OBVIOUS
  <2>2. DOMAIN sy = DOMAIN identifiers[here]
    BY <2>1 DEF Symbols
  <2>3. sy \in Resolutions /\ resolved \in Seq(Resolutions) /\ Len(resolved) = here - 1 /\ here \in Nat
    <3>1. sy \in Resolutions
      BY <1>1, <2>1, SymbolsType
    <3>2. resolved \in Seq(Resolutions) /\ Len(resolved) = here - 1
      BY <1>1, <2>1 DEF IdentifiersOK
    <3>3. here \in Nat
      BY <1>1, <2>1, TextIs
    <3> QED  BY ONLY <3>1, <3>2, <3>3
  <2>4. /\ Len(resolved') = here /\ resolved'[here] = sy
        /\ \A i \in 1 .. here - 1 : resolved'[i] = resolved[i]
    <3>1. resolved' = Append(resolved, sy)
      BY <2>1
    <3> HIDE DEF Resolutions
    <3> QED  BY ONLY <2>3, <3>1, AppendFacts
  <2>5. \A i \in 1 .. here - 1 : DOMAIN resolved[i] = DOMAIN identifiers[i]
    BY <1>1, <2>3 DEF WInv, AllResolved
  <2>6. \A i \in 1 .. here : i = here \/ i \in 1 .. here - 1
    BY ONLY <2>3
  <2>7. identifiers' = identifiers
    OBVIOUS
  <2>8. \A i \in 1 .. Len(resolved') : DOMAIN resolved'[i] = DOMAIN identifiers'[i]
    BY ONLY <2>2, <2>4, <2>5, <2>6, <2>7
  <2> QED  BY <2>8 DEF AllResolved
<1> QED  BY <1>2, <1>3, <1>4 DEF WInv, MainOK, TypedefsDeclared, WellFormedIsAccepted

\* A node that is no typedef.
LEMMA TakenStays ==
  ASSUME TextOK, TypedefsTaken, pass = "RefWalk", at \in DOMAIN program, ~IsTypedef(at), at' = at + 1,
         UNCHANGED <<program, typeSymbols>>
  PROVE  TypedefsTaken'
<1>1. at \in Nat
  BY TextIs
<1>2. \A i \in 1 .. at' - 1 : IsTypedef(i)' => i \in 1 .. at - 1 /\ IsTypedef(i)
  BY <1>1 DEF IsTypedef
<1>3. \A i : TypedefName(i)' = TypedefName(i)
  BY DEF TypedefName
<1> HIDE DEF unset, builtIn, IsTypedef, TypedefName
<1> QED  BY <1>2, <1>3 DEF TypedefsTaken

\* Declarations of a subroutine with different numbers of parameters.
LEMMA Misfits ==
  ASSUME TextOK, NEW i, NEW name, Misdeclared(i, name)
  PROVE  Uneven
<1>1. PICK f \in Subroutines : \E j, k \in Declarations(f) :
        \/ Len(program[j].names) - Len(program[k].names) > 1
        \/ Len(program[j].names) - Len(program[k].names) < 0
  <2> HIDE DEF Declarations, Enclosing, InHeader, nullptr
  <2> QED  BY Zenon DEF Misdeclared
<1>2. PICK j, k \in Declarations(f) :
        \/ Len(program[j].names) - Len(program[k].names) > 1
        \/ Len(program[j].names) - Len(program[k].names) < 0
  BY <1>1
<1>3. Len(program[j].names) # Len(program[k].names)
  <2>1. program[j] \in Nodes /\ program[k] \in Nodes
    BY TextIs DEF Declarations
  <2>2. Len(program[j].names) \in Nat /\ Len(program[k].names) \in Nat
    BY <2>1 DEF Nodes
  <2>3. PICK a, b : a = Len(program[j].names) /\ b = Len(program[k].names)
    OBVIOUS
  <2>4. a \in Nat /\ b \in Nat /\ (a - b > 1 \/ a - b < 0)
    BY ONLY <1>2, <2>2, <2>3
  <2>5. a # b
    BY ONLY <2>4
  <2> QED  BY <2>3, <2>5
<1> HIDE DEF Declarations
<1> QED  BY <1>3 DEF Uneven

\* What visitIdentifier takes for a use before the declaration.
LEMMA UsedEarly ==
  ASSUME IInv, NInv, pass = "RefWalk", at \in DOMAIN program, NEW k \in DOMAIN Symbols,
         UsedBeforeDefinition(Symbols[k], program[at].line)
  PROVE  Flawed
<1>1. TextOK /\ IdentifiersOK /\ LinesOK /\ ArgsOK /\ NamedOK /\ Live
  BY DEF IInv, Rest, NInv, Live
<1>2. PICK m : Laid(m)
  BY DEF NInv, LaidOK
<1>3. PICK i, name, sym, meaning :
        i = at /\ name = UsedName(program[at], k) /\ sym = Symbols[k] /\ meaning = MeaningOf(at, k)
  OBVIOUS
<1>4. k \in DOMAIN identifiers[at] /\ sym = Resolve(name, identifiers[at][k])
  <2> HIDE DEF Resolve, UsedName
  <2> QED  BY <1>3 DEF Symbols
<1>5. Fits(sym, meaning, i, name)
  <2> HIDE DEF Resolve, UsedName, MeaningOf, Fits, Symbols
  <2> QED  BY <1>1, <1>2, <1>3, <1>4, IdentifierFits
<1>6. sym # nullptr /\ program[sym[1]].kind = "var" /\ program[sym[1]].line > program[i].line
  <2> HIDE DEF nullptr, Symbols
  <2> QED  BY <1>3 DEF UsedBeforeDefinition
<1>7. /\ i \in 1 .. Len(program) /\ i \in DOMAIN program /\ i \in Nat /\ Len(program) \in Nat
      /\ DOMAIN program = 1 .. Len(program)
  BY <1>1, <1>3, TextIs
<1>8. sym # meaning
  <2> SUFFICES ASSUME sym = meaning PROVE FALSE
    OBVIOUS
  <2>1. \/ Known(sym, i, name)
        \/ program[i].kind = "generator" /\ sym = InHeader(i, name)
    <3> HIDE DEF MeaningOf, Known, UsedName, InHeader
    <3> QED  BY <1>1, <1>3, <1>7, MeaningOfIsKnown
  <2>2. \A b : sym = InHeader(b, name) => sym[1] = b
    <3> SUFFICES ASSUME NEW b, sym = InHeader(b, name) PROVE sym[1] = b
      OBVIOUS
    <3>1. PICK q : q = FirstOf({l \in 1 .. Len(program[b].names) : program[b].names[l] = name})
      OBVIOUS
    <3>2. InHeader(b, name) = IF q = 0 THEN nullptr ELSE <<b, q>>
      BY <3>1, HeaderIs
    <3>3. sym = <<b, q>>
      <4> HIDE DEF InHeader, nullptr
      <4> QED  BY <1>6, <3>2
    <3> QED  BY ONLY <3>3
  <2>3. ASSUME NEW d \in DOMAIN program, d <= i, sym = <<d, 1>> PROVE FALSE
    <3>1. program[d].line <= program[i].line
      BY <1>1, <1>7, <2>3 DEF LinesOK
    <3>2. sym[1] = d
      BY ONLY <2>3
    <3>3. program[d].line \in Nat /\ program[i].line \in Nat
      <4>1. program[d] \in Nodes /\ program[i] \in Nodes
        BY <1>1, <1>7, TextIs
      <4> QED  BY <4>1 DEF Nodes
    <3> QED  BY <1>6, <3>1, <3>2, <3>3
  <2>4. ASSUME NEW b \in Enclosing(i), sym = InHeader(b, name) PROVE FALSE
    <3>1. sym[1] = b
      <4> HIDE DEF InHeader
      <4> QED  BY <2>2, <2>4
    <3>2. HasBody(program[b])
      <4>1. i \in 1 .. Len(program) + 1
        BY ONLY <1>7
      <4> QED  BY <1>1, <4>1, EnclosingFacts
    <3> QED  BY <1>6, <3>1, <3>2 DEF HasBody, Openers
  <2>5. ASSUME program[i].kind = "generator", sym = InHeader(i, name) PROVE FALSE
    <3>1. sym[1] = i
      <4> HIDE DEF InHeader
      <4> QED  BY <2>2, <2>5
    <3> QED  BY <1>6, <2>5, <3>1
  <2> HIDE DEF InHeader, nullptr, Enclosing
  <2> QED  BY <1>6, <2>1, <2>3, <2>4, <2>5 DEF Known
<1>9. CASE Misdeclared(i, name)
  <2>1. Uneven
    BY <1>1, <1>9, Misfits
  <2> QED  BY <2>1 DEF Flawed
<1>10. CASE \E d \in LaterNamesakes(i, name) : sym = <<d, 1>>
  <2>1. i \in DOMAIN identifiers /\ k \in DOMAIN identifiers[i] /\ name = UsedName(program[i], k)
    <3>1. Len(identifiers) = Len(program) /\ DOMAIN identifiers = 1 .. Len(identifiers)
      BY <1>1 DEF IdentifiersOK, NInv, ResolvedOK
    <3> QED  BY <1>3, <1>4, <1>7, <3>1
  <2>2. Shadowed
    <3> HIDE DEF LaterNamesakes, UsedName
    <3> QED  BY <1>10, <2>1 DEF Shadowed
  <2> QED  BY <2>2 DEF Flawed
<1> HIDE DEF Misdeclared, LaterNamesakes, Flawed
<1> QED  BY <1>5, <1>8, <1>9, <1>10 DEF Fits

\* What RefWalk takes for a global variable that is not a constant.
LEMMA GlobalIsVariable ==
  ASSUME IInv, NInv, pass = "RefWalk", at \in DOMAIN program, IsGlobalVariable(at), ~program[at].const
  PROVE  Flawed
<1>1. PICK m : Laid(m)
  BY DEF NInv, LaidOK
<1>2. PICK i : i = at
  OBVIOUS
<1>3. PICK n \in DOMAIN scopes[1].symbols : scopes[1].symbols[n] = <<i, 1>>
  BY <1>2 DEF IsGlobalVariable
<1>4. n \in Names
  <2>1. ScopesOK
    BY DEF IInv, Rest
  <2>2. 1 \in 1 .. Len(scopes) /\ scopes \in Seq(ScopeRecords)
    BY <2>1 DEF ScopesOK
  <2>3. scopes[1] \in ScopeRecords
    <3> HIDE DEF ScopeRecords
    <3> QED  BY <2>2, ElementOfSeq
  <2> QED  BY <1>3, <2>3 DEF ScopeRecords, SymbolTable
<1>5. Holds(1, 0)
  <2>1. m[0] = 1 /\ \A b \in Bodies : Holds(m[b], b)
    <3> HIDE DEF Holds
    <3> QED  BY <1>1 DEF Laid
  <2>2. 0 \in Bodies
    BY DEF Bodies
  <2> HIDE DEF Holds, Bodies
  <2> QED  BY <2>1, <2>2
<1>6. InTable(1, n) = <<i, 1>>
  BY <1>3 DEF InTable
<1>7. PICK d : DeclaredIn(0, n) = {d} /\ <<i, 1>> = <<d, 1>>
  <2>1. <<i, 1>> # nullptr
    BY PairIsNotNull
  <2> HIDE DEF DeclaredIn, InTable, nullptr
  <2> QED  BY <1>4, <1>5, <1>6, <2>1 DEF Holds
<1>8. i \in DeclaredIn(0, n)
  <2>1. i = d
    BY ONLY <1>7
  <2> HIDE DEF DeclaredIn
  <2> QED  BY <1>7, <2>1
<1>9. Variable
  <2> HIDE DEF Body
  <2> QED  BY <1>2, <1>8 DEF DeclaredIn, Variable
<1> QED  BY <1>9 DEF Flawed

LEMMA OutcomeIdentifiers ==
  ASSUME IInv, NInv, WInv, RefIdentifiers, UNCHANGED <<shape, program>>
  PROVE  WInv'
<1>0. IInv'
  BY RefIdentifiersStep
<1>1. /\ pass = "RefWalk" /\ at \in DOMAIN program /\ TextOK /\ Live
      /\ program[at].kind \in {"var", "use", "generator", "iterator", "block", "loop", "conditional",
                               "return", "break"}
  BY DEF RefIdentifiers, Visit, IInv, Rest, Live
<1>2. \/ Reject /\ \/ \E k \in DOMAIN Symbols : UsedBeforeDefinition(Symbols[k], program[at].line)
                   \/ IsGlobalVariable(at) /\ ~program[at].const
      \/ resolved' = Append(resolved, Symbols) /\ at' = at + 1 /\ UNCHANGED <<pass, tables>>
  <2> HIDE DEF Symbols, UsedBeforeDefinition, IsGlobalVariable
  <2> QED  BY DEF RefIdentifiers
<1>3. CASE Reject /\ \/ \E k \in DOMAIN Symbols : UsedBeforeDefinition(Symbols[k], program[at].line)
                     \/ IsGlobalVariable(at) /\ ~program[at].const
  <2>1. Flawed
    <3> HIDE DEF Symbols, UsedBeforeDefinition, IsGlobalVariable, Flawed
    <3> QED  BY <1>1, <1>3, UsedEarly, GlobalIsVariable
  <2>2. pass' = "rejected" /\ UNCHANGED <<program, identifiers>>
    BY <1>3 DEF Reject, tables
  <2> HIDE DEF Flawed
  <2> QED  BY <1>0, <1>1, <2>1, <2>2, Rejects
<1>4. CASE resolved' = Append(resolved, Symbols) /\ at' = at + 1 /\ UNCHANGED <<pass, tables>>
  <2>1. /\ pass' = pass /\ at' = at + 1 /\ UNCHANGED <<program, identifiers, typeSymbols, subroutines>>
        /\ resolved' = Append(resolved, Symbols)
    <3> HIDE DEF Symbols
    <3> QED  BY <1>4 DEF tables
  <2>2. TypedefsTaken'
    BY <1>1, <2>1, TakenStays DEF WInv, IsTypedef
  <2> HIDE DEF Symbols
  <2> QED  BY <1>1, <2>1, <2>2, GoesOn
<1> HIDE DEF Symbols, UsedBeforeDefinition, IsGlobalVariable
<1> QED  BY <1>2, <1>3, <1>4

\* A subroutine that a node names and that no declaration has a body for.
LEMMA NoBody ==
  ASSUME TextOK, BodiesCounted, Walking, NEW i \in DOMAIN program,
         program[i].kind \in {"call", "subroutine"}, NEW f, f = program[i].subroutine,
         subroutines[f].numTimesDefined = 0 \/ Declarations(f) = {}
  PROVE  Flawed
<1>1. f \in Subroutines
  BY DEF TextOK
<1>2. \A j \in Declarations(f) : ~program[j].body
  <2> HIDE DEF Declarations
  <2> QED  BY <1>1 DEF BodiesCounted
<1>3. Bodiless
  <2> HIDE DEF Declarations
  <2> QED  BY <1>1, <1>2 DEF Bodiless
<1> QED  BY <1>3 DEF Flawed

LEMMA OutcomeRefCall ==
  ASSUME IInv, NInv, WInv, RefCall, UNCHANGED <<shape, program>>
  PROVE  WInv'
<1>0. IInv'
  BY RefCallStep
<1>1. /\ pass = "RefWalk" /\ at \in DOMAIN program /\ TextOK /\ Live /\ Walking
      /\ program[at].kind = "call"
  BY DEF RefCall, Visit, IInv, Rest, Live, Walking
<1>2. PICK f : f = program[at].subroutine
  OBVIOUS
<1>3. \/ Reject /\ subroutines[f].numTimesDeclare = 0
      \/ resolved' = Append(resolved, Symbols) /\ at' = at + 1 /\ UNCHANGED <<pass, tables>>
  <2> HIDE DEF Symbols
  <2> QED  BY <1>2 DEF RefCall
<1>4. CASE Reject /\ subroutines[f].numTimesDeclare = 0
  <2>1. Declarations(f) = {}
    <3>1. f \in Subroutines
      BY <1>1, <1>2 DEF TextOK
    <3> HIDE DEF Declarations
    <3> QED  BY <1>1, <1>4, <3>1 DEF IInv, CountersOK
  <2>2. Flawed
    <3> HIDE DEF Declarations, Flawed
    <3> QED  BY <1>1, <1>2, <2>1, NoBody DEF WInv
  <2>3. pass' = "rejected" /\ UNCHANGED <<program, identifiers>>
    BY <1>4 DEF Reject, tables
  <2> HIDE DEF Flawed
  <2> QED  BY <1>0, <1>1, <2>2, <2>3, Rejects
<1>5. CASE resolved' = Append(resolved, Symbols) /\ at' = at + 1 /\ UNCHANGED <<pass, tables>>
  <2>1. /\ pass' = pass /\ at' = at + 1 /\ UNCHANGED <<program, identifiers, typeSymbols, subroutines>>
        /\ resolved' = Append(resolved, Symbols)
    <3> HIDE DEF Symbols
    <3> QED  BY <1>5 DEF tables
  <2>2. TypedefsTaken'
    BY <1>1, <2>1, TakenStays DEF WInv, IsTypedef
  <2> HIDE DEF Symbols
  <2> QED  BY <1>1, <2>1, <2>2, GoesOn
<1> QED  BY <1>3, <1>4, <1>5

\* A declaration or a definition is done with.
LEMMA OutcomeFinish ==
  ASSUME IInv, NInv, IInv', WInv, NEW f \in Subroutines, FinishSubroutine(f), UNCHANGED <<shape, program>>,
         pass = "RefWalk", at \in DOMAIN program, program[at].kind \in {"subroutine", "close"},
         NEW i \in DOMAIN program, program[i].kind = "subroutine", program[i].subroutine = f
  PROVE  WInv'
<1>1. TextOK /\ SubroutinesOK /\ Live /\ Walking
  BY DEF IInv, Rest, Live, Walking
<1>2. /\ subroutines' = [subroutines EXCEPT ![f] = WithoutDuplicates(@)]
      /\ pass' = IF subroutines[f].numTimesDefined = 0 THEN "rejected" ELSE pass
      /\ at' = at + 1 /\ resolved' = Append(resolved, Symbols)
      /\ UNCHANGED <<typeSymbols, identifiers>>
  <2> HIDE DEF Symbols, WithoutDuplicates
  <2> QED  BY DEF FinishSubroutine
<1>3. CASE subroutines[f].numTimesDefined = 0
  <2>1. Flawed
    <3> HIDE DEF Flawed
    <3> QED  BY <1>1, <1>3, NoBody DEF WInv
  <2> HIDE DEF Flawed
  <2> QED  BY <1>1, <1>2, <1>3, <2>1, Rejects
<1>4. CASE subroutines[f].numTimesDefined # 0
  <2>1. PICK sub, new : sub = subroutines[f] /\ new = WithoutDuplicates(sub)
    OBVIOUS
  <2>2. sub \in SubroutineRecords /\ subroutines \in [Subroutines -> SubroutineRecords]
    BY <1>1, <2>1 DEF SubroutinesOK
  <2>3. new.numTimesDefined = sub.numTimesDefined
    BY <2>1, <2>2 DEF WithoutDuplicates, SubroutineRecords
  <2>4. \A g \in Subroutines : subroutines'[g].numTimesDefined = subroutines[g].numTimesDefined
    <3>1. subroutines' = [subroutines EXCEPT ![f] = new]
      BY <1>2, <2>1
    <3> HIDE DEF SubroutineRecords
    <3> QED  BY <2>1, <2>2, <2>3, <3>1
  <2>5. TypedefsTaken'
    BY <1>1, <1>2, TakenStays DEF WInv, IsTypedef
  <2> HIDE DEF Symbols
  <2> QED  BY <1>2, <1>4, <2>4, <2>5, GoesOn
<1> QED  BY <1>3, <1>4

LEMMA OutcomeRefSubroutine ==
  ASSUME IInv, NInv, WInv, RefSubroutine, UNCHANGED <<shape, program>>
  PROVE  WInv'
<1>0. IInv'
  BY RefSubroutineStep
<1>1. /\ pass = "RefWalk" /\ at \in DOMAIN program /\ TextOK /\ program[at].kind = "subroutine"
  BY DEF RefSubroutine, Visit, IInv, Rest
<1>2. PICK f : f = program[at].subroutine
  OBVIOUS
<1>3. f \in Subroutines
  BY <1>1, <1>2 DEF TextOK
<1>4. \/ resolved' = Append(resolved, Symbols) /\ at' = at + 1 /\ UNCHANGED <<pass, tables>>
      \/ FinishSubroutine(f)
  <2> HIDE DEF Symbols, FinishSubroutine
  <2> QED  BY <1>2 DEF RefSubroutine
<1>5. CASE resolved' = Append(resolved, Symbols) /\ at' = at + 1 /\ UNCHANGED <<pass, tables>>
  <2>1. /\ pass' = pass /\ at' = at + 1 /\ UNCHANGED <<program, identifiers, typeSymbols, subroutines>>
        /\ resolved' = Append(resolved, Symbols)
    <3> HIDE DEF Symbols
    <3> QED  BY <1>5 DEF tables
  <2>2. TypedefsTaken'
    BY <1>1, <2>1, TakenStays DEF WInv, IsTypedef
  <2> HIDE DEF Symbols
  <2> QED  BY <1>1, <2>1, <2>2, GoesOn
<1>6. CASE FinishSubroutine(f)
  <2> HIDE DEF FinishSubroutine
  <2> QED  BY <1>0, <1>1, <1>2, <1>3, <1>6, OutcomeFinish
<1> QED  BY <1>4, <1>5, <1>6

LEMMA OutcomeRefLeave ==
  ASSUME IInv, NInv, WInv, RefLeave, UNCHANGED <<shape, program>>
  PROVE  WInv'
<1>0. IInv'
  BY RefLeaveStep
<1>1. /\ pass = "RefWalk" /\ at \in DOMAIN program /\ TextOK /\ StackOK /\ program[at].kind = "close"
  BY DEF RefLeave, Visit, IInv, Rest
<1>2. open' = Front(open) /\ at' = at + 1
  BY DEF RefLeave, FinishSubroutine
<1>3. PICK last, f, here : last = Last(open) /\ f = program[last].subroutine /\ here = at
  OBVIOUS
<1>4. last \in DOMAIN program
  <2>1. Follows
    BY <1>1, <1>2 DEF Follows
  <2> HIDE DEF Finished
  <2> QED  BY <1>1, <1>2, <1>3, <2>1, FinishedNext
<1>5. \/ resolved' = Append(resolved, Symbols) /\ at' = at + 1 /\ UNCHANGED <<pass, tables>>
      \/ FinishSubroutine(f) /\ program[last].kind = "subroutine"
  <2> HIDE DEF Symbols, FinishSubroutine
  <2> QED  BY <1>3 DEF RefLeave
<1>6. CASE resolved' = Append(resolved, Symbols) /\ at' = at + 1 /\ UNCHANGED <<pass, tables>>
  <2>1. /\ pass' = pass /\ at' = at + 1 /\ UNCHANGED <<program, identifiers, typeSymbols, subroutines>>
        /\ resolved' = Append(resolved, Symbols)
    <3> HIDE DEF Symbols
    <3> QED  BY <1>6 DEF tables
  <2>2. TypedefsTaken'
    BY <1>1, <2>1, TakenStays DEF WInv, IsTypedef
  <2> HIDE DEF Symbols
  <2> QED  BY <1>1, <2>1, <2>2, GoesOn
<1>7. CASE FinishSubroutine(f) /\ program[last].kind = "subroutine"
  <2>1. f \in Subroutines
    BY <1>1, <1>3, <1>4, <1>7 DEF TextOK
  <2> HIDE DEF FinishSubroutine
  <2> QED  BY <1>0, <1>1, <1>3, <1>4, <1>7, <2>1, OutcomeFinish
<1> QED  BY <1>5, <1>6, <1>7

\* A typedef of a type that is no typedef declared before it.
LEMMA NoTarget ==
  ASSUME TextOK, KindsOK, TypedefsOK, Live, Walking, NEW j \in DOMAIN program, IsTypedef(j),
         NEW target, target = program[j].use, target # builtIn,
         \A k \in 1 .. j - 1 : IsTypedef(k) => TypedefName(k) # target
  PROVE  Flawed
<1>1. DOMAIN program = 1 .. Len(program) /\ Len(program) \in Nat
  BY TextIs
<1>2. ASSUME NEW k \in 1 .. j - 1, program[k].kind = "typedef", program[k].names = <<target>>
      PROVE  FALSE
  <2>1. IsTypedef(k) /\ TypedefName(k) = target
    BY <1>2 DEF IsTypedef, TypedefName
  <2> QED  BY <2>1
<1>3. program[j].kind = "typedef"
  BY DEF IsTypedef
<1>4. EarlyTypedef
  <2> HIDE DEF builtIn
  <2> QED  BY <1>2, <1>3 DEF EarlyTypedef
<1> QED  BY <1>4 DEF Flawed

LEMMA OutcomeRefTypedef ==
  ASSUME IInv, NInv, WInv, RefTypedef, UNCHANGED <<shape, program>>
  PROVE  WInv'
<1>0. IInv'
  BY RefTypedefStep
<1>1. /\ pass = "RefWalk" /\ at \in DOMAIN program /\ TextOK /\ Live /\ Walking /\ TypedefsOK
      /\ KindsOK /\ TypedefsTaken /\ program[at].kind = "typedef"
  BY DEF RefTypedef, Visit, IInv, Rest, Live, Walking, WInv
<1>2. PICK t, target, here : t = TypedefName(at) /\ target = program[at].use /\ here = at
  OBVIOUS
<1>3. /\ IsTypedef(here) /\ here \in 1 .. Len(program) /\ here \in Nat /\ DOMAIN program = 1 .. Len(program)
      /\ Len(program) \in Nat
  BY <1>1, <1>2, TextIs DEF IsTypedef
<1>4. /\ t \in DOMAIN typeSymbols /\ typeSymbols[t] = unset /\ builtIn \notin DOMAIN typeSymbols
      /\ unset \notin DOMAIN typeSymbols /\ builtIn # unset /\ Typedefs # {}
  <2>1. at >= at
    BY <1>2, <1>3
  <2>2. t \in DOMAIN typeSymbols /\ typeSymbols[t] = unset /\ DOMAIN typeSymbols \subseteq Typedefs
    <3> HIDE DEF IsTypedef, TypedefName, unset
    <3> QED  BY <1>1, <1>2, <1>3, <2>1 DEF TypedefsOK
  <2> QED  BY <2>2, NamesAssumption DEF builtIn, unset
<1>5. CASE target \in DOMAIN typeSymbols /\ Target(target) = unset
  <2>1. pass' = "crashed" /\ UNCHANGED identifiers
    <3>1. pass' = "crashed" /\ UNCHANGED <<at, open, tables, named, resolved>>
      <4> HIDE DEF Symbols, Target, tables
      <4> QED  BY <1>2, <1>5 DEF RefTypedef
    <3> QED  BY <3>1 DEF tables
  <2>2. typeSymbols[target] = unset
    <3> SUFFICES ASSUME typeSymbols[target] # unset PROVE FALSE
      OBVIOUS
    <3>1. \/ typeSymbols[target] = builtIn
          \/ typeSymbols[target] \in DOMAIN typeSymbols /\ typeSymbols[typeSymbols[target]] = builtIn
      <4> HIDE DEF builtIn, unset
      <4> QED  BY <1>1, <1>5 DEF TypedefsOK, Resolvable
    <3>2. Target(target) = builtIn
      <4> HIDE DEF builtIn, unset, Target
      <4> QED  BY <1>4, <3>1, TargetEnds
    <3> QED  BY <1>4, <1>5, <3>2
  <2>3. target # builtIn
    BY <1>4, <1>5
  <2>4. Flawed
    <3>1. CASE \A k \in 1 .. here - 1 : IsTypedef(k) => TypedefName(k) # target
      <4> HIDE DEF builtIn, IsTypedef, TypedefName, Flawed
      <4> QED  BY <1>1, <1>2, <1>3, <2>3, <3>1, NoTarget
    <3>2. CASE \E k \in 1 .. here - 1 : IsTypedef(k) /\ TypedefName(k) = target
      <4>1. PICK j \in 1 .. here - 1 : IsTypedef(j) /\ TypedefName(j) = target
        BY <3>2
      <4>2. PICK u : u = program[j].use
        OBVIOUS
      <4>3. j \in DOMAIN program /\ u # builtIn /\ u \notin DOMAIN typeSymbols
        <5>1. j \in DOMAIN program
          BY <1>3, <4>1
        <5> HIDE DEF builtIn, unset, IsTypedef, TypedefName
        <5> QED  BY <1>1, <1>2, <2>2, <4>1, <4>2, <5>1 DEF TypedefsTaken
      <4>4. \A k \in 1 .. j - 1 : IsTypedef(k) => TypedefName(k) # u
        <5>1. \A k \in 1 .. j - 1 : k \in DOMAIN program
          BY <1>3, <4>3
        <5> HIDE DEF IsTypedef, TypedefName, builtIn, unset
        <5> QED  BY <1>1, <4>3, <5>1 DEF TypedefsOK
      <4> HIDE DEF builtIn, IsTypedef, TypedefName, Flawed
      <4> QED  BY <1>1, <4>1, <4>2, <4>3, <4>4, NoTarget
    <3> QED  BY <3>1, <3>2
  <2> HIDE DEF Flawed
  <2> QED  BY <1>0, <1>1, <2>1, <2>4, Rejects
<1>6. CASE ~(target \in DOMAIN typeSymbols /\ Target(target) = unset)
  <2>1. /\ typeSymbols' =
             IF target \in DOMAIN typeSymbols
             THEN [typeSymbols EXCEPT ![target] = Target(target), ![t] = target]
             ELSE [typeSymbols EXCEPT ![t] = IF target = builtIn THEN builtIn ELSE unset]
        /\ at' = at + 1 /\ resolved' = Append(resolved, Symbols)
        /\ UNCHANGED <<pass, subroutines, identifiers>>
    <3> HIDE DEF Symbols, Target, builtIn, unset
    <3> QED  BY <1>2, <1>6 DEF RefTypedef, TypedefName
  <2>2. /\ DOMAIN typeSymbols' = DOMAIN typeSymbols
        /\ typeSymbols'[t] = unset => target # builtIn /\ target \notin DOMAIN typeSymbols
        /\ \A u \in DOMAIN typeSymbols \ {t} : typeSymbols[u] # unset => typeSymbols'[u] # unset
    <3>1. CASE target \in DOMAIN typeSymbols
      <4>1. PICK v : v = Target(target)
        OBVIOUS
      <4>2. v # unset /\ typeSymbols' = [typeSymbols EXCEPT ![target] = v, ![t] = target]
        <5> HIDE DEF Target, unset, builtIn
        <5> QED  BY <1>6, <2>1, <3>1, <4>1
      <4>3. target # unset
        BY <1>4, <3>1
      <4> HIDE DEF unset, builtIn
      <4> QED  BY <1>4, <3>1, <4>2, <4>3
    <3>2. CASE target \notin DOMAIN typeSymbols
      <4>1. PICK v : v = (IF target = builtIn THEN builtIn ELSE unset)
        OBVIOUS
      <4>2. typeSymbols' = [typeSymbols EXCEPT ![t] = v]
        <5> HIDE DEF Target, unset, builtIn
        <5> QED  BY <2>1, <3>2, <4>1
      <4> HIDE DEF unset, builtIn
      <4> QED  BY <1>4, <3>2, <4>1, <4>2
    <3> QED  BY <3>1, <3>2
  <2>3. TypedefsTaken'
    <3>1. \A i : IsTypedef(i)' = IsTypedef(i) /\ TypedefName(i)' = TypedefName(i)
      BY DEF IsTypedef, TypedefName
    <3>2. ASSUME NEW i \in 1 .. here, IsTypedef(i)
          PROVE  \/ typeSymbols'[TypedefName(i)] # unset
                 \/ program[i].use # builtIn /\ program[i].use \notin DOMAIN typeSymbols
      <4>1. CASE i = here
        <5> HIDE DEF builtIn, unset, IsTypedef, TypedefName
        <5> QED  BY <1>2, <2>2, <4>1
      <4>2. CASE i # here
        <5>1. i \in 1 .. here - 1 /\ i \in DOMAIN program /\ here \in DOMAIN program
          BY <1>3, <4>2
        <5>2. TypedefName(i) \in DOMAIN typeSymbols /\ TypedefName(i) # t
          <6> HIDE DEF builtIn, unset, IsTypedef, TypedefName
          <6> QED  BY <1>1, <1>2, <1>3, <3>2, <4>2, <5>1 DEF TypedefsOK
        <5>3. \/ typeSymbols[TypedefName(i)] # unset
              \/ program[i].use # builtIn /\ program[i].use \notin DOMAIN typeSymbols
          <6> HIDE DEF builtIn, unset, IsTypedef, TypedefName
          <6> QED  BY <1>1, <1>2, <3>2, <5>1 DEF TypedefsTaken
        <5> HIDE DEF builtIn, unset, IsTypedef, TypedefName
        <5> QED  BY <2>2, <5>2, <5>3
      <4> QED  BY <4>1, <4>2
    <3>3. 1 .. at' - 1 = 1 .. here /\ program' = program
      BY <1>2, <1>3, <2>1
    <3> HIDE DEF builtIn, unset, IsTypedef, TypedefName
    <3> QED  BY <2>2, <3>1, <3>2, <3>3 DEF TypedefsTaken
  <2>4. \A f \in Subroutines : subroutines'[f].numTimesDefined = subroutines[f].numTimesDefined
    BY <2>1
  <2>5. /\ at' = at + 1 /\ pass' = pass /\ resolved' = Append(resolved, Symbols)
        /\ UNCHANGED <<program, identifiers>>
    <3> HIDE DEF Symbols
    <3> QED  BY <2>1
  <2> HIDE DEF Symbols
  <2> QED  BY <1>1, <2>3, <2>4, <2>5, GoesOn
<1> QED  BY <1>5, <1>6

LEMMA OutcomesOfRefWalk ==
  ASSUME IInv, NInv, WInv, RefWalk, UNCHANGED <<shape, program>>
  PROVE  WInv'
<1>1. CASE RefIdentifiers
  BY <1>1, OutcomeIdentifiers
<1>2. CASE RefCall
  BY <1>2, OutcomeRefCall
<1>3. CASE RefSubroutine
  BY <1>3, OutcomeRefSubroutine
<1>4. CASE RefLeave
  BY <1>4, OutcomeRefLeave
<1>5. CASE RefTypedef
  BY <1>5, OutcomeRefTypedef
<1> QED  BY <1>1, <1>2, <1>3, <1>4, <1>5 DEF RefWalk

(***************************************************************************)
(* TypeWalk, and a step that changes nothing.                              *)
(***************************************************************************)
LEMMA OutcomeTypeWalk ==
  ASSUME IInv, NInv, WInv, TypeWalkIdentifiers
  PROVE  WInv'
<1>0. IInv'
  BY TypeWalkStep
<1>1. /\ pass = "RefWalk" /\ at = Len(program) + 1 /\ Live /\ Walking
      /\ UNCHANGED <<program, at, open, identifiers, resolved, subroutines>>
      /\ pass' = "accepted" \/ (Unresolved /\ pass' = "rejected")
  BY DEF TypeWalkIdentifiers, tables, Live, Walking
<1>2. TextOK /\ StackOK /\ IdentifiersOK /\ ResolvedOK /\ AllResolved /\ KindsOK /\ ClosedOK
  BY DEF IInv, Rest, NInv, WInv
<1>3. /\ Len(program) \in Nat /\ DOMAIN resolved = 1 .. Len(resolved)
      /\ DOMAIN identifiers = 1 .. Len(identifiers)
      /\ Len(resolved) = Len(program) /\ Len(identifiers) = Len(program)
  <2>1. Len(program) \in Nat
    BY <1>2, TextIs
  <2>2. Len(resolved) = at - 1 /\ Len(identifiers) = Len(program)
    BY <1>1, <1>2 DEF IdentifiersOK
  <2>3. DOMAIN resolved = 1 .. Len(resolved) /\ DOMAIN identifiers = 1 .. Len(identifiers)
    BY <1>2 DEF IdentifiersOK
  <2> QED  BY <1>1, <2>1, <2>2, <2>3
<1>4. CASE Unresolved /\ pass' = "rejected"
  <2>1. PICK i \in 1 .. Len(program) : \E k \in DOMAIN resolved[i] : resolved[i][k] = nullptr
    BY <1>3, <1>4 DEF Unresolved
  <2>2. PICK k \in DOMAIN resolved[i] : resolved[i][k] = nullptr
    BY <2>1
  <2>3. i \in DOMAIN identifiers /\ k \in DOMAIN identifiers[i]
    <3> HIDE DEF nullptr
    <3> QED  BY <1>1, <1>2, <1>3 DEF AllResolved
  <2>4. Right(i, k)
    <3> HIDE DEF Right, nullptr
    <3> QED  BY <1>1, <1>2, <1>3, <2>3 DEF ResolvedOK
  <2>5. PICK name : name = UsedName(program[i], k)
    OBVIOUS
  <2>6. resolved[i][k] = MeaningOf(i, k) \/ NamesakeOnItsLine(i, name) \/ Misdeclared(i, name)
    <3> HIDE DEF MeaningOf, NamesakeOnItsLine, Misdeclared, UsedName, nullptr
    <3> QED  BY <2>4, <2>5 DEF Right
  <2>7. Flawed
    <3>1. CASE resolved[i][k] = MeaningOf(i, k)
      <4> HIDE DEF MeaningOf, nullptr
      <4>1. Unmeant
        BY <2>2, <2>3, <3>1 DEF Unmeant
      <4> QED  BY <4>1 DEF Flawed
    <3>2. CASE NamesakeOnItsLine(i, name)
      <4>1. LaterNamesakes(i, name) # {}
        <5> HIDE DEF LaterNamesakes
        <5> QED  BY <3>2 DEF NamesakeOnItsLine
      <4>2. Shadowed
        <5> HIDE DEF LaterNamesakes, UsedName
        <5> QED  BY <2>3, <2>5, <4>1 DEF Shadowed
      <4> QED  BY <4>2 DEF Flawed
    <3>3. CASE Misdeclared(i, name)
      <4>1. Uneven
        <5> HIDE DEF Misdeclared, Uneven
        <5> QED  BY <1>2, <3>3, Misfits
      <4> QED  BY <4>1 DEF Flawed
    <3> QED  BY <2>6, <3>1, <3>2, <3>3
  <2> HIDE DEF Flawed
  <2> QED  BY <1>0, <1>1, <1>4, <2>7, Rejects
<1>5. CASE pass' = "accepted"
  <2>1. pass' = "accepted"
    BY <1>5
  <2>2. KindsOK'
    BY <1>1, <1>2, KindsStay
  <2>3. ClosedOK'
    <3>1. Around(at)
      BY <1>1, <1>2 DEF StackOK
    <3>2. Len(open) = 0 /\ open \in Seq(DOMAIN program)
      <4>1. Len(open) = Depth[at] /\ Depth[Len(program) + 1] = 0
        BY <1>1, <1>2, <3>1 DEF Around, ClosedOK
      <4> QED  BY <1>1, <1>2, <4>1 DEF TextOK
    <3>3. open = <<>>
      BY <3>2
    <3> QED  BY <1>1, <2>1, <3>3 DEF ClosedOK
  <2>4. AllResolved'
    <3>1. \A i \in 1 .. Len(resolved) : DOMAIN resolved[i] = DOMAIN identifiers[i]
      BY <1>1, <1>2 DEF AllResolved
    <3> QED  BY <1>1, <3>1 DEF AllResolved
  <2> QED  BY <2>1, <2>2, <2>3, <2>4 DEF WInv, MainOK, BodiesCounted, TypedefsDeclared, TypedefsTaken,
                                          WellFormedIsAccepted, Walking
<1> QED  BY <1>1, <1>4, <1>5

\* Two parts of WellFormed.
ApartOK ==
  \A i, j \in DOMAIN program :
    (i # j /\ {program[i].kind, program[j].kind} \in {{"var"}, {"typedef"}} /\ Body(i) = Body(j))
      => program[i].names # program[j].names

NodeOK(i) ==
  LET node == program[i]
      declarations == Declarations(node.subroutine)
  IN  /\ node.kind = "var" /\ Body(i) = 0 => node.const
      /\ node.kind \in {"call", "subroutine"} =>
           /\ Cardinality(declarations) <= 2 /\ \E j \in declarations : program[j].body
           /\ \A j, k \in declarations : Len(program[j].names) = Len(program[k].names)
      /\ node.kind = "break" => \E j \in Enclosing(i) : program[j].kind \in {"loop", "iterator"}
      /\ node.kind = "typedef" /\ node.use # builtIn =>
           \E j \in 1..(i - 1) : program[j].kind = "typedef" /\ program[j].names = <<node.use>>

\* What a program whose text stays is worth.
LEMMA WellFormedStays ==
  ASSUME UNCHANGED <<program, identifiers>>, TextOK, TextOK', Len(identifiers) <= Len(program),
         IdentifiersOK, WellFormed'
  PROVE  WellFormed
<1>1. Depth' = Depth
  BY DEF Depth
<1>2. \A i : Enclosing(i)' = Enclosing(i) /\ Body(i)' = Body(i)
  BY <1>1 DEF Enclosing, Body
<1>3. \A f : Declarations(f)' = Declarations(f)
  BY DEF Declarations
<1>4. \A b, name : DeclaredIn(b, name)' = DeclaredIn(b, name)
  BY <1>2 DEF DeclaredIn
<1>5. \A i, name : LaterNamesakes(i, name)' = LaterNamesakes(i, name)
  BY <1>2, <1>4 DEF LaterNamesakes
<1>6. \A i \in DOMAIN identifiers : \A k : MeaningOf(i, k)' = MeaningOf(i, k)
  <2>1. \A i \in 1 .. Len(program) : \A k : MeaningOf(i, k)' = MeaningOf(i, k)
    <3> HIDE DEF MeaningOf
    <3> QED  BY TextStays
  <2>2. \A i \in DOMAIN identifiers : i \in 1 .. Len(program)
    <3>1. DOMAIN identifiers = 1 .. Len(identifiers) /\ Len(identifiers) \in Nat
      BY DEF IdentifiersOK
    <3>2. Len(program) \in Nat
      BY TextIs
    <3> QED  BY <3>1, <3>2
  <2> HIDE DEF MeaningOf
  <2> QED  BY <2>1, <2>2
<1>7. program' = program /\ identifiers' = identifiers
  OBVIOUS
<1>8. /\ Identifiers' = Identifiers /\ \A id \in Identifiers : id[1] \in DOMAIN identifiers
      /\ \A i, k : UsedName(program[i], k)' = UsedName(program[i], k)
  BY DEF Identifiers, UsedName
<1> HIDE DEF Enclosing, Body, Declarations, MeaningOf, LaterNamesakes, UsedName, nullptr, builtIn, Identifiers
<1>9. \A id \in Identifiers :
        LET name == UsedName(program[id[1]], id[2])
        IN  MeaningOf(id[1], id[2]) # nullptr /\ LaterNamesakes(id[1], name) = {}
  BY <1>5, <1>6, <1>7, <1>8 DEF WellFormed
<1>10. ApartOK
  <2>1. ApartOK'
    BY DEF WellFormed, ApartOK
  <2> QED  BY <1>2, <1>7, <2>1 DEF ApartOK
<1>11. \A i \in DOMAIN program : NodeOK(i)
  <2>1. \A i \in DOMAIN program' : NodeOK(i)'
    BY DEF WellFormed, NodeOK
  <2>2. ASSUME NEW i \in DOMAIN program
        PROVE  NodeOK(i)
    <3>1. NodeOK(i)'
      BY <1>7, <2>1
    <3> QED  BY <1>2, <1>3, <1>7, <3>1 DEF NodeOK
  <2> QED  BY <2>2
<1>12. Declarations(main) # {}
  BY <1>3 DEF WellFormed
<1> QED  BY <1>9, <1>10, <1>11, <1>12 DEF WellFormed, ApartOK, NodeOK

\* DefWalk notes the scopes of a node's identifiers when it has read the node.
FewOK == Len(identifiers) <= Len(program)

LEMMA FewStep ==
  ASSUME IInv, NInv, FewOK, [Next]_vars
  PROVE  FewOK'
<1>1. IInv' /\ NInv'
  BY Steps, NamesStep
<1>2. TextOK /\ TextOK' /\ IdentifiersOK
  BY <1>1 DEF IInv, Rest
<1>3. Len(program) \in Nat /\ Len(program') \in Nat /\ program \in Seq(Nodes)
  BY <1>2 DEF TextOK
<1>4. CASE Live'
  <2>1. Len(identifiers') = Len(program')
    BY <1>1, <1>4 DEF NInv, ResolvedOK
  <2> QED  BY <1>3, <2>1 DEF FewOK
<1>5. CASE ~Live'
  <2>1. UNCHANGED identifiers /\ (UNCHANGED program \/ \E node : program' = Append(program, node))
    <3>1. CASE VisitVariableDeclaration
      BY <1>5, <3>1 DEF VisitVariableDeclaration, Read, Throw, tables, Live
    <3>2. CASE VisitSubroutineDeclDef
      BY <1>5, <3>2 DEF VisitSubroutineDeclDef, Read, Throw, tables, Live
    <3>3. CASE VisitBreak
      BY <1>5, <3>3 DEF VisitBreak, Read, Throw, tables, Live
    <3>4. CASE VisitTypedefStatement
      BY <1>5, <3>4 DEF VisitTypedefStatement, Read, Throw, tables, Live
    <3>5. CASE VisitUse \/ VisitCall \/ VisitBlock \/ VisitReturn \/ Leave
      BY <1>5, <3>5 DEF VisitUse, VisitCall, VisitBlock, VisitReturn, Leave, Read, Live
    <3>6. CASE VisitIteratorLoop \/ VisitGenerator
      BY <1>5, <3>6 DEF VisitIteratorLoop, VisitGenerator, Read, Live
    <3>7. CASE CheckMain
      BY <3>7 DEF CheckMain, tables
    <3>8. CASE RefWalk /\ UNCHANGED <<shape, program>>
      <4>1. UNCHANGED identifiers
        <5> HIDE DEF Symbols, Target, WithoutDuplicates, UsedBeforeDefinition, IsGlobalVariable
        <5> QED  BY <3>8 DEF RefWalk, RefIdentifiers, RefCall, RefSubroutine, RefLeave, RefTypedef,
                             FinishSubroutine, Reject, tables
      <4> QED  BY <3>8, <4>1
    <3>9. CASE TypeWalkIdentifiers
      BY <3>9 DEF TypeWalkIdentifiers, tables
    <3>10. CASE UNCHANGED vars
      BY <3>10 DEF vars, tables
    <3> QED  BY <3>1, <3>2, <3>3, <3>4, <3>5, <3>6, <3>7, <3>8, <3>9, <3>10 DEF Next, DefWalk
  <2>2. Len(program') >= Len(program)
    <3>1. ASSUME NEW node, program' = Append(program, node) PROVE Len(program') = Len(program) + 1
      BY <1>3, <3>1
    <3> QED  BY <1>3, <2>1, <3>1
  <2>3. Len(identifiers) \in Nat /\ identifiers' = identifiers
    BY <1>2, <2>1 DEF IdentifiersOK
  <2> QED  BY <1>3, <2>2, <2>3 DEF FewOK
<1> QED  BY <1>4, <1>5

\* A step that changes nothing.
LEMMA OutcomeStays ==
  ASSUME IInv, IInv', FewOK, WInv, UNCHANGED vars
  PROVE  WInv'
<1>1. /\ UNCHANGED <<program, open, identifiers, resolved, subroutines, typeSymbols>>
      /\ pass' = pass /\ at' = at /\ hasMainProcedure' = hasMainProcedure
  BY DEF vars, tables
<1>2. TextOK /\ TextOK' /\ IdentifiersOK
  BY DEF IInv, Rest
<1>3. CASE Live
  <2>1. Depth' = Depth /\ \A f : Declarations(f)' = Declarations(f)
    BY <1>1 DEF Depth, Declarations
  <2>2. KindsOK'
    BY <1>1, <1>3, KindsStay DEF WInv
  <2>3. ClosedOK'
    BY <1>1, <2>1 DEF WInv, ClosedOK
  <2>4. BodiesCounted' /\ MainOK'
    <3> HIDE DEF Declarations
    <3> QED  BY <1>1, <2>1 DEF WInv, BodiesCounted, MainOK, Walking
  <2>5. TypedefsDeclared' /\ TypedefsTaken'
    <3>1. \A i : IsTypedef(i)' = IsTypedef(i) /\ TypedefName(i)' = TypedefName(i)
      BY <1>1 DEF IsTypedef, TypedefName
    <3> HIDE DEF IsTypedef, TypedefName, unset, builtIn
    <3> QED  BY <1>1, <3>1 DEF WInv, TypedefsDeclared, TypedefsTaken
  <2>6. AllResolved'
    BY <1>1 DEF WInv, AllResolved, Live
  <2>7. WellFormedIsAccepted'
    BY <1>1, <1>3 DEF WellFormedIsAccepted, Live
  <2> QED  BY <2>2, <2>3, <2>4, <2>5, <2>6, <2>7 DEF WInv
<1>4. CASE ~Live
  <2>1. pass' \in {"rejected", "crashed"} /\ pass \in {"rejected", "crashed"}
    BY <1>1, <1>2, <1>4 DEF TextOK, Live
  <2>2. ~WellFormed
    <3> HIDE DEF WellFormed
    <3> QED  BY <2>1 DEF WInv, WellFormedIsAccepted
  <2>3. ~WellFormed'
    <3> SUFFICES ASSUME WellFormed' PROVE FALSE
      OBVIOUS
    <3> HIDE DEF WellFormed
    <3> QED  BY <1>1, <1>2, <2>2, WellFormedStays DEF FewOK
  <2> HIDE DEF WellFormed
  <2> QED  BY <2>1, <2>3, Ends
<1> QED  BY <1>3, <1>4

LEMMA OutcomeStep ==
  ASSUME IInv, NInv, FewOK, WInv, [Next]_vars
  PROVE  WInv'
<1>1. CASE DefWalk
  BY <1>1, OutcomesOfDefWalk
<1>2. CASE CheckMain
  BY <1>2, OutcomeMain
<1>3. CASE RefWalk /\ UNCHANGED <<shape, program>>
  BY <1>3, OutcomesOfRefWalk
<1>4. CASE TypeWalkIdentifiers
  BY <1>4, OutcomeTypeWalk
<1>5. CASE UNCHANGED vars
  BY <1>5, Steps, OutcomeStays
<1> QED  BY <1>1, <1>2, <1>3, <1>4, <1>5 DEF Next

LEMMA OutcomesInitially ==
  ASSUME Init
  PROVE  FewOK /\ WInv
<1>1. /\ program = <<>> /\ pass = "DefWalk" /\ at = 1 /\ open = <<>> /\ DOMAIN program = {}
      /\ Len(program) = 0 /\ Len(identifiers) = 0 /\ Len(resolved) = 0 /\ DOMAIN typeSymbols = {}
  BY DEF Init
<1>2. \A f : Declarations(f) = {}
  BY <1>1 DEF Declarations
<1> HIDE DEF Declarations
<1> QED  BY <1>1, <1>2 DEF FewOK, WInv, KindsOK, ClosedOK, MainOK, BodiesCounted, TypedefsDeclared,
                           TypedefsTaken, AllResolved, WellFormedIsAccepted

LEMMA OutcomesInvariant == Spec => []WInv
<1>1. Init => FewOK /\ WInv
  BY OutcomesInitially
<1>2. IInv /\ NInv /\ FewOK /\ WInv /\ [Next]_vars => FewOK' /\ WInv'
  BY FewStep, OutcomeStep
<1> QED  BY <1>1, <1>2, Invariant, NamesInvariant, PTL DEF Spec

\* In a program that is accepted, where the definition of a subroutine comes
\* last and its declarations agree in their number of parameters, a name that
\* means a parameter gets the symbol that LLVMGen binds to that argument,
\* whatever the program: DefWalk makes one symbol for each declaration, and
\* RefWalk drops the first half of them (RefWalk::visitSubroutineDeclDef).
THEOREM ParametersAreGiven == Spec => []ParametersAreBound
<1>1. IInv /\ NInv /\ WInv => ParametersAreBound
  BY ParametersBound
<1> QED  BY <1>1, Invariant, NamesInvariant, OutcomesInvariant, PTL

\* Every program that DefWalk, RefWalk or TypeWalk rejects, and every one on
\* which resolving a typedef crashes, has one of the flaws that WellFormed
\* excludes: no well-formed program is turned away, whatever the program.
THEOREM WellFormedProgramsPass == Spec => []WellFormedIsAccepted
<1>1. WInv => WellFormedIsAccepted
  BY DEF WInv
<1> QED  BY <1>1, OutcomesInvariant, PTL
=============================================================================
