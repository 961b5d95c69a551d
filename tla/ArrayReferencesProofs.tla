------------------------ MODULE ArrayReferencesProofs ------------------------
(***************************************************************************)
(* Shared data is counted exactly, references of references reach what     *)
(* they should, data fits its dimensions, and is written to through        *)
(* references only: for any number of variables, any arrays and indices,   *)
(* and any order of the calls.                                             *)
(***************************************************************************)
EXTENDS ArrayReferences, FiniteSetTheorems, SequenceTheorems, NaturalsInduction,
        WellFoundedInduction, TLAPS

(***************************************************************************)
(* The inductive invariant.  What the variables and blocks hold besides    *)
(* the sharing is left open: the count does not depend on it.              *)
(***************************************************************************)
IsVariable(v) ==
  /\ v = [kind |-> v.kind, dims |-> v.dims, self |-> v.self, root |-> v.root,
          rows |-> v.rows, cols |-> v.cols]
  /\ v.kind = "none" => v.self = NoBlock

IsBlock(d) == d = [dims |-> d.dims, data |-> d.data, refCount |-> d.refCount]

Shape ==
  /\ var = [s \in Slots |-> var[s]]
  /\ block = [b \in Blocks |-> block[b]]
  /\ \A s \in Slots : IsVariable(var[s])
  /\ \A b \in Blocks : IsBlock(block[b])

IInv == Shape /\ CountIsHolders

(***************************************************************************)
(* The holders of a block.                                                 *)
(***************************************************************************)
\* The holders are finitely many, so a count is a natural number, and it is 0
\* only if nothing holds the block.
LEMMA HoldersAreCounted ==
  ASSUME CountIsHolders, NEW b \in Blocks
  PROVE  /\ IsFiniteSet(Holders(b))
         /\ block[b].refCount \in Nat
         /\ block[b].refCount = 0 <=> Holders(b) = {}
<1>1. Holders(b) \in SUBSET Slots
  BY DEF Holders
<1>2. IsFiniteSet(Holders(b))
  BY <1>1, SlotsAssumption, FS_Subset
<1>3. Cardinality(Holders(b)) \in Nat
  BY <1>2, FS_CardinalityType
<1>4. Cardinality(Holders(b)) = 0 <=> Holders(b) = {}
  BY <1>2, FS_EmptySet
<1> QED  BY <1>2, <1>3, <1>4 DEF CountIsHolders

\* When one variable changes what it holds, it leaves the holders of the old
\* block and joins those of the new one.
LEMMA HoldersChange ==
  ASSUME Shape, NEW s \in Slots, NEW v, var' = [var EXCEPT ![s] = v], NEW b \in Blocks
  PROVE  /\ b = v.self => Holders(b)' = Holders(b) \cup {s}
         /\ b # v.self => Holders(b)' = Holders(b) \ {s}
         /\ var[s].self # b => s \notin Holders(b)
         /\ var[s].self = b => s \in Holders(b)
<1>1. \A t \in Slots : var'[t] = IF t = s THEN v ELSE var[t]
  BY DEF Shape
<1> QED  BY <1>1 DEF Holders

\* The count of b after s has become v.
CountAfter(b, s, v) ==
  block[b].refCount + (IF b = v.self /\ var[s].self # b THEN 1 ELSE 0)
                    - (IF b # v.self /\ var[s].self = b THEN 1 ELSE 0)

\* The number of holders of a block after one variable has changed what it holds.
LEMMA HoldersCount ==
  ASSUME IInv, NEW s \in Slots, NEW v, var' = [var EXCEPT ![s] = v], NEW b \in Blocks
  PROVE  Cardinality(Holders(b)') = CountAfter(b, s, v)
<1>1. /\ IsFiniteSet(Holders(b))
      /\ block[b].refCount = Cardinality(Holders(b))
      /\ block[b].refCount \in Nat
  BY HoldersAreCounted DEF IInv, CountIsHolders
<1>2. /\ b = v.self => Holders(b)' = Holders(b) \cup {s}
      /\ b # v.self => Holders(b)' = Holders(b) \ {s}
      /\ var[s].self # b => s \notin Holders(b)
      /\ var[s].self = b => s \in Holders(b)
  BY HoldersChange DEF IInv
<1>3. Cardinality(Holders(b) \cup {s}) =
        IF s \in Holders(b) THEN Cardinality(Holders(b)) ELSE Cardinality(Holders(b)) + 1
  BY <1>1, FS_AddElement
<1>4. Cardinality(Holders(b) \ {s}) =
        IF s \in Holders(b) THEN Cardinality(Holders(b)) - 1 ELSE Cardinality(Holders(b))
  BY <1>1, FS_RemoveElement
<1>5. CASE b = v.self
  BY <1>1, <1>2, <1>3, <1>5 DEF CountAfter
<1>6. CASE b # v.self /\ var[s].self = b
<2>1. Holders(b)' = Holders(b) \ {s} /\ s \in Holders(b)
  BY <1>2, <1>6
<2>2. Cardinality(Holders(b)') = block[b].refCount - 1
  BY <2>1, <1>1, <1>4
<2> QED  BY <2>2, <1>1, <1>6 DEF CountAfter
<1>7. CASE b # v.self /\ var[s].self # b
<2>1. Holders(b)' = Holders(b) \ {s} /\ s \notin Holders(b)
  BY <1>2, <1>7
<2>2. Cardinality(Holders(b)') = block[b].refCount
  BY <2>1, <1>1, <1>4
<2> QED  BY <2>2, <1>1, <1>7 DEF CountAfter
<1> QED  BY <1>5, <1>6, <1>7

(***************************************************************************)
(* The steps.                                                              *)
(***************************************************************************)
\* A variable that changes what it holds keeps the invariant, if the counts
\* follow.
LEMMA Rebinding ==
  ASSUME IInv, NEW s \in Slots, NEW v, IsVariable(v), var' = [var EXCEPT ![s] = v],
         NEW heap, block' = heap, heap = [b \in Blocks |-> heap[b]],
         \A b \in Blocks :
           /\ IsBlock(heap[b])
           /\ heap[b].refCount = CountAfter(b, s, v)
  PROVE  IInv'
<1>1. \A b \in Blocks : block'[b].refCount = Cardinality(Holders(b)')
<2>1. TAKE b \in Blocks
<2>2. Cardinality(Holders(b)') = CountAfter(b, s, v)
  BY HoldersCount
<2>3. block'[b].refCount = heap[b].refCount
  OBVIOUS
<2> QED  BY <2>2, <2>3
<1>2. CountIsHolders'
  BY <1>1 DEF CountIsHolders
<1>3. /\ var' = [t \in Slots |-> var'[t]]
      /\ \A t \in Slots : IsVariable(var'[t])
  BY DEF IInv, Shape
<1>4. /\ block' = [b \in Blocks |-> block'[b]]
      /\ \A b \in Blocks : IsBlock(block'[b])
  OBVIOUS
<1>5. Shape'
  BY <1>3, <1>4 DEF Shape, IsVariable, IsBlock
<1> QED  BY <1>2, <1>5 DEF IInv

\* A copy by reference is counted.
LEMMA NewReferenceStep ==
  ASSUME IInv, NEW s \in Slots, Running(s), NEW kind, kind # "none",
         NEW dims, NEW self, NEW rows, NEW cols, NEW elements,
         NewReference(s, kind, dims, self, rows, cols, elements)
  PROVE  IInv'
<1> DEFINE v == Variable(kind, dims, self, rows, cols)
<1>1. IsVariable(v) /\ v.self = self
  BY DEF IsVariable, Variable
<1>2. var' = [var EXCEPT ![s] = v] /\ block' = CopyByRef(block, self)
  BY DEF NewReference, Initialise
<1>3. CopyByRef(block, self) = [b \in Blocks |-> CopyByRef(block, self)[b]]
  BY DEF CopyByRef, IInv, Shape
<1>4. var[s].self = NoBlock
  BY DEF IInv, Shape, IsVariable, Running
<1>5. ASSUME NEW b \in Blocks
      PROVE  /\ IsBlock(CopyByRef(block, self)[b])
             /\ CopyByRef(block, self)[b].refCount = CountAfter(b, s, v)
<2>1. block[b].refCount \in Nat
  BY HoldersAreCounted DEF IInv
<2>2. IsBlock(block[b]) /\ DOMAIN block = Blocks
  BY DEF IInv, Shape
<2>3. CASE b = self
<3>1. CopyByRef(block, self)[b] = [block[b] EXCEPT !.refCount = @ + 1]
  BY <2>2, <2>3 DEF CopyByRef
<3> QED  BY <3>1, <2>1, <2>2, <2>3, <1>1, <1>4, NoBlockAssumption DEF IsBlock, CountAfter
<2>4. CASE b # self
<3>1. CopyByRef(block, self)[b] = block[b]
  BY <2>2, <2>4 DEF CopyByRef
<3> QED  BY <3>1, <2>1, <2>2, <2>4, <1>1, <1>4, NoBlockAssumption DEF CountAfter
<2> QED  BY <2>3, <2>4
<1> QED  BY <1>1, <1>2, <1>3, <1>5, Rebinding

\* A new array is its data's only holder.
LEMMA InitArrayStep ==
  ASSUME IInv, NEW s \in Slots, NEW dims, NEW data, InitArray(s, dims, data)
  PROVE  IInv'
<1>1. PICK b0 \in Fresh :
        Initialise(s, Variable("array", dims, b0, NoIndex, NoIndex),
                   NewBlock(block, b0, dims, data), <<>>)
  BY DEF InitArray
<1> DEFINE v == Variable("array", dims, b0, NoIndex, NoIndex)
           heap == NewBlock(block, b0, dims, data)
<1>2. IsVariable(v) /\ v.self = b0
  BY DEF IsVariable, Variable
<1>3. var' = [var EXCEPT ![s] = v] /\ block' = heap
  BY <1>1 DEF Initialise
<1>4. heap = [b \in Blocks |-> heap[b]]
  BY DEF NewBlock, IInv, Shape
<1>5. var[s].self = NoBlock
  BY DEF IInv, Shape, IsVariable, InitArray, Running
<1>6. ASSUME NEW b \in Blocks
      PROVE  IsBlock(heap[b]) /\ heap[b].refCount = CountAfter(b, s, v)
<2>1. block[b].refCount \in Nat
  BY HoldersAreCounted DEF IInv
<2>2. IsBlock(block[b]) /\ DOMAIN block = Blocks
  BY DEF IInv, Shape
<2>3. CASE b = b0
<3>1. heap[b] = [dims |-> dims, data |-> data, refCount |-> 1]
  BY <2>2, <2>3 DEF NewBlock
<3>2. block[b].refCount = 0
  BY <2>3 DEF Fresh
<3> QED  BY <3>1, <3>2, <2>3, <1>2, <1>5, NoBlockAssumption DEF IsBlock, CountAfter
<2>4. CASE b # b0
<3>1. heap[b] = block[b]
  BY <2>2, <2>4 DEF NewBlock
<3> QED  BY <3>1, <2>1, <2>2, <2>4, <1>2, <1>5, NoBlockAssumption DEF CountAfter
<2> QED  BY <2>3, <2>4
<1> QED  BY <1>2, <1>3, <1>4, <1>6, Rebinding

\* The array made of a temporary gives its data up; the reference holds it.
LEMMA TemporaryStep ==
  ASSUME IInv, NEW s \in Slots, NEW dims, NEW data, NEW w,
         InitFromTemporaryIndexing(s, dims, data, w)
  PROVE  IInv'
<1>1. PICK b0 \in Fresh :
        Initialise(s, Variable("1d", IndexDims(w), b0, w, NoIndex),
                   Destructed(CopyByRef(NewBlock(block, b0, dims, data), b0), b0),
                   [i \in DOMAIN w.at |-> Checked(w.at[i] - 1, Len(data))])
  BY DEF InitFromTemporaryIndexing
<1> DEFINE v == Variable("1d", IndexDims(w), b0, w, NoIndex)
           made == NewBlock(block, b0, dims, data)
           heap == Destructed(CopyByRef(made, b0), b0)
<1>2. IsVariable(v) /\ v.self = b0
  BY DEF IsVariable, Variable
<1>3. var' = [var EXCEPT ![s] = v] /\ block' = heap
  BY <1>1 DEF Initialise
<1>4. heap = [b \in Blocks |-> heap[b]]
  BY DEF NewBlock, CopyByRef, Destructed, IInv, Shape
<1>5. var[s].self = NoBlock
  BY DEF IInv, Shape, IsVariable, InitFromTemporaryIndexing, Running
<1>6. ASSUME NEW b \in Blocks
      PROVE  IsBlock(heap[b]) /\ heap[b].refCount = CountAfter(b, s, v)
<2>1. block[b].refCount \in Nat
  BY HoldersAreCounted DEF IInv
<2>2. IsBlock(block[b]) /\ DOMAIN block = Blocks
  BY DEF IInv, Shape
<2>3. CASE b = b0
<3>1. made[b] = [dims |-> dims, data |-> data, refCount |-> 1] /\ DOMAIN made = Blocks
  BY <2>2, <2>3 DEF NewBlock
<3>2. /\ CopyByRef(made, b0)[b] = [dims |-> dims, data |-> data, refCount |-> 2]
      /\ DOMAIN CopyByRef(made, b0) = Blocks
  BY <3>1, <2>3 DEF CopyByRef
<3>3. heap[b] = [dims |-> dims, data |-> data, refCount |-> 1]
  BY <3>2, <2>3 DEF Destructed
<3>4. block[b].refCount = 0
  BY <2>3 DEF Fresh
<3> QED  BY <3>3, <3>4, <2>3, <1>2, <1>5, NoBlockAssumption DEF IsBlock, CountAfter
<2>4. CASE b # b0
<3>1. heap[b] = block[b]
  BY <2>2, <2>4 DEF NewBlock, CopyByRef, Destructed
<3> QED  BY <3>1, <2>1, <2>2, <2>4, <1>2, <1>5, NoBlockAssumption DEF CountAfter
<2> QED  BY <2>3, <2>4
<1> QED  BY <1>2, <1>3, <1>4, <1>6, Rebinding

\* A destroyed variable or reference is uncounted.
LEMMA DestructStep ==
  ASSUME IInv, NEW s \in Slots, Destruct(s)
  PROVE  IInv'
<1> DEFINE old == var[s].self
           heap == Destructed(block, old)
<1>1. IsVariable(NoVariable) /\ NoVariable.self = NoBlock
  BY DEF IsVariable, NoVariable, Variable
<1>2. var' = [var EXCEPT ![s] = NoVariable] /\ block' = heap
  BY DEF Destruct, Initialise
<1>3. heap = [b \in Blocks |-> heap[b]]
  BY DEF Destructed, IInv, Shape
<1>4. ASSUME NEW b \in Blocks
      PROVE  IsBlock(heap[b]) /\ heap[b].refCount = CountAfter(b, s, NoVariable)
<2>1. block[b].refCount \in Nat
  BY HoldersAreCounted DEF IInv
<2>2. IsBlock(block[b]) /\ DOMAIN block = Blocks
  BY DEF IInv, Shape
<2>3. CASE b = old
<3>1. heap[b] = [block[b] EXCEPT !.refCount = @ - 1]
  BY <2>2, <2>3 DEF Destructed
<3> QED  BY <3>1, <2>1, <2>2, <2>3, <1>1, NoBlockAssumption DEF IsBlock, CountAfter
<2>4. CASE b # old
<3>1. heap[b] = block[b]
  BY <2>2, <2>4 DEF Destructed
<3> QED  BY <3>1, <2>1, <2>2, <2>4, <1>1, NoBlockAssumption DEF CountAfter
<2> QED  BY <2>3, <2>4
<1> QED  BY <1>1, <1>2, <1>3, <1>4, Rebinding

\* An array that is assigned to moves to fresh data; a reference keeps holding
\* the old.
LEMMA AssignToArrayStep ==
  ASSUME IInv, NEW s \in Slots, NEW values, var[s].kind = "array", AssignToArray(s, values)
  PROVE  IInv'
<1>1. PICK b0 \in Fresh :
        /\ var' = [var EXCEPT ![s].self = b0]
        /\ block' = NewBlock(Destructed(block, var[s].self), b0, var[s].dims, values)
  BY DEF AssignToArray
<1> DEFINE old == var[s].self
           v == [var[s] EXCEPT !.self = b0]
           heap == NewBlock(Destructed(block, old), b0, var[s].dims, values)
<1>2. IsVariable(v) /\ v.self = b0
  BY DEF IsVariable, IInv, Shape
<1>3. var' = [var EXCEPT ![s] = v] /\ block' = heap
  BY <1>1
<1>4. heap = [b \in Blocks |-> heap[b]]
  BY DEF NewBlock, Destructed, IInv, Shape
<1>5. old # b0
<2>1. b0 \in Blocks /\ block[b0].refCount = 0
  BY DEF Fresh
<2>2. Holders(b0) = {}
  BY <2>1, HoldersAreCounted DEF IInv
<2> QED  BY <2>2 DEF Holders
<1>6. ASSUME NEW b \in Blocks
      PROVE  IsBlock(heap[b]) /\ heap[b].refCount = CountAfter(b, s, v)
<2>1. block[b].refCount \in Nat
  BY HoldersAreCounted DEF IInv
<2>2. IsBlock(block[b]) /\ DOMAIN block = Blocks
  BY DEF IInv, Shape
<2>3. DOMAIN Destructed(block, old) = Blocks
  BY <2>2 DEF Destructed
<2>4. CASE b = b0
<3>1. heap[b] = [dims |-> var[s].dims, data |-> values, refCount |-> 1]
  BY <2>3, <2>4 DEF NewBlock
<3>2. block[b].refCount = 0
  BY <2>4 DEF Fresh
<3> QED  BY <3>1, <3>2, <2>4, <1>2, <1>5 DEF IsBlock, CountAfter
<2>5. CASE b # b0 /\ b = old
<3>1. Destructed(block, old)[b] = [block[b] EXCEPT !.refCount = @ - 1]
  BY <2>2, <2>5 DEF Destructed
<3>2. heap[b] = [block[b] EXCEPT !.refCount = @ - 1]
  BY <3>1, <2>3, <2>5 DEF NewBlock
<3> QED  BY <3>2, <2>1, <2>2, <2>5, <1>2 DEF IsBlock, CountAfter
<2>6. CASE b # b0 /\ b # old
<3>1. heap[b] = block[b]
  BY <2>2, <2>3, <2>6 DEF NewBlock, Destructed
<3> QED  BY <3>1, <2>1, <2>2, <2>6, <1>2 DEF CountAfter
<2> QED  BY <2>4, <2>5, <2>6
<1> QED  BY <1>2, <1>3, <1>4, <1>6, Rebinding

\* A step that changes neither what the variables hold nor a count.
LEMMA SameHoldersStep ==
  ASSUME IInv, UNCHANGED var, block' = [b \in Blocks |-> block'[b]],
         \A b \in Blocks : IsBlock(block'[b]) /\ block'[b].refCount = block[b].refCount
  PROVE  IInv'
<1>1. Shape'
  BY DEF IInv, Shape, IsVariable, IsBlock
<1>2. \A b \in Blocks : Holders(b)' = Holders(b)
  BY DEF Holders
<1>3. \A b \in Blocks : block'[b].refCount = Cardinality(Holders(b)')
  BY <1>2 DEF IInv, CountIsHolders
<1>4. CountIsHolders'
  BY <1>3 DEF CountIsHolders
<1> QED  BY <1>1, <1>4 DEF IInv

\* The end of the program, and a step that does nothing.
LEMMA NothingHeldStep ==
  ASSUME IInv, UNCHANGED <<var, block>>
  PROVE  IInv'
<1>1. /\ block' = [b \in Blocks |-> block'[b]]
      /\ \A b \in Blocks : IsBlock(block'[b]) /\ block'[b].refCount = block[b].refCount
  BY DEF IInv, Shape, IsBlock
<1> QED  BY <1>1, SameHoldersStep

\* Assignment: an array is made anew, through a reference only data is written.
LEMMA AssignStep ==
  ASSUME IInv, NEW s \in Slots, NEW t \in Slots, Assign(s, t)
  PROVE  IInv'
<1> DEFINE v == var[s]
           values == Promoted(var[t], v.dims)
           written == IF values = <<>> THEN block[v.self].data ELSE Written(v, values)
<1>1. CASE Stop
  BY <1>1, NothingHeldStep DEF Stop
<1>2. CASE v.kind = "array" /\ AssignToArray(s, values)
  BY <1>2, AssignToArrayStep
<1>3. CASE UNCHANGED var /\ block' = [block EXCEPT ![v.self].data = written]
<2>1. block' = [b \in Blocks |-> block'[b]]
  BY <1>3 DEF IInv, Shape
<2>2. ASSUME NEW b \in Blocks
      PROVE  IsBlock(block'[b]) /\ block'[b].refCount = block[b].refCount
<3>1. IsBlock(block[b]) /\ DOMAIN block = Blocks
  BY DEF IInv, Shape
<3>2. block'[b] = block[b] \/ block'[b] = [block[b] EXCEPT !.data = written]
  BY <3>1, <1>3
<3> QED  BY <3>1, <3>2 DEF IsBlock
<2> QED  BY <1>3, <2>1, <2>2, SameHoldersStep
<1> QED  BY <1>1, <1>2, <1>3 DEF Assign

\* The reference to a reference holds no block of an array.
LEMMA SelfOfReferenceStep ==
  ASSUME IInv, NEW s \in Slots, NEW t \in Slots, InitFromSelfIndexingOfReference(s, t)
  PROVE  IInv'
<1> DEFINE v == [Variable("self", var[t].dims, NoBlock, NoIndex, NoIndex) EXCEPT !.root = "reference"]
<1>1. IsVariable(v) /\ v.self = NoBlock
  BY DEF IsVariable, Variable
<1>2. var' = [var EXCEPT ![s] = v] /\ block' = block
  BY DEF InitFromSelfIndexingOfReference
<1>3. var[s].self = NoBlock
  BY DEF IInv, Shape, IsVariable, InitFromSelfIndexingOfReference, Running
<1>4. ASSUME NEW b \in Blocks
      PROVE  IsBlock(block[b]) /\ block[b].refCount = CountAfter(b, s, v)
<2>1. block[b].refCount \in Nat
  BY HoldersAreCounted DEF IInv
<2> QED  BY <2>1, <1>1, <1>3, NoBlockAssumption DEF CountAfter, IInv, Shape
<1>5. block = [b \in Blocks |-> block[b]]
  BY DEF IInv, Shape
<1> QED  BY <1>1, <1>2, <1>4, <1>5, Rebinding

\* Indexing by a vector: one case per kind of the variable indexed.
LEMMA VectorIndexingStep ==
  ASSUME IInv, NEW s \in Slots, NEW t \in Slots, NEW w, InitFromVectorIndexing(s, t, w)
  PROVE  IInv'
<1>1. CASE Stop
  BY <1>1, NothingHeldStep DEF Stop
<1>2. ASSUME NEW kind \in {"1d", "2d"}, NEW rows, NEW cols,
             NewReference(s, kind, IndexDims(w), var[t].self, rows, cols, Picked(Denoted(t), w))
      PROVE  IInv'
  BY <1>2, NewReferenceStep DEF InitFromVectorIndexing
<1>3. Stop \/ \E kind \in {"1d", "2d"} : \E rows, cols :
        NewReference(s, kind, IndexDims(w), var[t].self, rows, cols, Picked(Denoted(t), w))
  BY DEF InitFromVectorIndexing
<1> QED  BY <1>1, <1>2, <1>3

\* Indexing by two.
LEMMA MatrixIndexingStep ==
  ASSUME IInv, NEW s \in Slots, NEW t \in Slots, NEW r, NEW c,
         InitFromMatrixIndexing(s, t, r, c)
  PROVE  IInv'
<1>1. CASE Stop
  BY <1>1, NothingHeldStep DEF Stop
<1>2. ASSUME NEW dims, NEW rows, NEW cols,
             NewReference(s, "2d", dims, var[t].self, rows, cols, PickedMatrix(Denoted(t), var[t].dims, r, c))
      PROVE  IInv'
  BY <1>2, NewReferenceStep DEF InitFromMatrixIndexing
<1>3. Stop \/ \E dims, rows, cols :
        NewReference(s, "2d", dims, var[t].self, rows, cols, PickedMatrix(Denoted(t), var[t].dims, r, c))
  BY DEF InitFromMatrixIndexing
<1> QED  BY <1>1, <1>2, <1>3

\* Indexing an array by itself.
LEMMA SelfIndexingStep ==
  ASSUME IInv, NEW s \in Slots, NEW t \in Slots, InitFromSelfIndexing(s, t)
  PROVE  IInv'
<1>1. CASE Stop
  BY <1>1, NothingHeldStep DEF Stop
<1>2. CASE NewReference(s, "self", var[t].dims, var[t].self, NoIndex, NoIndex, <<>>)
  BY <1>2, NewReferenceStep DEF InitFromSelfIndexing
<1> QED  BY <1>1, <1>2 DEF InitFromSelfIndexing

(***************************************************************************)
(* The specification.                                                      *)
(***************************************************************************)
\* Nothing is held at first.
LEMMA InitInv == Init => IInv
<1> SUFFICES ASSUME Init PROVE IInv
  OBVIOUS
<1>1. Shape
  BY DEF Init, Shape, IsVariable, IsBlock, NoVariable, Variable
<1>2. \A b \in Blocks : Holders(b) = {}
  BY NoBlockAssumption DEF Init, Holders, NoVariable, Variable
<1>3. \A b \in Blocks : block[b].refCount = Cardinality(Holders(b))
  BY <1>2, FS_EmptySet DEF Init
<1> QED  BY <1>1, <1>3 DEF IInv, CountIsHolders

\* Every call keeps the invariant.
LEMMA NextInv == IInv /\ [Next]_vars => IInv'
<1> SUFFICES ASSUME IInv, [Next]_vars PROVE IInv'
  OBVIOUS
<1>1. ASSUME NEW s \in Slots, NEW a \in Arrays, InitArray(s, a.dims, a.data)
      PROVE  IInv'
  BY <1>1, InitArrayStep
<1>2. ASSUME NEW s \in Slots, NEW a \in Temporaries, NEW w \in Indices,
             InitFromTemporaryIndexing(s, a.dims, a.data, w)
      PROVE  IInv'
  BY <1>2, TemporaryStep
<1>3. ASSUME NEW s \in Slots, Destruct(s)
      PROVE  IInv'
  BY <1>3, DestructStep
<1>4. ASSUME NEW s \in Slots, NEW t \in Slots, InitFromCopy(s, t)
      PROVE  IInv'
<2>1. CASE Stop
  BY <2>1, NothingHeldStep DEF Stop
<2>2. CASE InitArray(s, var[t].dims, Value(var[t]))
  BY <2>2, InitArrayStep
<2> QED  BY <1>4, <2>1, <2>2 DEF InitFromCopy
<1>5. ASSUME NEW s \in Slots, NEW t \in Slots, InitFromSelfIndexing(s, t)
      PROVE  IInv'
  BY <1>5, SelfIndexingStep
<1>6. ASSUME NEW s \in Slots, NEW t \in Slots, InitFromSelfIndexingOfReference(s, t)
      PROVE  IInv'
  BY <1>6, SelfOfReferenceStep
<1>7. ASSUME NEW s \in Slots, NEW t \in Slots, NEW w \in Indices, InitFromVectorIndexing(s, t, w)
      PROVE  IInv'
  BY <1>7, VectorIndexingStep
<1>8. ASSUME NEW s \in Slots, NEW t \in Slots, NEW r \in Indices, NEW c \in Indices,
             InitFromMatrixIndexing(s, t, r, c)
      PROVE  IInv'
  BY <1>8, MatrixIndexingStep
<1>9. ASSUME NEW s \in Slots, NEW t \in Slots, Assign(s, t)
      PROVE  IInv'
  BY <1>9, AssignStep
<1>10. CASE UNCHANGED vars
  BY <1>10, NothingHeldStep DEF vars
<1> QED  BY <1>1, <1>2, <1>3, <1>4, <1>5, <1>6, <1>7, <1>8, <1>9, <1>10 DEF Next

(***************************************************************************)
(* The count of the data of an array is the number of variables and        *)
(* references that hold it, after any calls of NDArrayVariable.c in any    *)
(* order: it is freed neither while one of them is left (:62) nor later    *)
(* than by the last.                                                       *)
(***************************************************************************)
THEOREM CountIsExact == Spec => []CountIsHolders
<1>1. IInv => CountIsHolders
  BY DEF IInv
<1> QED  BY InitInv, NextInv, <1>1, PTL DEF Spec


(***************************************************************************)
(* The elements a reference stands for.  They depend on its indices, the   *)
(* length of the data and the dimensions, and not on the data itself.      *)
(***************************************************************************)
\* The place of an element of a matrix with nCol columns.
Place(row, col, nCol, len) ==
  IF col \in 1 .. nCol THEN Checked((row - 1) * nCol + col - 1, len) ELSE Nowhere

Grid(rows, cols, nCol, len) ==
  [i \in 1 .. Len(rows) * Len(cols) |->
    Place(rows[(i - 1) \div Len(cols) + 1], cols[((i - 1) % Len(cols)) + 1], nCol, len)]

Line(u, len) == [i \in 1 .. Len(u) |-> Checked(u[i] - 1, len)]

Reached(v, d) ==
  IF v.kind = "1d" THEN Line(v.rows.at, Len(d.data))
  ELSE Grid(v.rows.at, v.cols.at, d.dims[2], Len(d.data))

WellIndexed(w) == w \in Index /\ (w.scalar => Len(w.at) = 1)

\* What holds of a variable that holds the block d and stands for elements.
Stands(v, d, elements) ==
  /\ Len(d.dims) <= 2 /\ Len(d.data) = Sizes(d.dims)
  /\ v.kind \in {"array", "self"} => v.dims = d.dims
  /\ v.kind = "self" => Len(d.dims) = 1
  /\ v.kind = "1d" => WellIndexed(v.rows) /\ v.dims = IndexDims(v.rows)
  /\ v.kind = "2d" =>
       /\ WellIndexed(v.rows) /\ WellIndexed(v.cols)
       /\ v.dims = IndexDims(v.rows) \o IndexDims(v.cols) /\ Len(d.dims) = 2
  /\ v.kind \in {"1d", "2d"} => elements = Reached(v, d)

Variables == [kind : {"none", "array", "self", "1d", "2d"}, dims : Seq(Nat),
              self : Blocks \cup {NoBlock}, root : {"array", "reference"},
              rows : Index, cols : Index]

(***************************************************************************)
(* The inductive invariant of the references.                              *)
(***************************************************************************)
References ==
  /\ var \in [Slots -> Variables]
  /\ \A b \in Blocks : block[b].dims \in Seq(Nat) /\ block[b].data \in Seq(Int)
  /\ status \in {"running", "stopped", "undefined"}
  /\ denotes \in [Slots -> Seq(Int)]
  /\ status # "undefined" => \A s \in Slots : var[s].root = "array"
  /\ \A s \in Slots : var[s].root = "array" \/ var[s].kind = "self"
  /\ \A s \in Slots :
       /\ var[s].kind # "none" /\ var[s].root = "array" <=> var[s].self \in Blocks
       /\ var[s].self \in Blocks => Stands(var[s], block[var[s].self], denotes[s])

RInv == IInv /\ References

(***************************************************************************)
(* Arithmetic of matrices.                                                 *)
(***************************************************************************)
\* A position in m rows of n has a row and a column.
LEMMA RowAndColumn ==
  ASSUME NEW m \in Nat, NEW n \in Nat, NEW a \in Nat, a < m * n
  PROVE  a \div n \in 0 .. m - 1 /\ a % n \in 0 .. n - 1
<1>1. n \in Nat \ {0}
  <2>1. CASE n = 0
    <3>1. m * n = 0
      BY <2>1
    <3> QED  BY <3>1
  <2> QED  BY <2>1
<1>2. a % n \in 0 .. n - 1 /\ a = n * (a \div n) + (a % n) /\ a \div n \in Int
  BY <1>1
<1> DEFINE q == a \div n
<1>3. PICK k \in Int : k = q
  BY <1>2
<1>4. n * k <= a /\ a < n * k + n
  BY <1>1, <1>2, <1>3
<1>5. k >= 0
  <2>1. CASE k <= -1
    <3>1. n * k <= n * (-1)
      BY <1>1, <2>1
    <3>2. n * (-1) = -n
      BY <1>1
    <3> QED  BY <1>1, <1>4, <3>1, <3>2
  <2> QED  BY <2>1
<1>6. k < m
  <2>1. CASE m <= k
    <3>1. m * n <= n * k
      BY <1>1, <2>1
    <3> QED  BY <1>4, <3>1
  <2> QED  BY <2>1
<1> QED  BY <1>2, <1>3, <1>5, <1>6

\* The places of a row are those of the matrix, if it has the row.
LEMMA PlaceInMatrix ==
  ASSUME NEW x \in Int, NEW d1 \in Nat, NEW d2 \in Nat, NEW y \in 1 .. d2
  PROVE  /\ (x - 1) * d2 + y - 1 \in 0 .. d1 * d2 - 1 <=> x \in 1 .. d1
         /\ x \in 1 .. d1 => (x - 1) * d2 + y \in 1 .. d1 * d2
<1> DEFINE z == (x - 1) * d2
<1>1. z \in Int /\ d1 * d2 \in Nat
  OBVIOUS
<1>2. CASE x <= 0
  <2>1. z <= (-1) * d2
    BY <1>2
  <2>2. (-1) * d2 = -d2
    OBVIOUS
  <2> HIDE DEF z
  <2> QED  BY <1>1, <1>2, <2>1, <2>2 DEF z
<1>3. CASE x \in 1 .. d1
  <2>1. 0 * d2 <= z
    BY <1>3
  <2>2. z + d2 = x * d2 /\ x * d2 <= d1 * d2 /\ 0 * d2 = 0
    BY <1>3
  <2>3. PICK zz \in Int, p \in Nat : zz = z /\ p = d1 * d2
    BY <1>1
  <2>4. 0 <= zz /\ zz + d2 <= p
    BY <2>1, <2>2, <2>3
  <2>5. zz + y - 1 \in 0 .. p - 1 /\ zz + y \in 1 .. p
    BY <2>4
  <2> QED  BY <1>3, <2>3, <2>5
<1>4. CASE x >= d1 + 1
  <2>1. d1 * d2 <= z
    BY <1>4
  <2> HIDE DEF z
  <2> QED  BY <1>1, <1>4, <2>1 DEF z
<1> QED  BY <1>2, <1>3, <1>4

(***************************************************************************)
(* Lines and grids.                                                        *)
(***************************************************************************)
\* A place is an element or Nowhere.
LEMMA PlaceType ==
  ASSUME NEW row \in Int, NEW col \in Int, NEW nCol \in Nat, NEW len \in Nat
  PROVE  Place(row, col, nCol, len) \in Int
<1>1. (row - 1) * nCol + col - 1 \in Int
  OBVIOUS
<1> QED  BY <1>1 DEF Place, Checked, Nowhere

\* Lines and grids are sequences of places.
LEMMA LineType ==
  ASSUME NEW u \in Seq(Int), NEW len \in Nat
  PROVE  Line(u, len) \in Seq(Int)
<1>1. \A i \in 1 .. Len(u) : Checked(u[i] - 1, len) \in Int
  BY DEF Checked, Nowhere
<1> QED  BY <1>1 DEF Line

LEMMA GridType ==
  ASSUME NEW rows \in Seq(Int), NEW cols \in Seq(Int), NEW nCol \in Nat, NEW len \in Nat
  PROVE  Grid(rows, cols, nCol, len) \in Seq(Int)
<1> DEFINE n == Len(rows) * Len(cols)
           P(i) == Place(rows[(i - 1) \div Len(cols) + 1], cols[((i - 1) % Len(cols)) + 1], nCol, len)
<1>1. n \in Nat
  OBVIOUS
<1>2. ASSUME NEW i \in 1 .. n PROVE P(i) \in Int
  <2>0. Len(rows) \in Nat /\ Len(cols) \in Nat /\ i - 1 \in Nat /\ i - 1 < Len(rows) * Len(cols)
    BY <1>1
  <2>1. /\ (i - 1) \div Len(cols) \in 0 .. Len(rows) - 1
        /\ (i - 1) % Len(cols) \in 0 .. Len(cols) - 1
    BY ONLY <2>0, RowAndColumn
  <2>2. /\ rows[(i - 1) \div Len(cols) + 1] \in Int
        /\ cols[((i - 1) % Len(cols)) + 1] \in Int
    <3>1. /\ (i - 1) \div Len(cols) + 1 \in 1 .. Len(rows)
          /\ ((i - 1) % Len(cols)) + 1 \in 1 .. Len(cols)
      BY <2>0, <2>1
    <3> QED  BY ONLY <3>1, rows \in Seq(Int), cols \in Seq(Int), ElementOfSeq
  <2> QED  BY <2>2, PlaceType
<1>3. [i \in 1 .. n |-> P(i)] \in Seq(Int)
  <2> HIDE DEF n, P
  <2> QED  BY <1>1, <1>2
<1> QED  BY <1>3 DEF Grid

\* A grid of one column.
LEMMA GridColumn ==
  ASSUME NEW rows \in Seq(Int), NEW cols \in Seq(Int), NEW nCol, NEW len, Len(cols) = 1
  PROVE  Grid(rows, cols, nCol, len) = [i \in 1 .. Len(rows) |-> Place(rows[i], cols[1], nCol, len)]
<1>1. Len(rows) * Len(cols) = Len(rows)
  OBVIOUS
<1>2. \A i \in 1 .. Len(rows) : (i - 1) \div 1 + 1 = i /\ ((i - 1) % 1) + 1 = 1
  OBVIOUS
<1> QED  BY <1>1, <1>2 DEF Grid

\* A grid of one row.
LEMMA GridRow ==
  ASSUME NEW rows \in Seq(Int), NEW cols \in Seq(Int), NEW nCol, NEW len, Len(rows) = 1
  PROVE  Grid(rows, cols, nCol, len) = [i \in 1 .. Len(cols) |-> Place(rows[1], cols[i], nCol, len)]
<1>1. Len(rows) * Len(cols) = Len(cols)
  OBVIOUS
<1>2. ASSUME NEW i \in 1 .. Len(cols)
      PROVE  (i - 1) \div Len(cols) + 1 = 1 /\ ((i - 1) % Len(cols)) + 1 = i
  <2>1. PICK n \in Nat : n = Len(cols)
    OBVIOUS
  <2>2. n \in Nat \ {0} /\ i - 1 \in Nat /\ i - 1 < 1 * n
    BY <2>1
  <2>3. (i - 1) \div n \in 0 .. 1 - 1 /\ (i - 1) % n \in 0 .. n - 1
    BY <2>2, RowAndColumn
  <2>4. i - 1 = n * ((i - 1) \div n) + ((i - 1) % n) /\ (i - 1) \div n = 0
    BY <2>2, <2>3
  <2>5. n * 0 = 0
    BY <2>2
  <2>6. (i - 1) % n = i - 1
    BY <2>3, <2>4, <2>5
  <2> QED  BY <2>1, <2>4, <2>6
<1> QED  BY <1>1, <1>2 DEF Grid

\* Joining sequences of at most one element.
LEMMA JoinedPairs ==
  ASSUME NEW m \in Nat, NEW n \in Nat
  PROVE  /\ <<>> \o <<>> = <<>> /\ <<m>> \o <<>> = <<m>> /\ <<>> \o <<n>> = <<n>>
         /\ <<m>> \o <<n>> = <<m, n>>
<1>1. <<m>> \in Seq(Nat) /\ <<n>> \in Seq(Nat) /\ <<>> \in Seq(Nat) /\ <<m, n>> \in Seq(Nat)
      /\ Len(<<m>>) = 1 /\ Len(<<n>>) = 1 /\ Len(<<m, n>>) = 2 /\ Len(<<>>) = 0
      /\ <<m>>[1] = m /\ <<n>>[1] = n /\ <<m, n>>[1] = m /\ <<m, n>>[2] = n
  OBVIOUS
<1>2. <<m>> \o <<n>> = <<m, n>>
  <2> DEFINE s == <<m>>
             t == <<n>>
             u == <<m, n>>
  <2>1. /\ s \in Seq(Nat) /\ t \in Seq(Nat) /\ u \in Seq(Nat)
        /\ Len(s) = 1 /\ Len(t) = 1 /\ Len(u) = 2 /\ s[1] = m /\ t[1] = n
        /\ u[1] = m /\ u[2] = n
    BY <1>1
  <2> HIDE DEF s, t, u
  <2>2. /\ s \o t \in Seq(Nat) /\ Len(s \o t) = Len(s) + Len(t)
        /\ \A i \in 1 .. Len(s) + Len(t) :
             (s \o t)[i] = IF i <= Len(s) THEN s[i] ELSE t[i - Len(s)]
    BY <2>1, ConcatProperties
  <2>3. Len(s \o t) = 2 /\ (s \o t)[1] = m /\ (s \o t)[2] = n
    BY <2>1, <2>2
  <2>4. s \o t = u
    BY <2>1, <2>2, <2>3
  <2> QED  BY <2>4 DEF s, t, u
<1> QED  BY <1>1, <1>2

\* The product that is the number of elements of a reference to a matrix.
LEMMA SizesOfTwo ==
  ASSUME NEW r, NEW c, WellIndexed(r), WellIndexed(c)
  PROVE  /\ Sizes(IndexDims(r) \o IndexDims(c)) = Len(r.at) * Len(c.at)
         /\ Len(IndexDims(r) \o IndexDims(c)) = (IF r.scalar THEN 0 ELSE 1) + (IF c.scalar THEN 0 ELSE 1)
         /\ IndexDims(r) \o IndexDims(c) \in Seq(Nat)
<1> DEFINE t == IndexDims(r) \o IndexDims(c)
<1>0. r.scalar \in BOOLEAN /\ c.scalar \in BOOLEAN
      /\ (r.scalar => Len(r.at) = 1) /\ (c.scalar => Len(c.at) = 1)
  BY DEF WellIndexed, Index
<1>m. PICK m \in Nat : m = Len(r.at)
  BY DEF WellIndexed, Index
<1>n. PICK n \in Nat : n = Len(c.at)
  BY DEF WellIndexed, Index
<1>1. CASE r.scalar /\ c.scalar
  <2>1. t = <<>>
    BY <1>1, JoinedPairs DEF IndexDims
  <2>2. m = 1 /\ n = 1
    BY <1>0, <1>1, <1>m, <1>n
  <2> HIDE DEF t
  <2>3. Sizes(t) = m * n /\ Len(t) = 0 /\ t \in Seq(Nat)
    BY <2>1, <2>2 DEF Sizes
  <2> QED  BY <1>1, <2>3, <1>m, <1>n DEF t
<1>2. CASE r.scalar /\ ~c.scalar
  <2>1. t = <<n>>
    BY <1>2, <1>n, JoinedPairs DEF IndexDims
  <2>2. m = 1
    BY <1>0, <1>2, <1>m
  <2> HIDE DEF t
  <2>3. Sizes(t) = m * n /\ Len(t) = 1 /\ t \in Seq(Nat)
    BY <2>1, <2>2 DEF Sizes
  <2> QED  BY <1>2, <2>3, <1>m, <1>n DEF t
<1>3. CASE ~r.scalar /\ c.scalar
  <2>1. t = <<m>>
    BY <1>3, <1>m, JoinedPairs DEF IndexDims
  <2>2. n = 1
    BY <1>0, <1>3, <1>n
  <2> HIDE DEF t
  <2>3. Sizes(t) = m * n /\ Len(t) = 1 /\ t \in Seq(Nat)
    BY <2>1, <2>2 DEF Sizes
  <2> QED  BY <1>3, <2>3, <1>m, <1>n DEF t
<1>4. CASE ~r.scalar /\ ~c.scalar
  <2>1. t = <<m, n>>
    BY <1>4, <1>m, <1>n, JoinedPairs DEF IndexDims
  <2> HIDE DEF t
  <2>2. Len(t) = 2 /\ t \in Seq(Nat) /\ t[1] = m /\ t[2] = n /\ t # <<>>
    BY <2>1
  <2>3. Sizes(t) = m * n
    BY <2>2 DEF Sizes
  <2> QED  BY <1>4, <2>2, <2>3, <1>m, <1>n DEF t
<1> QED  BY <1>0, <1>1, <1>2, <1>3, <1>4

\* The one of a vector.
LEMMA SizesOfOne ==
  ASSUME NEW w, WellIndexed(w)
  PROVE  Sizes(IndexDims(w)) = Len(w.at) /\ IndexDims(w) \in Seq(Nat) /\ Len(IndexDims(w)) <= 1
BY DEF WellIndexed, Index, IndexDims, Sizes

\* The elements of the references are those reached by their indices.
LEMMA ElementsReached ==
  ASSUME NEW v \in Variables, NEW elements, Stands(v, block[v.self], elements),
         v.kind \in {"1d", "2d"}, block[v.self].dims \in Seq(Nat)
  PROVE  Elements(v) = Reached(v, block[v.self])
<1> DEFINE d == block[v.self]
           len == Len(d.data)
           R == v.rows.at
           C == v.cols.at
<1>0. R \in Seq(Int) /\ C \in Seq(Int)
  BY DEF Variables, Index
<1>1. CASE v.kind = "1d"
  <2>1. Sizes(v.dims) = Len(R) /\ Len(R) \in Nat
    BY <1>0, <1>1, SizesOfOne DEF Stands
  <2>2. \A i \in 1 .. Len(R) : Element(v, Data(v), i - 1) = Checked(R[i] - 1, len)
    <3>1. \A i \in 1 .. Len(R) : i - 1 + 1 = i
      BY <2>1
    <3> QED  BY <1>1, <3>1 DEF Element, Data
  <2> QED  BY <1>1, <2>1, <2>2 DEF Elements, Reached, Line
<1>2. CASE v.kind = "2d"
  <2>0. WellIndexed(v.rows) /\ WellIndexed(v.cols) /\ v.dims = IndexDims(v.rows) \o IndexDims(v.cols)
    BY <1>2 DEF Stands
  <2>1. Sizes(v.dims) = Len(R) * Len(C)
    BY <2>0, SizesOfTwo
  <2>2. PICK m \in Nat : m = Len(R)
    BY <1>0
  <2>3. PICK n \in Nat : n = Len(C)
    BY <1>0
  <2>4. ASSUME NEW i \in 1 .. m * n
        PROVE  Element(v, Data(v), i - 1)
                 = Place(R[(i - 1) \div n + 1], C[((i - 1) % n) + 1], d.dims[2], len)
    <3>1. m * n \in Nat
      OBVIOUS
    <3>2. i - 1 \in Nat /\ i - 1 < m * n
      BY <3>1
    <3>3. (i - 1) \div n \in 0 .. m - 1
      BY ONLY <3>2, m \in Nat, n \in Nat, RowAndColumn
    <3>4. ~((i - 1) \div n >= m)
      BY <3>3
    <3> QED  BY <1>2, <2>2, <2>3, <3>4 DEF Element, Data, Place
  <2> HIDE DEF R, C, len, d
  <2>5. [i \in 1 .. m * n |-> Element(v, Data(v), i - 1)] = Grid(R, C, d.dims[2], len)
    BY <2>2, <2>3, <2>4 DEF Grid
  <2>6. Elements(v) = Grid(R, C, d.dims[2], len)
    BY <2>1, <2>2, <2>3, <2>5 DEF Elements
  <2> QED  BY <1>2, <2>6 DEF Reached, R, C, len, d
<1> QED  BY <1>1, <1>2

(***************************************************************************)
(* Writing through a reference goes element by element.                    *)
(***************************************************************************)
\* Induction on the numbers up to m, for a set of them.
LEMMA IntervalInduction ==
  ASSUME NEW m \in Nat, NEW T, 0 \in T, \A k \in 0 .. m - 1 : k \in T => k + 1 \in T
  PROVE  0 .. m \subseteq T
<1> DEFINE Missing == (0 .. m) \ T
           R == {pair \in Nat \X Nat : pair[1] < pair[2]}
<1>1. SUFFICES ASSUME Missing # {} PROVE FALSE
  OBVIOUS
<1>2. IsWellFoundedOn(R, Nat)
  BY NatLessThanWellFounded DEF OpToRel
<1> HIDE DEF R
<1>3. PICK n \in Missing : \A k \in Missing : ~(<<k, n>> \in R)
  <2>1. Missing \subseteq Nat
    OBVIOUS
  <2> HIDE DEF Missing
  <2> QED  BY <1>1, <1>2, <2>1, WFMin
<1>4. \A k \in Missing : ~(k < n)
  <2>1. \A x, y \in Nat : x < y => <<x, y>> \in R
    BY DEF R
  <2>2. n \in Nat /\ \A k \in Missing : k \in Nat
    OBVIOUS
  <2> QED  BY <1>3, <2>1, <2>2
<1>5. n # 0
  OBVIOUS
<1>6. n - 1 \in 0 .. m - 1 /\ n - 1 \in T /\ n - 1 + 1 = n
  BY <1>4, <1>5
<1> QED  BY <1>6

\* Written is the last of a chain of data, one for each element.
LEMMA WrittenUnfolds ==
  ASSUME NEW v, NEW values, Len(values) \in Nat
  PROVE  \E f : /\ f[0] = Data(v)
                /\ \A n \in 1 .. Len(values) : f[n] = WrittenAt(v, f[n - 1], n, values[n])
                /\ Written(v, values) = f[Len(values)]
<1> DEFINE m == Len(values)
           Step(f, k) == [n \in 0 .. k |->
                            IF n = 0 THEN Data(v) ELSE WrittenAt(v, f[n - 1], n, values[n])]
           T == {k \in 0 .. m : \E f : f = Step(f, k)}
           written == CHOOSE f : f = Step(f, m)
<1>0. m \in Nat
  OBVIOUS
<1> HIDE DEF m
<1>1. 0 \in T
  <2>1. \E f : f = Step(f, 0)
    <3>1. [n \in 0 .. 0 |-> Data(v)] = Step([n \in 0 .. 0 |-> Data(v)], 0)
      OBVIOUS
    <3> QED  BY <3>1
  <2>2. 0 \in 0 .. m
    BY <1>0
  <2> HIDE DEF Step
  <2> QED  BY <2>1, <2>2
<1>2. ASSUME NEW k \in 0 .. m - 1, k \in T PROVE k + 1 \in T
  <2>0. k \in Nat
    BY <1>0
  <2>1. PICK f : f = Step(f, k)
    BY <1>2
  <2> DEFINE g == [n \in 0 .. k + 1 |->
                     IF n = k + 1 THEN WrittenAt(v, f[k], k + 1, values[k + 1]) ELSE f[n]]
  <2>2. ASSUME NEW n \in 0 .. k + 1
        PROVE  g[n] = IF n = 0 THEN Data(v) ELSE WrittenAt(v, g[n - 1], n, values[n])
    <3>1. CASE n = k + 1
      <4>1. n # 0 /\ n - 1 = k /\ k \in 0 .. k + 1 /\ k # k + 1
        BY <2>0, <3>1
      <4>2. g[n] = WrittenAt(v, f[k], k + 1, values[k + 1]) /\ g[k] = f[k]
        BY <3>1, <4>1
      <4> HIDE DEF g
      <4> QED  BY <3>1, <4>1, <4>2
    <3>2. CASE n # k + 1
      <4>1. n \in 0 .. k /\ (n # 0 => n - 1 \in 0 .. k)
        BY <2>0, <3>2
      <4>2. f[n] = IF n = 0 THEN Data(v) ELSE WrittenAt(v, f[n - 1], n, values[n])
        BY <2>1, <4>1
      <4>3. g[n] = f[n] /\ (n # 0 => g[n - 1] = f[n - 1])
        BY <2>0, <3>2, <4>1
      <4> HIDE DEF g
      <4> QED  BY <4>2, <4>3
    <3> QED  BY <3>1, <3>2
  <2>3. g = Step(g, k + 1)
    BY <2>2
  <2>4. k + 1 \in 0 .. m
    BY <1>0
  <2> QED  BY <2>3, <2>4
<1>3. m \in T
  <2> HIDE DEF T
  <2>1. 0 .. m \subseteq T
    BY <1>0, <1>1, <1>2, IntervalInduction
  <2> QED  BY <1>0, <2>1
<1>4. written = Step(written, m)
  BY <1>3
<1>5. Written(v, values) = written[m]
  BY DEF Written, m
<1> HIDE DEF written
<1>6. /\ written[0] = Data(v)
      /\ \A n \in 1 .. m : written[n] = WrittenAt(v, written[n - 1], n, values[n])
  BY <1>0, <1>4
<1> QED  BY <1>5, <1>6 DEF m

\* An element of a reference is one of the data or Nowhere.
LEMMA ElementType ==
  ASSUME NEW v, v.kind \in {"self", "1d", "2d"}, NEW data, NEW len \in Nat, Len(data) = len, NEW i
  PROVE  Element(v, data, i) = Nowhere \/ Element(v, data, i) \in 0 .. len - 1
BY DEF Element, Checked

\* What is written has the length it had, and where it differs from the data an
\* element of the reference was written, as the data was at that time.
LEMMA WrittenEffect ==
  ASSUME NEW v, v.kind \in {"self", "1d", "2d"}, Data(v) \in Seq(Int), NEW values \in Seq(Int),
         Written(v, values) # <<>>
  PROVE  /\ Written(v, values) \in Seq(Int) /\ Len(Written(v, values)) = Len(Data(v))
         /\ \A j \in 1 .. Len(Data(v)) : Written(v, values)[j] # Data(v)[j] =>
              \E n \in 1 .. Len(values), data \in Seq(Int) :
                Len(data) = Len(Data(v)) /\ Element(v, data, n - 1) = j - 1
<1>1. PICK f : /\ f[0] = Data(v)
               /\ \A n \in 1 .. Len(values) : f[n] = WrittenAt(v, f[n - 1], n, values[n])
               /\ Written(v, values) = f[Len(values)]
  BY WrittenUnfolds
<1>m. PICK m \in Nat : m = Len(values)
  OBVIOUS
<1>l. PICK l \in Nat : l = Len(Data(v))
  OBVIOUS
<1> DEFINE Meant(j) == \E n \in 1 .. m, data \in Seq(Int) : Len(data) = l /\ Element(v, data, n - 1) = j - 1
           So(d) == /\ d \in Seq(Int) /\ Len(d) = l
                    /\ \A j \in 1 .. l : d[j] # Data(v)[j] => Meant(j)
           T == {k \in 0 .. m : f[k] = <<>> \/ So(f[k])}
<1> HIDE DEF Meant
<1>2. 0 \in T
  BY <1>1, <1>l
<1>3. ASSUME NEW k \in 0 .. m - 1, k \in T PROVE k + 1 \in T
  <2>0. k + 1 \in 1 .. m /\ k + 1 \in 0 .. m /\ k + 1 - 1 = k /\ k \in Nat
    BY <1>3
  <2>1. f[k + 1] = WrittenAt(v, f[k], k + 1, values[k + 1])
    BY <1>1, <1>m, <2>0
  <2>2. CASE f[k + 1] = <<>>
    BY <2>0, <2>2
  <2>3. CASE f[k + 1] # <<>>
    <3> DEFINE d == f[k]
               e == Element(v, d, k)
               x == values[k + 1]
    <3>1. d # <<>> /\ e # Nowhere /\ f[k + 1] = [d EXCEPT ![e + 1] = x]
      BY <2>0, <2>1, <2>3 DEF WrittenAt
    <3>2. So(d)
      BY <1>3, <3>1
    <3> HIDE DEF d
    <3>3. e \in 0 .. l - 1
      BY <3>1, <3>2, ElementType
    <3>4. x \in Int
      BY <1>m, <2>0
    <3> HIDE DEF x
    <3>5. Meant(e + 1)
      <4>1. PICK n \in 1 .. m : n = k + 1
        BY <2>0
      <4>2. Element(v, d, n - 1) = (e + 1) - 1 /\ d \in Seq(Int) /\ Len(d) = l
        BY <2>0, <3>2, <3>3, <4>1
      <4> HIDE DEF e
      <4> QED  BY <4>2 DEF Meant
    <3> HIDE DEF e
    <3>6. PICK g \in Seq(Int) : g = [d EXCEPT ![e + 1] = x]
      <4> DEFINE c == [d EXCEPT ![e + 1] = x]
      <4>1. d \in [1 .. l -> Int] /\ e + 1 \in 1 .. l
        BY <3>2, <3>3
      <4>2. c \in [1 .. l -> Int]
        BY <3>4, <4>1
      <4> HIDE DEF c
      <4>3. c \in Seq(Int)
        BY <4>2
      <4> QED  BY <4>3 DEF c
    <3>7. Len(g) = l /\ \A j \in 1 .. l : g[j] = IF j = e + 1 THEN x ELSE d[j]
      BY <3>2, <3>3, <3>6
    <3>8. So(g)
      BY <3>2, <3>5, <3>7
    <3> QED  BY <2>0, <3>1, <3>6, <3>8
  <2> QED  BY <2>2, <2>3
<1>4. m \in T
  <2> HIDE DEF T
  <2>1. 0 .. m \subseteq T
    BY <1>2, <1>3, IntervalInduction
  <2> QED  BY <2>1
<1> QED  BY <1>1, <1>4, <1>m, <1>l DEF Meant

(***************************************************************************)
(* What is bound to a variable.                                            *)
(***************************************************************************)
\* The number of elements is a number.
LEMMA SizesType ==
  ASSUME NEW dims \in Seq(Nat), Len(dims) <= 2
  PROVE  /\ Sizes(dims) \in Nat
         /\ Len(dims) = 1 => Sizes(dims) = dims[1]
         /\ Len(dims) = 2 => Sizes(dims) = dims[1] * dims[2]
<1>1. PICK n \in Nat : n = Len(dims)
  OBVIOUS
<1>2. n \in 0 .. 2 /\ (dims = <<>> <=> n = 0) /\ \A i \in 1 .. n : dims[i] \in Nat
  BY <1>1
<1>3. CASE n = 0
  BY <1>1, <1>2, <1>3 DEF Sizes
<1>4. CASE n = 1
  <2>1. PICK x \in Nat : x = dims[1]
    BY <1>2, <1>4
  <2>2. Sizes(dims) = x
    BY <1>1, <1>2, <1>4, <2>1 DEF Sizes
  <2> QED  BY <1>1, <1>4, <2>1, <2>2
<1>5. CASE n = 2
  <2>1. PICK x \in Nat, y \in Nat : x = dims[1] /\ y = dims[2]
    BY <1>2, <1>5
  <2>2. Sizes(dims) = x * y
    BY <1>1, <1>2, <1>5, <2>1 DEF Sizes
  <2> QED  BY <1>1, <1>5, <2>1, <2>2
<1>6. n = 0 \/ n = 1 \/ n = 2
  BY <1>2
<1> QED  BY <1>3, <1>4, <1>5, <1>6

\* What a reference stands for does not depend on the elements of the data.
LEMMA StandsAlike ==
  ASSUME NEW v, NEW d, NEW e, NEW elements, Stands(v, d, elements),
         e.dims = d.dims, Len(e.data) = Len(d.data)
  PROVE  Stands(v, e, elements)
BY DEF Stands, Reached

\* A variable v is bound, and the blocks that others hold keep their sizes.
NewlyBound(s, v, heap, elements) ==
  /\ var' = [var EXCEPT ![s] = v] /\ block' = heap
  /\ denotes' = [denotes EXCEPT ![s] = elements]
  /\ status' = status /\ status = "running"
  /\ v \in Variables /\ v.root = "array" /\ elements \in Seq(Int)
  /\ v.kind # "none" <=> v.self \in Blocks
  /\ v.self \in Blocks => Stands(v, heap[v.self], elements)
  /\ \A b \in Blocks : heap[b].dims \in Seq(Nat) /\ heap[b].data \in Seq(Int)
  /\ \A b \in Blocks : (\E t \in Slots \ {s} : var[t].self = b) =>
       heap[b].dims = block[b].dims /\ Len(heap[b].data) = Len(block[b].data)

\* That keeps the references.
LEMMA BindingStep ==
  ASSUME References, NEW s \in Slots, NEW v, NEW heap, NEW elements,
         NewlyBound(s, v, heap, elements)
  PROVE  References'
<1> USE DEF NewlyBound
<1>1. var' \in [Slots -> Variables] /\ denotes' \in [Slots -> Seq(Int)]
  BY DEF References
<1>2. \A t \in Slots : /\ var'[t] = IF t = s THEN v ELSE var[t]
                       /\ denotes'[t] = IF t = s THEN elements ELSE denotes[t]
  BY DEF References
<1>3. \A b \in Blocks : block'[b].dims \in Seq(Nat) /\ block'[b].data \in Seq(Int)
  OBVIOUS
<1>4. status' = "running" /\ \A t \in Slots : var'[t].root = "array"
  <2>1. \A t \in Slots : var[t].root = "array"
    BY DEF References
  <2> QED  BY <1>2, <2>1
<1>5. ASSUME NEW t \in Slots
      PROVE  /\ var'[t].kind # "none" /\ var'[t].root = "array" <=> var'[t].self \in Blocks
             /\ var'[t].self \in Blocks => Stands(var'[t], block'[var'[t].self], denotes'[t])
  <2>1. CASE t = s
    BY <1>2, <1>4, <2>1
  <2>2. CASE t # s
    <3>1. var'[t] = var[t] /\ denotes'[t] = denotes[t]
      BY <1>2, <2>2
    <3>2. var[t].kind # "none" /\ var[t].root = "array" <=> var[t].self \in Blocks
      BY DEF References
    <3>3. ASSUME var[t].self \in Blocks
          PROVE  Stands(var[t], block'[var[t].self], denotes[t])
      <4> DEFINE b == var[t].self
      <4>1. Stands(var[t], block[b], denotes[t])
        BY <3>3 DEF References
      <4>2. block'[b].dims = block[b].dims /\ Len(block'[b].data) = Len(block[b].data)
        BY <2>2, <3>3
      <4> HIDE DEF b
      <4>3. Stands(var[t], block'[b], denotes[t])
        BY ONLY <4>1, <4>2, StandsAlike
      <4> QED  BY <4>3 DEF b
    <3> QED  BY <3>1, <3>2, <3>3
  <2> QED  BY <2>1, <2>2
<1> QED  BY <1>1, <1>3, <1>4, <1>5 DEF References

\* Nothing holds a free block.
LEMMA FreshIsFree ==
  ASSUME IInv, NEW b \in Fresh
  PROVE  b \in Blocks /\ block[b].refCount = 0 /\ \A t \in Slots : var[t].self # b
<1>1. b \in Blocks /\ block[b].refCount = 0
  BY DEF Fresh
<1>2. Holders(b) = {}
  BY <1>1, HoldersAreCounted DEF IInv
<1> QED  BY <1>1, <1>2 DEF Holders

\* An array of any dimensions and data that fit them is kept.
LEMMA InitArrayKeeps ==
  ASSUME RInv, NEW s \in Slots, NEW dims \in Seq(Nat), Len(dims) <= 2,
         NEW data \in Seq(Int), Len(data) = Sizes(dims), InitArray(s, dims, data)
  PROVE  References'
<1>1. PICK b0 \in Fresh :
        Initialise(s, Variable("array", dims, b0, NoIndex, NoIndex),
                   NewBlock(block, b0, dims, data), <<>>)
  BY DEF InitArray
<1> DEFINE v == Variable("array", dims, b0, NoIndex, NoIndex)
           heap == NewBlock(block, b0, dims, data)
<1>2. b0 \in Blocks /\ \A t \in Slots : var[t].self # b0
  BY FreshIsFree DEF RInv
<1>3. /\ v \in Variables /\ v.root = "array" /\ v.kind = "array" /\ v.self = b0 /\ v.dims = dims
      /\ <<>> \in Seq(Int)
  BY <1>2 DEF Variable, Variables, NoIndex, Index
<1>4. \A b \in Blocks : heap[b] = IF b = b0 THEN [dims |-> dims, data |-> data, refCount |-> 1]
                                  ELSE block[b]
  BY DEF NewBlock, RInv, IInv, Shape
<1>5. var' = [var EXCEPT ![s] = v] /\ block' = heap /\ denotes' = [denotes EXCEPT ![s] = <<>>]
      /\ status' = status /\ status = "running"
  BY <1>1 DEF Initialise, InitArray, Running
<1> DEFINE new == [dims |-> dims, data |-> data, refCount |-> 1]
<1>6. /\ \A b \in Blocks : heap[b].dims \in Seq(Nat) /\ heap[b].data \in Seq(Int)
      /\ \A b \in Blocks : (\E t \in Slots \ {s} : var[t].self = b) =>
           heap[b].dims = block[b].dims /\ Len(heap[b].data) = Len(block[b].data)
  <2>1. new.dims = dims /\ new.data = data /\ \A b \in Blocks : heap[b] = IF b = b0 THEN new ELSE block[b]
    BY <1>4
  <2>2. \A b \in Blocks : block[b].dims \in Seq(Nat) /\ block[b].data \in Seq(Int)
    BY DEF RInv, References
  <2> HIDE DEF heap, new
  <2> QED  BY <1>2, <2>1, <2>2
<1>7. Stands(v, heap[v.self], <<>>)
  <2>1. heap[b0].dims = dims /\ heap[b0].data = data
    BY <1>2, <1>4
  <2> HIDE DEF v, heap
  <2> QED  BY <1>3, <2>1 DEF Stands
<1> HIDE DEF v, heap
<1>8. NewlyBound(s, v, heap, <<>>)
  BY <1>2, <1>3, <1>5, <1>6, <1>7 DEF NewlyBound
<1> QED  BY <1>8, BindingStep DEF RInv

\* A destroyed variable holds nothing.
LEMMA DestructKeeps ==
  ASSUME RInv, NEW s \in Slots, Destruct(s)
  PROVE  References'
<1> DEFINE heap == Destructed(block, var[s].self)
<1>1. /\ NoVariable \in Variables /\ NoVariable.root = "array" /\ NoVariable.kind = "none"
      /\ NoVariable.self = NoBlock /\ <<>> \in Seq(Int) /\ NoBlock \notin Blocks
  BY NoBlockAssumption DEF NoVariable, Variable, Variables, NoIndex, Index
<1>2. \A b \in Blocks : heap[b].dims = block[b].dims /\ heap[b].data = block[b].data
  <2>1. \A b \in Blocks : heap[b] = block[b] \/ heap[b] = [block[b] EXCEPT !.refCount = @ - 1]
    BY DEF Destructed, RInv, IInv, Shape
  <2> QED  BY <2>1 DEF RInv, IInv, Shape, IsBlock
<1>3. /\ var' = [var EXCEPT ![s] = NoVariable] /\ block' = heap
      /\ denotes' = [denotes EXCEPT ![s] = <<>>] /\ status' = status /\ status = "running"
  BY DEF Destruct, Initialise
<1> HIDE DEF heap
<1>4. NewlyBound(s, NoVariable, heap, <<>>)
  BY <1>1, <1>2, <1>3 DEF NewlyBound, RInv, References
<1> QED  BY <1>4, BindingStep DEF RInv

\* A new reference that stands for what it should is kept.
LEMMA NewReferenceKeeps ==
  ASSUME RInv, NEW s \in Slots, Running(s), NEW kind \in {"self", "1d", "2d"}, NEW dims \in Seq(Nat),
         NEW self \in Blocks, NEW rows \in Index, NEW cols \in Index, NEW elements \in Seq(Int),
         Stands(Variable(kind, dims, self, rows, cols), block[self], elements),
         NewReference(s, kind, dims, self, rows, cols, elements)
  PROVE  References'
<1> DEFINE v == Variable(kind, dims, self, rows, cols)
           heap == CopyByRef(block, self)
<1>1. v \in Variables /\ v.root = "array" /\ v.kind = kind /\ v.self = self
  BY DEF Variable, Variables
<1>2. \A b \in Blocks : heap[b].dims = block[b].dims /\ heap[b].data = block[b].data
  <2>1. \A b \in Blocks : heap[b] = block[b] \/ heap[b] = [block[b] EXCEPT !.refCount = @ + 1]
    BY DEF CopyByRef, RInv, IInv, Shape
  <2> QED  BY <2>1 DEF RInv, IInv, Shape, IsBlock
<1>3. /\ var' = [var EXCEPT ![s] = v] /\ block' = heap
      /\ denotes' = [denotes EXCEPT ![s] = elements] /\ status' = status /\ status = "running"
  BY DEF NewReference, Initialise, Running
<1> HIDE DEF v, heap
<1>4. Stands(v, block[self], elements)
  BY DEF v
<1>5. Stands(v, heap[self], elements)
  BY <1>2, <1>4, StandsAlike
<1>6. NewlyBound(s, v, heap, elements)
  BY <1>1, <1>2, <1>3, <1>5 DEF NewlyBound, RInv, References
<1> QED  BY <1>6, BindingStep DEF RInv

(***************************************************************************)
(* What a variable holds, and its value.                                   *)
(***************************************************************************)
\* A variable in use holds a block, and stands for elements of it.
LEMMA HeldFacts ==
  ASSUME RInv, NEW t \in Slots, status = "running", var[t].kind # "none"
  PROVE  /\ var[t] \in Variables /\ var[t].kind \in {"array", "self", "1d", "2d"}
         /\ var[t].self \in Blocks /\ Stands(var[t], block[var[t].self], denotes[t])
         /\ block[var[t].self].dims \in Seq(Nat) /\ block[var[t].self].data \in Seq(Int)
         /\ denotes[t] \in Seq(Int)
<1>1. var[t] \in Variables /\ denotes[t] \in Seq(Int) /\ var[t].root = "array"
  BY DEF RInv, References
<1>2. var[t].kind \in {"array", "self", "1d", "2d"}
  BY <1>1 DEF Variables
<1>3. var[t].self \in Blocks
  BY <1>1 DEF RInv, References
<1>4. Stands(var[t], block[var[t].self], denotes[t])
  BY <1>3 DEF RInv, References
<1>5. block[var[t].self].dims \in Seq(Nat) /\ block[var[t].self].data \in Seq(Int)
  BY <1>3 DEF RInv, References
<1> QED  BY <1>1, <1>2, <1>3, <1>4, <1>5

\* Its dimensions are at most two.
LEMMA HeldDims ==
  ASSUME NEW v, NEW d, NEW elements, Stands(v, d, elements), d.dims \in Seq(Nat),
         v.kind \in {"array", "self", "1d", "2d"}
  PROVE  v.dims \in Seq(Nat) /\ Len(v.dims) <= 2 /\ Sizes(v.dims) \in Nat
<1>1. v.dims \in Seq(Nat) /\ Len(v.dims) <= 2
  <2>1. CASE v.kind \in {"array", "self"}
    BY <2>1 DEF Stands
  <2>2. CASE v.kind = "1d"
    BY <2>2, SizesOfOne DEF Stands
  <2>3. CASE v.kind = "2d"
    <3>1. WellIndexed(v.rows) /\ WellIndexed(v.cols)
          /\ v.dims = IndexDims(v.rows) \o IndexDims(v.cols)
      BY <2>3 DEF Stands
    <3>2. /\ v.dims \in Seq(Nat)
          /\ Len(v.dims) = (IF v.rows.scalar THEN 0 ELSE 1) + (IF v.cols.scalar THEN 0 ELSE 1)
      BY <3>1, SizesOfTwo
    <3> QED  BY <3>2
  <2> QED  BY <2>1, <2>2, <2>3
<1> QED  BY <1>1, SizesType

\* Its elements are elements of the data or Nowhere.
LEMMA HeldElement ==
  ASSUME NEW v, NEW elements, Stands(v, block[v.self], elements), block[v.self].dims \in Seq(Nat),
         v.kind \in {"array", "self", "1d", "2d"}, Data(v) \in Seq(Int), NEW i \in 1 .. Sizes(v.dims)
  PROVE  Element(v, Data(v), i - 1) = Nowhere \/ Element(v, Data(v), i - 1) \in 0 .. Len(Data(v)) - 1
<1>1. CASE v.kind = "array"
  <2>1. Element(v, Data(v), i - 1) = i - 1
    BY <1>1 DEF Element
  <2>2. PICK n \in Nat : n = Sizes(v.dims)
    BY HeldDims
  <2>3. Len(Data(v)) = n
    BY <1>1, <2>2 DEF Stands, Data
  <2> QED  BY <2>1, <2>2, <2>3
<1>2. CASE v.kind # "array"
  <2>1. PICK len \in Nat : len = Len(Data(v))
    OBVIOUS
  <2> QED  BY <1>2, <2>1, ElementType
<1> QED  BY <1>1, <1>2

\* What can be read is a number for each element.
LEMMA ValueType ==
  ASSUME NEW v, NEW elements, Stands(v, block[v.self], elements), block[v.self].dims \in Seq(Nat),
         v.kind \in {"array", "self", "1d", "2d"}, Data(v) \in Seq(Int), Readable(v)
  PROVE  Value(v) \in Seq(Int) /\ Len(Value(v)) = Sizes(v.dims)
<1>1. PICK n \in Nat : n = Sizes(v.dims)
  BY HeldDims
<1>2. DOMAIN Elements(v) = 1 .. n /\ \A i \in 1 .. n : Elements(v)[i] = Element(v, Data(v), i - 1)
  BY <1>1 DEF Elements
<1>3. PICK len \in Nat : len = Len(Data(v))
  OBVIOUS
<1>4. \A i \in 1 .. n : Elements(v)[i] \in 0 .. len - 1
  BY <1>1, <1>2, <1>3, HeldElement DEF Readable
<1>5. \A i \in 1 .. n : Data(v)[Elements(v)[i] + 1] \in Int
  BY <1>3, <1>4
<1>6. Value(v) = [i \in 1 .. n |-> Data(v)[Elements(v)[i] + 1]]
  BY <1>2 DEF Value
<1> DEFINE F(i) == Data(v)[Elements(v)[i] + 1]
<1> HIDE DEF F
<1>7. Value(v) = [i \in 1 .. n |-> F(i)] /\ \A i \in 1 .. n : F(i) \in Int
  BY <1>5, <1>6 DEF F
<1> QED  BY <1>1, <1>7

\* Promoted to the dimensions of a target, there is one for each of the target's.
LEMMA PromotedType ==
  ASSUME NEW v, NEW elements, Stands(v, block[v.self], elements), block[v.self].dims \in Seq(Nat),
         v.kind \in {"array", "self", "1d", "2d"}, Data(v) \in Seq(Int),
         NEW dims, Sizes(dims) \in Nat, Promotable(v, dims)
  PROVE  Promoted(v, dims) \in Seq(Int) /\ Len(Promoted(v, dims)) = Sizes(dims)
<1>1. Value(v) \in Seq(Int) /\ Len(Value(v)) = Sizes(v.dims)
  BY ValueType DEF Promotable
<1>2. PICK n \in Nat : n = Sizes(dims)
  OBVIOUS
<1>3. CASE v.dims = <<>>
  <2>1. PICK value \in Seq(Int) : value = Value(v)
    BY <1>1
  <2>2. Len(value) = 1
    BY <1>1, <1>3, <2>1 DEF Sizes
  <2>3. value[1] \in Int
    <3>1. 1 \in 1 .. Len(value)
      BY <2>2
    <3> QED  BY ONLY <3>1, value \in Seq(Int)
  <2>4. PICK x \in Int : x = value[1]
    BY <2>3
  <2>5. Promoted(v, dims) = [i \in 1 .. n |-> x]
    BY <1>2, <1>3, <2>1, <2>4 DEF Promoted
  <2> QED  BY <1>2, <2>5
<1>4. CASE v.dims # <<>>
  <2>1. v.dims = dims
    BY <1>4 DEF Promotable
  <2> QED  BY <1>1, <1>4, <2>1 DEF Promoted
<1> QED  BY <1>3, <1>4

\* The end of the program, and a step that does nothing.
LEMMA SameReferences ==
  ASSUME References, UNCHANGED <<var, block, denotes>>,
         status' = status \/ (status = "running" /\ status' = "stopped")
  PROVE  References'
<1>1. /\ \A b \in Blocks : block'[b].dims \in Seq(Nat) /\ block'[b].data \in Seq(Int)
      /\ var' \in [Slots -> Variables] /\ denotes' \in [Slots -> Seq(Int)]
      /\ status' \in {"running", "stopped", "undefined"}
  BY DEF References
<1>2. status' # "undefined" => \A s \in Slots : var'[s].root = "array"
  BY DEF References
<1>3. ASSUME NEW s \in Slots
      PROVE  /\ var'[s].kind # "none" /\ var'[s].root = "array" <=> var'[s].self \in Blocks
             /\ var'[s].self \in Blocks => Stands(var'[s], block'[var'[s].self], denotes'[s])
  BY DEF References
<1> QED  BY <1>1, <1>2, <1>3 DEF References

\* A copy is an array of its own.
LEMMA CopyKeeps ==
  ASSUME RInv, NEW s \in Slots, NEW t \in Slots, InitFromCopy(s, t)
  PROVE  References'
<1>1. CASE ~Readable(var[t])
  <2>1. Stop
    BY <1>1 DEF InitFromCopy
  <2> QED  BY <2>1, SameReferences DEF Stop, RInv, InitFromCopy, Running
<1>2. CASE Readable(var[t])
  <2> DEFINE v == var[t]
  <2>1. InitArray(s, v.dims, Value(v))
    BY <1>2 DEF InitFromCopy
  <2>2. /\ v.kind \in {"array", "self", "1d", "2d"} /\ Stands(v, block[v.self], denotes[t])
        /\ block[v.self].dims \in Seq(Nat) /\ block[v.self].data \in Seq(Int)
    BY HeldFacts DEF InitFromCopy, Running
  <2>3. Data(v) \in Seq(Int)
    BY <2>2 DEF Data
  <2> HIDE DEF v
  <2>4. v.dims \in Seq(Nat) /\ Len(v.dims) <= 2
    BY <2>2, HeldDims
  <2>5. Value(v) \in Seq(Int) /\ Len(Value(v)) = Sizes(v.dims)
    BY <1>2, <2>2, <2>3, ValueType DEF v
  <2> QED  BY <2>1, <2>4, <2>5, InitArrayKeeps
<1> QED  BY <1>1, <1>2

\* The array made of a temporary is left to the reference.
LEMMA TemporaryKeeps ==
  ASSUME RInv, NEW s \in Slots, NEW dims \in Seq(Nat), NEW data \in Seq(Int), Len(data) = Sizes(dims),
         NEW w, WellIndexed(w), InitFromTemporaryIndexing(s, dims, data, w)
  PROVE  References'
<1> DEFINE elements == [i \in DOMAIN w.at |-> Checked(w.at[i] - 1, Len(data))]
<1>1. PICK b0 \in Fresh :
        Initialise(s, Variable("1d", IndexDims(w), b0, w, NoIndex),
                   Destructed(CopyByRef(NewBlock(block, b0, dims, data), b0), b0), elements)
  BY DEF InitFromTemporaryIndexing
<1> DEFINE v == Variable("1d", IndexDims(w), b0, w, NoIndex)
           heap == Destructed(CopyByRef(NewBlock(block, b0, dims, data), b0), b0)
           new == [dims |-> dims, data |-> data, refCount |-> 1]
<1>2. b0 \in Blocks /\ \A t \in Slots : var[t].self # b0
  BY FreshIsFree DEF RInv
<1>3. w \in Index /\ IndexDims(w) \in Seq(Nat)
  BY SizesOfOne DEF WellIndexed
<1>4. /\ v \in Variables /\ v.root = "array" /\ v.kind = "1d" /\ v.self = b0
      /\ v.rows = w /\ v.dims = IndexDims(w)
  BY <1>2, <1>3 DEF Variable, Variables, NoIndex, Index
<1>5. \A b \in Blocks : heap[b] = IF b = b0 THEN new ELSE block[b]
  <2>1. DOMAIN block = Blocks
    BY DEF RInv, IInv, Shape
  <2> QED  BY <1>2, <2>1 DEF NewBlock, CopyByRef, Destructed
<1>6. /\ \A b \in Blocks : heap[b].dims \in Seq(Nat) /\ heap[b].data \in Seq(Int)
      /\ \A b \in Blocks : (\E t \in Slots \ {s} : var[t].self = b) =>
           heap[b].dims = block[b].dims /\ Len(heap[b].data) = Len(block[b].data)
  <2>1. new.dims = dims /\ new.data = data
    OBVIOUS
  <2>2. \A b \in Blocks : block[b].dims \in Seq(Nat) /\ block[b].data \in Seq(Int)
    BY DEF RInv, References
  <2> HIDE DEF heap, new
  <2> QED  BY <1>2, <1>5, <2>1, <2>2
<1>7. var' = [var EXCEPT ![s] = v] /\ block' = heap /\ denotes' = [denotes EXCEPT ![s] = elements]
      /\ status' = status /\ status = "running"
  BY <1>1 DEF Initialise, InitFromTemporaryIndexing, Running
<1>8. elements = Line(w.at, Len(data)) /\ elements \in Seq(Int)
  <2>1. w.at \in Seq(Int) /\ Len(data) \in Nat
    BY <1>3 DEF Index
  <2>2. elements = Line(w.at, Len(data))
    BY <2>1 DEF Line
  <2> HIDE DEF elements
  <2> QED  BY <2>1, <2>2, LineType
<1>9. Len(dims) <= 2
  BY DEF InitFromTemporaryIndexing
<1>10. Stands(v, heap[v.self], elements)
  <2>1. heap[b0].dims = dims /\ heap[b0].data = data
    BY <1>2, <1>5
  <2> HIDE DEF v, heap, elements
  <2> QED  BY <1>4, <1>8, <1>9, <2>1 DEF Stands, Reached
<1> HIDE DEF v, heap, elements
<1>11. NewlyBound(s, v, heap, elements)
  BY <1>2, <1>4, <1>6, <1>7, <1>8, <1>10 DEF NewlyBound
<1> QED  BY <1>11, BindingStep DEF RInv

(***************************************************************************)
(* Indexing.                                                               *)
(***************************************************************************)
\* An index merged with one within its bounds picks from the line of the first.
LEMMA MergedLine ==
  ASSUME NEW u \in Seq(Int), NEW w, WellIndexed(w), InBounds(u, w)
  PROVE  /\ WellIndexed(Merged(u, w)) /\ IndexDims(Merged(u, w)) = IndexDims(w)
         /\ Len(Merged(u, w).at) = Len(w.at)
         /\ \A i \in 1 .. Len(w.at) : w.at[i] \in 1 .. Len(u) /\ Merged(u, w).at[i] = u[w.at[i]]
<1>1. PICK n \in Nat : n = Len(w.at)
  BY DEF WellIndexed, Index
<1>2. DOMAIN w.at = 1 .. n /\ DOMAIN u = 1 .. Len(u)
  BY <1>1 DEF WellIndexed, Index
<1>3. \A i \in 1 .. n : w.at[i] \in 1 .. Len(u)
  BY <1>2 DEF InBounds
<1> DEFINE F(i) == u[w.at[i]]
<1>4. \A i \in 1 .. n : F(i) \in Int
  BY <1>3
<1> HIDE DEF F
<1>5. [i \in 1 .. n |-> F(i)] \in Seq(Int) /\ Len([i \in 1 .. n |-> F(i)]) = n
  BY <1>4
<1>6. Merged(u, w).at = [i \in 1 .. n |-> F(i)] /\ Merged(u, w).scalar = w.scalar
  BY <1>2 DEF Merged, F
<1>7. Merged(u, w) = [scalar |-> w.scalar, at |-> [i \in 1 .. n |-> F(i)]]
  BY <1>2 DEF Merged, F
<1>8. Merged(u, w) \in Index /\ Len(Merged(u, w).at) = n
  BY <1>5, <1>6, <1>7 DEF Index, WellIndexed
<1>9. WellIndexed(Merged(u, w)) /\ IndexDims(Merged(u, w)) = IndexDims(w)
  BY <1>1, <1>6, <1>8 DEF WellIndexed, IndexDims
<1> QED  BY <1>1, <1>3, <1>6, <1>8, <1>9 DEF F

\* What an index picks are elements or Nowhere.
LEMMA PickedType ==
  ASSUME NEW elements \in Seq(Int), NEW w, WellIndexed(w)
  PROVE  Picked(elements, w) \in Seq(Int)
<1> DEFINE F(i) == IF w.at[i] \in DOMAIN elements THEN elements[w.at[i]] ELSE Nowhere
<1>1. PICK n \in Nat : n = Len(w.at) /\ DOMAIN w.at = 1 .. n
  BY DEF WellIndexed, Index
<1>2. \A i \in 1 .. n : F(i) \in Int
  BY DEF Nowhere
<1>3. Picked(elements, w) = [i \in 1 .. n |-> F(i)]
  BY <1>1 DEF Picked
<1> HIDE DEF F
<1> QED  BY <1>2, <1>3

\* An index picks from all elements of an array what it reaches itself.
LEMMA PickedAll ==
  ASSUME NEW len \in Nat, NEW elements, elements = [i \in 1 .. len |-> i - 1], NEW w, WellIndexed(w)
  PROVE  Picked(elements, w) = Line(w.at, len)
<1>1. PICK n \in Nat : n = Len(w.at) /\ DOMAIN w.at = 1 .. n /\ \A i \in 1 .. n : w.at[i] \in Int
  BY DEF WellIndexed, Index
<1>2. ASSUME NEW i \in 1 .. n
      PROVE  (IF w.at[i] \in DOMAIN elements THEN elements[w.at[i]] ELSE Nowhere)
               = Checked(w.at[i] - 1, len)
  <2>1. PICK x \in Int : x = w.at[i]
    BY <1>1
  <2>2. x \in 1 .. len <=> x - 1 \in 0 .. len - 1
    OBVIOUS
  <2> QED  BY <2>1, <2>2 DEF Checked
<1> QED  BY <1>1, <1>2 DEF Picked, Line

\* An index picks from a line what the merged index reaches.
LEMMA PickedLine ==
  ASSUME NEW u \in Seq(Int), NEW w, WellIndexed(w), InBounds(u, w), NEW len
  PROVE  Picked(Line(u, len), w) = Line(Merged(u, w).at, len)
<1>1. PICK n \in Nat : n = Len(w.at) /\ DOMAIN w.at = 1 .. n
  BY DEF WellIndexed, Index
<1>2. /\ Len(Merged(u, w).at) = n
      /\ \A i \in 1 .. n : w.at[i] \in 1 .. Len(u) /\ Merged(u, w).at[i] = u[w.at[i]]
  BY <1>1, MergedLine
<1>3. /\ DOMAIN Line(u, len) = 1 .. Len(u)
      /\ \A i \in 1 .. n : Line(u, len)[w.at[i]] = Checked(u[w.at[i]] - 1, len)
  BY <1>2 DEF Line
<1> QED  BY <1>1, <1>2, <1>3 DEF Picked, Line

\* The same of a column of a matrix, whose rows are indexed, and of a row.
LEMMA PickedColumn ==
  ASSUME NEW u \in Seq(Int), NEW w, WellIndexed(w), InBounds(u, w),
         NEW c \in Seq(Int), Len(c) = 1, NEW nCol, NEW len
  PROVE  Picked(Grid(u, c, nCol, len), w) = Grid(Merged(u, w).at, c, nCol, len)
<1>1. PICK n \in Nat : n = Len(w.at) /\ DOMAIN w.at = 1 .. n
  BY DEF WellIndexed, Index
<1>2. /\ Len(Merged(u, w).at) = n /\ Merged(u, w).at \in Seq(Int)
      /\ \A i \in 1 .. n : w.at[i] \in 1 .. Len(u) /\ Merged(u, w).at[i] = u[w.at[i]]
  BY <1>1, MergedLine DEF WellIndexed, Index
<1> DEFINE elements == Grid(u, c, nCol, len)
           R == Merged(u, w).at
           P(x) == Place(x, c[1], nCol, len)
<1>3. elements = [i \in 1 .. Len(u) |-> P(u[i])]
  BY GridColumn
<1>4. Grid(R, c, nCol, len) = [i \in 1 .. n |-> P(R[i])]
  <2>1. R \in Seq(Int) /\ Len(R) = n
    BY <1>2
  <2>2. PICK x \in Seq(Int) : x = R
    BY <2>1
  <2>3. Grid(x, c, nCol, len) = [i \in 1 .. Len(x) |-> P(x[i])]
    BY ONLY c \in Seq(Int), Len(c) = 1, x \in Seq(Int), GridColumn
  <2> HIDE DEF P, R
  <2> QED  BY <2>1, <2>2, <2>3
<1> HIDE DEF P, elements, R
<1>5. DOMAIN elements = 1 .. Len(u) /\ \A i \in 1 .. n : elements[w.at[i]] = P(R[i])
  BY <1>2, <1>3 DEF R
<1>6. Picked(elements, w) = [i \in 1 .. n |-> P(R[i])]
  BY <1>1, <1>2, <1>5 DEF Picked
<1> QED  BY <1>4, <1>6 DEF elements, R

LEMMA PickedRow ==
  ASSUME NEW u \in Seq(Int), NEW w, WellIndexed(w), InBounds(u, w),
         NEW r \in Seq(Int), Len(r) = 1, NEW nCol, NEW len
  PROVE  Picked(Grid(r, u, nCol, len), w) = Grid(r, Merged(u, w).at, nCol, len)
<1>1. PICK n \in Nat : n = Len(w.at) /\ DOMAIN w.at = 1 .. n
  BY DEF WellIndexed, Index
<1>2. /\ Len(Merged(u, w).at) = n /\ Merged(u, w).at \in Seq(Int)
      /\ \A i \in 1 .. n : w.at[i] \in 1 .. Len(u) /\ Merged(u, w).at[i] = u[w.at[i]]
  BY <1>1, MergedLine DEF WellIndexed, Index
<1> DEFINE elements == Grid(r, u, nCol, len)
           C == Merged(u, w).at
           P(x) == Place(r[1], x, nCol, len)
<1>3. elements = [i \in 1 .. Len(u) |-> P(u[i])]
  BY GridRow
<1>4. Grid(r, C, nCol, len) = [i \in 1 .. n |-> P(C[i])]
  <2>1. C \in Seq(Int) /\ Len(C) = n
    BY <1>2
  <2>2. PICK x \in Seq(Int) : x = C
    BY <2>1
  <2>3. Grid(r, x, nCol, len) = [i \in 1 .. Len(x) |-> P(x[i])]
    BY ONLY r \in Seq(Int), Len(r) = 1, x \in Seq(Int), GridRow
  <2> HIDE DEF P, C
  <2> QED  BY <2>1, <2>2, <2>3
<1> HIDE DEF P, elements, C
<1>5. DOMAIN elements = 1 .. Len(u) /\ \A i \in 1 .. n : elements[w.at[i]] = P(C[i])
  BY <1>2, <1>3 DEF C
<1>6. Picked(elements, w) = [i \in 1 .. n |-> P(C[i])]
  BY <1>1, <1>2, <1>5 DEF Picked
<1> QED  BY <1>4, <1>6 DEF elements, C

\* The elements of an array, and of an array indexed by itself.
LEMMA ElementsOfArray ==
  ASSUME NEW v, v.kind \in {"array", "self"}, Len(Data(v)) = Sizes(v.dims),
         NEW len \in Nat, len = Len(Data(v))
  PROVE  /\ v.kind = "array" => Elements(v) = [i \in 1 .. len |-> i - 1]
         /\ v.kind = "self" => Elements(v) = Line(Data(v), len)
<1>1. \A i \in 1 .. len : /\ v.kind = "array" => Element(v, Data(v), i - 1) = i - 1
                          /\ v.kind = "self" => Element(v, Data(v), i - 1) = Checked(Data(v)[i] - 1, len)
  <2>1. \A i \in 1 .. len : i - 1 + 1 = i
    OBVIOUS
  <2> QED  BY <2>1 DEF Element
<1> QED  BY <1>1 DEF Elements, Line

\* Indexing by a vector: a reference to an array, ...
LEMMA IndexArrayKeeps ==
  ASSUME RInv, NEW s \in Slots, NEW t \in Slots, NEW w, WellIndexed(w), Running(s),
         var[t].kind = "array", Len(var[t].dims) = 1,
         NewReference(s, "1d", IndexDims(w), var[t].self, w, NoIndex, Picked(Denoted(t), w))
  PROVE  References'
<1> DEFINE a == var[t]
           d == block[a.self]
           elements == Picked(Denoted(t), w)
           v == Variable("1d", IndexDims(w), a.self, w, NoIndex)
<1>1. /\ a \in Variables /\ a.self \in Blocks /\ Stands(a, d, denotes[t])
      /\ d.dims \in Seq(Nat) /\ d.data \in Seq(Int)
  BY HeldFacts DEF Running
<1>2. PICK len \in Nat : len = Len(d.data)
  BY <1>1
<1>3. Denoted(t) = [i \in 1 .. len |-> i - 1]
  <2>1. Len(Data(a)) = Sizes(a.dims) /\ len = Len(Data(a))
    BY <1>1, <1>2 DEF Stands, Data
  <2>2. Elements(a) = [i \in 1 .. len |-> i - 1]
    BY <2>1, ElementsOfArray
  <2> QED  BY <2>2 DEF Denoted
<1>4. elements = Line(w.at, len)
  BY <1>3, PickedAll
<1>5. elements \in Seq(Int)
  BY <1>2, <1>4, LineType DEF WellIndexed, Index
<1>6. /\ v.kind = "1d" /\ v.rows = w /\ v.dims = IndexDims(w)
      /\ w \in Index /\ NoIndex \in Index /\ IndexDims(w) \in Seq(Nat)
  BY SizesOfOne DEF Variable, NoIndex, Index, WellIndexed
<1> HIDE DEF elements, v, d
<1>7. Stands(v, d, elements)
  BY <1>1, <1>2, <1>4, <1>6 DEF Stands, Reached
<1> QED  BY <1>1, <1>5, <1>6, <1>7, NewReferenceKeeps DEF elements, v, d

\* ... to an array indexed by itself, ...
LEMMA IndexSelfKeeps ==
  ASSUME RInv, NEW s \in Slots, NEW t \in Slots, NEW w, WellIndexed(w), Running(s),
         var[t].kind = "self", Len(var[t].dims) = 1, InBounds(Data(var[t]), w),
         NewReference(s, "1d", IndexDims(w), var[t].self, Merged(Data(var[t]), w), NoIndex,
                      Picked(Denoted(t), w))
  PROVE  References'
<1> DEFINE a == var[t]
           d == block[a.self]
           m == Merged(Data(a), w)
           elements == Picked(Denoted(t), w)
           v == Variable("1d", IndexDims(w), a.self, m, NoIndex)
<1>1. /\ a \in Variables /\ a.self \in Blocks /\ Stands(a, d, denotes[t])
      /\ d.dims \in Seq(Nat) /\ d.data \in Seq(Int)
  BY HeldFacts DEF Running
<1>2. PICK len \in Nat : len = Len(d.data)
  BY <1>1
<1>3. Denoted(t) = Line(d.data, len)
  <2>1. Len(Data(a)) = Sizes(a.dims) /\ len = Len(Data(a))
    BY <1>1, <1>2 DEF Stands, Data
  <2>2. Elements(a) = Line(Data(a), len)
    BY <2>1, ElementsOfArray
  <2> QED  BY <2>2 DEF Denoted, Data
<1>4. InBounds(d.data, w) /\ m = Merged(d.data, w)
  BY DEF Data
<1> HIDE DEF d, m
<1>5. elements = Line(m.at, len)
  BY <1>1, <1>3, <1>4, PickedLine
<1>6. WellIndexed(m) /\ IndexDims(m) = IndexDims(w)
  BY <1>1, <1>4, MergedLine
<1>7. elements \in Seq(Int)
  BY <1>2, <1>5, <1>6, LineType DEF WellIndexed, Index
<1>8. /\ v.kind = "1d" /\ v.rows = m /\ v.dims = IndexDims(w)
      /\ m \in Index /\ NoIndex \in Index /\ IndexDims(w) \in Seq(Nat)
  BY <1>6, SizesOfOne DEF Variable, NoIndex, Index, WellIndexed
<1> HIDE DEF elements, v
<1>9. Stands(v, d, elements)
  BY <1>1, <1>2, <1>5, <1>6, <1>8 DEF Stands, Reached
<1> QED  BY <1>1, <1>7, <1>8, <1>9, NewReferenceKeeps DEF elements, v, d, m

\* ... to a reference with one index, ...
LEMMA IndexVectorKeeps ==
  ASSUME RInv, NEW s \in Slots, NEW t \in Slots, NEW w, WellIndexed(w), Running(s),
         var[t].kind = "1d", InBounds(var[t].rows.at, w),
         NewReference(s, "1d", IndexDims(w), var[t].self, Merged(var[t].rows.at, w), NoIndex,
                      Picked(Denoted(t), w))
  PROVE  References'
<1> DEFINE a == var[t]
           d == block[a.self]
           u == a.rows.at
           m == Merged(u, w)
           elements == Picked(Denoted(t), w)
           v == Variable("1d", IndexDims(w), a.self, m, NoIndex)
<1>1. /\ a \in Variables /\ a.self \in Blocks /\ Stands(a, d, denotes[t])
      /\ d.dims \in Seq(Nat) /\ d.data \in Seq(Int)
  BY HeldFacts DEF Running
<1>2. PICK len \in Nat : len = Len(d.data)
  BY <1>1
<1>3. Denoted(t) = Line(u, len) /\ u \in Seq(Int)
  BY <1>1, <1>2 DEF Denoted, Stands, Reached, WellIndexed, Index
<1> HIDE DEF d, u
<1>4. elements = Line(m.at, len)
  BY <1>3, PickedLine DEF u
<1>5. WellIndexed(m) /\ IndexDims(m) = IndexDims(w)
  BY <1>3, MergedLine DEF u
<1> HIDE DEF m
<1>6. elements \in Seq(Int)
  BY <1>2, <1>4, <1>5, LineType DEF WellIndexed, Index
<1>7. /\ v.kind = "1d" /\ v.rows = m /\ v.dims = IndexDims(w)
      /\ m \in Index /\ NoIndex \in Index /\ IndexDims(w) \in Seq(Nat)
  BY <1>5, SizesOfOne DEF Variable, NoIndex, Index, WellIndexed
<1> HIDE DEF elements, v
<1>8. Stands(v, d, elements)
  BY <1>1, <1>2, <1>4, <1>5, <1>7 DEF Stands, Reached
<1> QED  BY <1>1, <1>6, <1>7, <1>8, NewReferenceKeeps DEF elements, v, d, m, u

\* A reference with two indices of which one is a vector.
LEMMA HeldLine ==
  ASSUME NEW a, NEW d, NEW elements, Stands(a, d, elements), a.kind = "2d", Len(a.dims) = 1
  PROVE  /\ WellIndexed(a.rows) /\ WellIndexed(a.cols)
         /\ a.rows.scalar => IndexDims(a.rows) = <<>> /\ Len(a.rows.at) = 1
         /\ ~a.rows.scalar => IndexDims(a.cols) = <<>> /\ Len(a.cols.at) = 1
<1>1. /\ WellIndexed(a.rows) /\ WellIndexed(a.cols)
      /\ a.dims = IndexDims(a.rows) \o IndexDims(a.cols)
  BY DEF Stands
<1>2. 1 = (IF a.rows.scalar THEN 0 ELSE 1) + (IF a.cols.scalar THEN 0 ELSE 1)
  BY <1>1, SizesOfTwo
<1>3. a.rows.scalar \in BOOLEAN /\ a.cols.scalar \in BOOLEAN
  BY <1>1 DEF WellIndexed, Index
<1>4. ~a.rows.scalar => a.cols.scalar
  BY <1>2, <1>3
<1> QED  BY <1>1, <1>4 DEF WellIndexed, IndexDims

\* An index joined with none.
LEMMA JoinedWithNone ==
  ASSUME NEW w, WellIndexed(w)
  PROVE  IndexDims(w) \o <<>> = IndexDims(w) /\ <<>> \o IndexDims(w) = IndexDims(w)
<1>1. PICK n \in Nat : n = Len(w.at)
  BY DEF WellIndexed, Index
<1>2. IndexDims(w) = <<>> \/ IndexDims(w) = <<n>>
  BY <1>1 DEF IndexDims
<1> QED  BY <1>2, JoinedPairs

\* ... to a column of a matrix, ...
LEMMA IndexColumnKeeps ==
  ASSUME RInv, NEW s \in Slots, NEW t \in Slots, NEW w, WellIndexed(w), Running(s),
         var[t].kind = "2d", Len(var[t].dims) = 1, ~var[t].rows.scalar,
         InBounds(var[t].rows.at, w),
         NewReference(s, "2d", IndexDims(w), var[t].self, Merged(var[t].rows.at, w), var[t].cols,
                      Picked(Denoted(t), w))
  PROVE  References'
<1> DEFINE a == var[t]
           d == block[a.self]
           u == a.rows.at
           c == a.cols
           m == Merged(u, w)
           elements == Picked(Denoted(t), w)
           v == Variable("2d", IndexDims(w), a.self, m, c)
<1>1. /\ a \in Variables /\ a.self \in Blocks /\ Stands(a, d, denotes[t])
      /\ d.dims \in Seq(Nat) /\ d.data \in Seq(Int)
  BY HeldFacts DEF Running
<1>2. PICK len \in Nat : len = Len(d.data)
  BY <1>1
<1>3. /\ WellIndexed(a.rows) /\ WellIndexed(c)
      /\ IndexDims(c) = <<>> /\ Len(c.at) = 1
  BY <1>1, HeldLine
<1>4. PICK nCol : nCol = d.dims[2]
  OBVIOUS
<1>5. /\ Denoted(t) = Grid(u, c.at, nCol, len)
      /\ u \in Seq(Int) /\ c.at \in Seq(Int)
  BY <1>1, <1>2, <1>3, <1>4 DEF Denoted, Stands, Reached, WellIndexed, Index
<1> HIDE DEF d, u, c
<1>6. elements = Grid(m.at, c.at, nCol, len)
  BY <1>3, <1>5, PickedColumn DEF u
<1>7. WellIndexed(m) /\ IndexDims(m) = IndexDims(w)
  BY <1>5, MergedLine DEF u
<1>8. elements \in Seq(Int)
  <2>1. Picked(Denoted(t), w) \in Seq(Int)
    <3>1. Denoted(t) \in Seq(Int)
      BY <1>1, HeldFacts DEF Denoted, Running
    <3> QED  BY <3>1, PickedType
  <2> QED  BY <2>1
<1> HIDE DEF m
<1>9. /\ v.kind = "2d" /\ v.rows = m /\ v.cols = c /\ v.dims = IndexDims(w)
      /\ m \in Index /\ c \in Index /\ IndexDims(w) \in Seq(Nat)
  BY <1>3, <1>7, SizesOfOne DEF Variable, WellIndexed
<1>10. IndexDims(w) = IndexDims(m) \o IndexDims(c)
  BY <1>3, <1>7, JoinedWithNone
<1>11. /\ Len(d.dims) = 2 /\ Len(d.data) = Sizes(d.dims)
  BY <1>1 DEF Stands
<1> HIDE DEF elements, v
<1>12. Stands(v, d, elements)
  BY <1>2, <1>3, <1>4, <1>6, <1>7, <1>9, <1>10, <1>11 DEF Stands, Reached
<1> QED  BY <1>1, <1>8, <1>9, <1>12, NewReferenceKeeps DEF elements, v, d, m, u, c

\* ... or to a row of one.
LEMMA IndexRowKeeps ==
  ASSUME RInv, NEW s \in Slots, NEW t \in Slots, NEW w, WellIndexed(w), Running(s),
         var[t].kind = "2d", Len(var[t].dims) = 1, var[t].rows.scalar,
         InBounds(var[t].cols.at, w),
         NewReference(s, "2d", IndexDims(w), var[t].self, var[t].rows, Merged(var[t].cols.at, w),
                      Picked(Denoted(t), w))
  PROVE  References'
<1> DEFINE a == var[t]
           d == block[a.self]
           u == a.cols.at
           r == a.rows
           m == Merged(u, w)
           elements == Picked(Denoted(t), w)
           v == Variable("2d", IndexDims(w), a.self, r, m)
<1>1. /\ a \in Variables /\ a.self \in Blocks /\ Stands(a, d, denotes[t])
      /\ d.dims \in Seq(Nat) /\ d.data \in Seq(Int)
  BY HeldFacts DEF Running
<1>2. PICK len \in Nat : len = Len(d.data)
  BY <1>1
<1>3. /\ WellIndexed(a.cols) /\ WellIndexed(r)
      /\ IndexDims(r) = <<>> /\ Len(r.at) = 1
  BY <1>1, HeldLine
<1>4. PICK nCol : nCol = d.dims[2]
  OBVIOUS
<1>5. /\ Denoted(t) = Grid(r.at, u, nCol, len)
      /\ u \in Seq(Int) /\ r.at \in Seq(Int)
  BY <1>1, <1>2, <1>3, <1>4 DEF Denoted, Stands, Reached, WellIndexed, Index
<1> HIDE DEF d, u, r
<1>6. elements = Grid(r.at, m.at, nCol, len)
  BY <1>3, <1>5, PickedRow DEF u
<1>7. WellIndexed(m) /\ IndexDims(m) = IndexDims(w)
  BY <1>5, MergedLine DEF u
<1>8. elements \in Seq(Int)
  <2>1. Denoted(t) \in Seq(Int)
    BY <1>1, HeldFacts DEF Denoted, Running
  <2> QED  BY <2>1, PickedType
<1> HIDE DEF m
<1>9. /\ v.kind = "2d" /\ v.rows = r /\ v.cols = m /\ v.dims = IndexDims(w)
      /\ m \in Index /\ r \in Index /\ IndexDims(w) \in Seq(Nat)
  BY <1>3, <1>7, SizesOfOne DEF Variable, WellIndexed
<1>10. IndexDims(w) = IndexDims(r) \o IndexDims(m)
  BY <1>3, <1>7, JoinedWithNone
<1>11. /\ Len(d.dims) = 2 /\ Len(d.data) = Sizes(d.dims)
  BY <1>1 DEF Stands
<1> HIDE DEF elements, v
<1>12. Stands(v, d, elements)
  BY <1>2, <1>3, <1>4, <1>6, <1>7, <1>9, <1>10, <1>11 DEF Stands, Reached
<1> QED  BY <1>1, <1>8, <1>9, <1>12, NewReferenceKeeps DEF elements, v, d, m, u, r

\* Indexing by a vector: the cases of the function.
LEMMA VectorIndexingKeeps ==
  ASSUME RInv, NEW s \in Slots, NEW t \in Slots, NEW w, WellIndexed(w),
         InitFromVectorIndexing(s, t, w)
  PROVE  References'
<1> DEFINE a == var[t]
           New(kind, rows, cols) ==
             NewReference(s, kind, IndexDims(w), a.self, rows, cols, Picked(Denoted(t), w))
<1> HIDE DEF New
<1>0. Running(s) /\ a.kind # "none" /\ status = "running"
  BY DEF InitFromVectorIndexing, Running
<1>1. CASE Stop
  BY <1>0, <1>1, SameReferences DEF Stop, RInv
<1>2. CASE a.kind = "array" /\ Len(a.dims) = 1 /\ New("1d", w, NoIndex)
  BY <1>0, <1>2, IndexArrayKeeps DEF New
<1>3. CASE /\ a.kind = "self" /\ Len(a.dims) = 1 /\ InBounds(Data(a), w)
           /\ New("1d", Merged(Data(a), w), NoIndex)
  BY <1>0, <1>3, IndexSelfKeeps DEF New
<1>4. CASE a.kind = "1d" /\ InBounds(a.rows.at, w) /\ New("1d", Merged(a.rows.at, w), NoIndex)
  BY <1>0, <1>4, IndexVectorKeeps DEF New
<1>5. CASE /\ a.kind = "2d" /\ Len(a.dims) = 1 /\ ~a.rows.scalar /\ InBounds(a.rows.at, w)
           /\ New("2d", Merged(a.rows.at, w), a.cols)
  BY <1>0, <1>5, IndexColumnKeeps DEF New
<1>6. CASE /\ a.kind = "2d" /\ Len(a.dims) = 1 /\ a.rows.scalar /\ InBounds(a.cols.at, w)
           /\ New("2d", a.rows, Merged(a.cols.at, w))
  BY <1>0, <1>6, IndexRowKeeps DEF New
<1> QED  BY <1>1, <1>2, <1>3, <1>4, <1>5, <1>6 DEF InitFromVectorIndexing, New

\* Indexing an array by itself; the same of a reference ends the model.
LEMMA SelfIndexingKeeps ==
  ASSUME RInv, NEW s \in Slots, NEW t \in Slots, InitFromSelfIndexing(s, t)
  PROVE  References'
<1>1. CASE Stop
  BY <1>1, SameReferences DEF Stop, RInv, InitFromSelfIndexing, Running
<1>2. CASE /\ Len(var[t].dims) = 1 /\ var[t].kind = "array"
           /\ NewReference(s, "self", var[t].dims, var[t].self, NoIndex, NoIndex, <<>>)
  <2> DEFINE a == var[t]
             v == Variable("self", a.dims, a.self, NoIndex, NoIndex)
  <2>1. /\ a \in Variables /\ a.self \in Blocks /\ Stands(a, block[a.self], denotes[t])
        /\ Running(s) /\ NoIndex \in Index /\ <<>> \in Seq(Int)
    BY <1>2, HeldFacts DEF InitFromSelfIndexing, Running, NoIndex, Index
  <2>2. v.kind = "self" /\ v.dims = a.dims /\ a.dims \in Seq(Nat)
    BY <2>1 DEF Variable, Variables
  <2> HIDE DEF v
  <2>3. Stands(v, block[a.self], <<>>)
    BY <1>2, <2>1, <2>2 DEF Stands
  <2> QED  BY <1>2, <2>1, <2>2, <2>3, NewReferenceKeeps DEF v
<1> QED  BY <1>1, <1>2 DEF InitFromSelfIndexing

LEMMA SelfOfReferenceKeeps ==
  ASSUME RInv, NEW s \in Slots, NEW t \in Slots, InitFromSelfIndexingOfReference(s, t)
  PROVE  References'
<1> DEFINE v == [Variable("self", var[t].dims, NoBlock, NoIndex, NoIndex) EXCEPT !.root = "reference"]
<1>1. /\ var' = [var EXCEPT ![s] = v] /\ status' = "undefined" /\ UNCHANGED <<block, denotes>>
  BY DEF InitFromSelfIndexingOfReference
<1>2. var[t].dims \in Seq(Nat)
  BY DEF RInv, References, Variables
<1>3. v \in Variables /\ v.root = "reference" /\ v.kind = "self" /\ v.self = NoBlock
      /\ NoBlock \notin Blocks
  <2> DEFINE u == Variable("self", var[t].dims, NoBlock, NoIndex, NoIndex)
  <2>1. u \in Variables /\ u.self = NoBlock /\ u.kind = "self"
    BY <1>2 DEF Variable, Variables, NoIndex, Index
  <2> HIDE DEF u
  <2>2. [u EXCEPT !.root = "reference"] \in Variables
    BY <2>1 DEF Variables
  <2>3. /\ [u EXCEPT !.root = "reference"].root = "reference"
        /\ [u EXCEPT !.root = "reference"].kind = "self" /\ [u EXCEPT !.root = "reference"].self = NoBlock
    BY <2>1 DEF Variables
  <2> QED  BY <2>2, <2>3, NoBlockAssumption DEF u
<1> HIDE DEF v
<1>4. \A x \in Slots : var'[x] = IF x = s THEN v ELSE var[x]
  BY <1>1 DEF RInv, References
<1>5. var' \in [Slots -> Variables] /\ denotes' \in [Slots -> Seq(Int)]
      /\ \A b \in Blocks : block'[b].dims \in Seq(Nat) /\ block'[b].data \in Seq(Int)
  BY <1>1, <1>3 DEF RInv, References
<1>6. ASSUME NEW x \in Slots
      PROVE  /\ var'[x].kind # "none" /\ var'[x].root = "array" <=> var'[x].self \in Blocks
             /\ var'[x].self \in Blocks => Stands(var'[x], block'[var'[x].self], denotes'[x])
  <2>1. CASE x = s
    BY <1>3, <1>4, <2>1
  <2>2. CASE x # s
    BY <1>1, <1>4, <2>2 DEF RInv, References
  <2> QED  BY <2>1, <2>2
<1>7. \A x \in Slots : var'[x].root = "array" \/ var'[x].kind = "self"
  BY <1>3, <1>4 DEF RInv, References
<1> QED  BY <1>1, <1>5, <1>6, <1>7 DEF References

\* The elements of an array of some length.
Whole(len) == [i \in 1 .. len |-> i - 1]

\* The element that a row and a column pick.
PickedAt(x, y, d1, d2) ==
  IF x \in 1 .. d1 /\ y \in 1 .. d2 THEN Whole(d1 * d2)[(x - 1) * d2 + y] ELSE Nowhere

\* The element of an array that two numbers pick is the place they reach.
LEMMA PickedPlace ==
  ASSUME NEW x \in Int, NEW y \in Int, NEW d1 \in Nat, NEW d2 \in Nat
  PROVE  PickedAt(x, y, d1, d2) = Place(x, y, d2, d1 * d2)
<1>1. CASE y \notin 1 .. d2
  BY <1>1 DEF Place, PickedAt
<1>2. CASE y \in 1 .. d2
  <2>1. /\ (x - 1) * d2 + y - 1 \in 0 .. d1 * d2 - 1 <=> x \in 1 .. d1
        /\ x \in 1 .. d1 => (x - 1) * d2 + y \in 1 .. d1 * d2
    BY <1>2, PlaceInMatrix
  <2>2. Place(x, y, d2, d1 * d2) =
          IF x \in 1 .. d1 THEN (x - 1) * d2 + y - 1 ELSE Nowhere
    BY <1>2, <2>1 DEF Place, Checked
  <2>3. x \in 1 .. d1 => Whole(d1 * d2)[(x - 1) * d2 + y] = (x - 1) * d2 + y - 1
    <3>1. PICK z \in Int : z = (x - 1) * d2
      OBVIOUS
    <3>2. z + y \in 1 .. d1 * d2 => Whole(d1 * d2)[z + y] = z + y - 1
      BY DEF Whole
    <3> QED  BY <2>1, <3>1, <3>2
  <2> QED  BY <1>2, <2>2, <2>3 DEF PickedAt
<1> QED  BY <1>1, <1>2

\* Two indices pick from an array the grid of their places.
LEMMA PickedGrid ==
  ASSUME NEW dims \in Seq(Nat), Len(dims) = 2, NEW r, NEW c, WellIndexed(r), WellIndexed(c)
  PROVE  PickedMatrix(Whole(dims[1] * dims[2]), dims, r, c)
           = Grid(r.at, c.at, dims[2], dims[1] * dims[2])
<1>0. PICK d1 \in Nat, d2 \in Nat : d1 = dims[1] /\ d2 = dims[2]
  <2>1. 1 \in 1 .. Len(dims) /\ 2 \in 1 .. Len(dims)
    OBVIOUS
  <2>2. dims[1] \in Nat /\ dims[2] \in Nat
    BY <2>1, ElementOfSeq
  <2> QED  BY <2>2
<1> DEFINE elements == Whole(d1 * d2)
<1> HIDE DEF elements
<1>1. PICK R \in Seq(Int) : R = r.at
  BY DEF WellIndexed, Index
<1>2. PICK C \in Seq(Int) : C = c.at
  BY DEF WellIndexed, Index
<1>3. PICK m \in Nat : m = Len(R)
  OBVIOUS
<1>4. PICK n \in Nat : n = Len(C)
  OBVIOUS
<1>5. ASSUME NEW i \in 1 .. m * n
      PROVE  LET x == R[(i - 1) \div n + 1]
                 y == C[((i - 1) % n) + 1]
             IN  (IF x \in 1 .. dims[1] /\ y \in 1 .. dims[2] THEN elements[(x - 1) * dims[2] + y]
                  ELSE Nowhere) = Place(x, y, d2, d1 * d2)
  <2>0. m * n \in Nat
    OBVIOUS
  <2>1. i - 1 \in Nat /\ i - 1 < m * n
    BY <2>0
  <2>2. (i - 1) \div n \in 0 .. m - 1 /\ (i - 1) % n \in 0 .. n - 1
    BY ONLY <2>1, m \in Nat, n \in Nat, RowAndColumn
  <2>3. PICK x \in Int : x = R[(i - 1) \div n + 1]
    <3>1. (i - 1) \div n + 1 \in 1 .. Len(R)
      BY <1>3, <2>2
    <3>2. R[(i - 1) \div n + 1] \in Int
      BY ONLY <3>1, R \in Seq(Int)
    <3> QED  BY <3>2
  <2>4. PICK y \in Int : y = C[((i - 1) % n) + 1]
    <3>1. ((i - 1) % n) + 1 \in 1 .. Len(C)
      BY <1>4, <2>2
    <3>2. C[((i - 1) % n) + 1] \in Int
      BY ONLY <3>1, C \in Seq(Int)
    <3> QED  BY <3>2
  <2>5. PickedAt(x, y, d1, d2) = Place(x, y, d2, d1 * d2)
    BY ONLY x \in Int, y \in Int, d1 \in Nat, d2 \in Nat, PickedPlace
  <2> QED  BY <1>0, <2>3, <2>4, <2>5 DEF PickedAt, elements
<1>6. PickedMatrix(elements, dims, r, c) = Grid(r.at, c.at, d2, d1 * d2)
  BY <1>1, <1>2, <1>3, <1>4, <1>5 DEF PickedMatrix, Grid
<1> QED  BY <1>0, <1>6 DEF elements

\* Indexing an array by two.
LEMMA MatrixIndexingKeeps ==
  ASSUME RInv, MatrixOfMatrix = FALSE, NEW s \in Slots, NEW t \in Slots,
         NEW r, NEW c, WellIndexed(r), WellIndexed(c), InitFromMatrixIndexing(s, t, r, c)
  PROVE  References'
<1> DEFINE a == var[t]
           d == block[a.self]
           dims == IndexDims(r) \o IndexDims(c)
           elements == PickedMatrix(Denoted(t), a.dims, r, c)
           v == Variable("2d", dims, a.self, r, c)
<1>1. CASE Stop
  BY <1>1, SameReferences DEF Stop, RInv, InitFromMatrixIndexing, Running
<1>2. CASE /\ Len(a.dims) = 2 /\ a.kind = "array"
           /\ NewReference(s, "2d", dims, a.self, r, c, elements)
  <2>1. /\ a \in Variables /\ a.self \in Blocks /\ Stands(a, d, denotes[t])
        /\ d.dims \in Seq(Nat) /\ d.data \in Seq(Int) /\ Running(s)
    BY <1>2, HeldFacts DEF Running, InitFromMatrixIndexing
  <2>2. a.dims = d.dims /\ Len(d.dims) = 2 /\ Len(d.data) = Sizes(d.dims)
    BY <1>2, <2>1 DEF Stands
  <2>3. PICK d1 \in Nat, d2 \in Nat : d1 = d.dims[1] /\ d2 = d.dims[2]
    BY <2>1, <2>2
  <2>4. PICK len \in Nat : len = Len(d.data)
    BY <2>1
  <2>5. Denoted(t) = Whole(len)
    <3>1. Len(Data(a)) = Sizes(a.dims) /\ len = Len(Data(a))
      BY <2>2, <2>4 DEF Data
    <3>2. Elements(a) = [i \in 1 .. len |-> i - 1]
      BY <1>2, <3>1, ElementsOfArray
    <3> QED  BY <1>2, <3>2 DEF Denoted, Whole
  <2>6. PICK ds \in Seq(Nat) : ds = d.dims
    BY <2>1
  <2>7. len = ds[1] * ds[2] /\ elements = Grid(r.at, c.at, d2, len)
    <3>1. Len(ds) = 2
      BY <2>2, <2>6
    <3>2. Sizes(ds) = ds[1] * ds[2]
      <4>1. Len(ds) <= 2
        BY <3>1
      <4> QED  BY ONLY ds \in Seq(Nat), <3>1, <4>1, SizesType
    <3>3. PickedMatrix(Whole(ds[1] * ds[2]), ds, r, c) = Grid(r.at, c.at, ds[2], ds[1] * ds[2])
      BY <3>1, PickedGrid
    <3> QED  BY <2>2, <2>3, <2>4, <2>5, <2>6, <3>2, <3>3
  <2>8. elements \in Seq(Int)
    <3> HIDE DEF elements
    <3> QED  BY <2>3, <2>4, <2>7, GridType DEF WellIndexed, Index
  <2>9. /\ v.kind = "2d" /\ v.rows = r /\ v.cols = c /\ v.dims = dims
        /\ r \in Index /\ c \in Index
    BY DEF Variable, WellIndexed
  <2>10. dims \in Seq(Nat)
    BY SizesOfTwo
  <2> HIDE DEF v, elements, d, dims
  <2>11. Stands(v, d, elements)
    BY <2>2, <2>3, <2>4, <2>7, <2>9 DEF Stands, Reached, dims
  <2> QED  BY <1>2, <2>1, <2>8, <2>9, <2>10, <2>11, NewReferenceKeeps DEF v, d
<1> QED  BY <1>1, <1>2 DEF InitFromMatrixIndexing

(***************************************************************************)
(* Assignment.                                                             *)
(***************************************************************************)
\* An array is made anew of as many numbers as it had.
LEMMA AssignToArrayKeeps ==
  ASSUME RInv, NEW s \in Slots, status = "running", var[s].kind = "array",
         NEW values \in Seq(Int), Len(values) = Sizes(var[s].dims),
         AssignToArray(s, values), UNCHANGED <<status, denotes>>
  PROVE  References'
<1>1. PICK b0 \in Fresh :
        /\ var' = [var EXCEPT ![s].self = b0]
        /\ block' = NewBlock(Destructed(block, var[s].self), b0, var[s].dims, values)
  BY DEF AssignToArray
<1> DEFINE old == var[s].self
           dims == var[s].dims
           v == [var[s] EXCEPT !.self = b0]
           heap == NewBlock(Destructed(block, old), b0, dims, values)
           new == [dims |-> dims, data |-> values, refCount |-> 1]
<1>2. b0 \in Blocks /\ \A t \in Slots : var[t].self # b0
  BY FreshIsFree DEF RInv
<1>3. /\ var[s] \in Variables /\ old \in Blocks /\ Stands(var[s], block[old], denotes[s])
      /\ denotes[s] \in Seq(Int) /\ block[old].dims \in Seq(Nat) /\ block[old].data \in Seq(Int)
  BY HeldFacts
<1>4. var[s].root = "array"
  BY DEF RInv, References
<1>5. /\ v \in Variables /\ v.root = "array" /\ v.kind = "array" /\ v.self = b0 /\ v.dims = dims
      /\ dims \in Seq(Nat)
  BY <1>2, <1>3, <1>4 DEF Variables
<1>6. \A b \in Blocks :
        /\ b = b0 => heap[b] = new
        /\ b # b0 => heap[b].dims = block[b].dims /\ heap[b].data = block[b].data
  <2>1. DOMAIN block = Blocks /\ \A b \in Blocks : IsBlock(block[b])
    BY DEF RInv, IInv, Shape
  <2>2. DOMAIN Destructed(block, old) = Blocks
    BY <2>1 DEF Destructed
  <2>3. \A b \in Blocks : heap[b] = IF b = b0 THEN new ELSE Destructed(block, old)[b]
    BY <2>2 DEF NewBlock
  <2>4. \A b \in Blocks :
          \/ Destructed(block, old)[b] = block[b]
          \/ Destructed(block, old)[b] = [block[b] EXCEPT !.refCount = @ - 1]
    BY <2>1 DEF Destructed
  <2>5. \A b \in Blocks : /\ Destructed(block, old)[b].dims = block[b].dims
                          /\ Destructed(block, old)[b].data = block[b].data
    BY <2>1, <2>4 DEF IsBlock
  <2> QED  BY <2>3, <2>5
<1>7. new.dims = dims /\ new.data = values
  OBVIOUS
<1>8. var' = [var EXCEPT ![s] = v] /\ block' = heap
      /\ denotes' = [denotes EXCEPT ![s] = denotes[s]]
  BY <1>1 DEF RInv, References
<1>9. \A b \in Blocks : block[b].dims \in Seq(Nat) /\ block[b].data \in Seq(Int)
  BY DEF RInv, References
<1> HIDE DEF v, heap, new, dims, old
<1>10. heap[b0].dims = dims /\ heap[b0].data = values
  BY <1>2, <1>6, <1>7
<1>11. Len(dims) <= 2
  <2>1. Len(var[s].dims) <= 2
    BY <1>3, HeldDims DEF old
  <2> QED  BY <2>1 DEF dims
<1>12. Stands(v, heap[v.self], denotes[s])
  BY <1>5, <1>10, <1>11 DEF Stands, dims
<1>13. /\ \A b \in Blocks : heap[b].dims \in Seq(Nat) /\ heap[b].data \in Seq(Int)
       /\ \A b \in Blocks : (\E t \in Slots \ {s} : var[t].self = b) =>
            heap[b].dims = block[b].dims /\ Len(heap[b].data) = Len(block[b].data)
  BY <1>2, <1>5, <1>6, <1>7, <1>9
<1>14. NewlyBound(s, v, heap, denotes[s])
  BY <1>2, <1>3, <1>5, <1>8, <1>12, <1>13 DEF NewlyBound
<1> QED  BY <1>14, BindingStep DEF RInv

\* Data of the length it had may be written to a block.
LEMMA DataKeeps ==
  ASSUME RInv, UNCHANGED <<var, status, denotes>>,
         NEW b0 \in Blocks, NEW data \in Seq(Int), Len(data) = Len(block[b0].data),
         block' = [block EXCEPT ![b0].data = data]
  PROVE  References'
<1>1. \A b \in Blocks : /\ IsBlock(block[b]) /\ block' = [x \in Blocks |-> block'[x]]
                        /\ block'[b] = IF b = b0 THEN [block[b] EXCEPT !.data = data] ELSE block[b]
  BY DEF RInv, IInv, Shape
<1>2. \A b \in Blocks : /\ block'[b].dims = block[b].dims
                        /\ block'[b].data = IF b = b0 THEN data ELSE block[b].data
  BY <1>1 DEF IsBlock
<1>3. \A b \in Blocks : block'[b].dims \in Seq(Nat) /\ block'[b].data \in Seq(Int)
  BY <1>2 DEF RInv, References
<1>4. \A b \in Blocks : Len(block'[b].data) = Len(block[b].data)
  BY <1>2
<1>5. ASSUME NEW t \in Slots
      PROVE  /\ var'[t].kind # "none" /\ var'[t].root = "array" <=> var'[t].self \in Blocks
             /\ var'[t].self \in Blocks => Stands(var'[t], block'[var'[t].self], denotes'[t])
  <2>1. var'[t] = var[t] /\ denotes'[t] = denotes[t]
    OBVIOUS
  <2>2. var[t].kind # "none" /\ var[t].root = "array" <=> var[t].self \in Blocks
    BY DEF RInv, References
  <2>3. ASSUME var[t].self \in Blocks
        PROVE  Stands(var[t], block'[var[t].self], denotes[t])
    <3>1. PICK b \in Blocks : b = var[t].self
      BY <2>3
    <3>2. Stands(var[t], block[b], denotes[t])
      BY <3>1 DEF RInv, References
    <3>3. block'[b].dims = block[b].dims /\ Len(block'[b].data) = Len(block[b].data)
      BY <1>2, <1>4
    <3>4. Stands(var[t], block'[b], denotes[t])
      BY ONLY <3>2, <3>3, StandsAlike
    <3> QED  BY <3>1, <3>4
  <2> QED  BY <2>1, <2>2, <2>3
<1> QED  BY <1>3, <1>5 DEF RInv, References

\* Assignment to an array, or to the elements a reference stands for.
LEMMA AssignKeeps ==
  ASSUME RInv, NEW s \in Slots, NEW t \in Slots, Assign(s, t)
  PROVE  References'
<1> DEFINE v == var[s]
           values == Promoted(var[t], v.dims)
<1>1. CASE Stop
  BY <1>1, SameReferences DEF Stop, RInv, Assign
<1>2. CASE ~Stop
  <2>1. /\ Promotable(var[t], v.dims) /\ status = "running" /\ v.kind # "none" /\ var[t].kind # "none"
    BY <1>2 DEF Assign
  <2>2. /\ v \in Variables /\ v.kind \in {"array", "self", "1d", "2d"} /\ v.self \in Blocks
        /\ Stands(v, block[v.self], denotes[s])
        /\ block[v.self].dims \in Seq(Nat) /\ block[v.self].data \in Seq(Int)
    BY <2>1, HeldFacts
  <2>3. Sizes(v.dims) \in Nat
    BY <2>2, HeldDims
  <2>4. values \in Seq(Int) /\ Len(values) = Sizes(v.dims)
    <3>1. /\ var[t].kind \in {"array", "self", "1d", "2d"}
          /\ Stands(var[t], block[var[t].self], denotes[t])
          /\ block[var[t].self].dims \in Seq(Nat) /\ Data(var[t]) \in Seq(Int)
      BY <2>1, HeldFacts DEF Data
    <3> QED  BY <2>1, <2>3, <3>1, PromotedType
  <2>5. CASE v.kind = "array"
    <3>1. AssignToArray(s, values) /\ UNCHANGED <<status, denotes>>
      BY <1>2, <2>5 DEF Assign, IsReference
    <3> HIDE DEF values
    <3> QED  BY <2>1, <2>4, <2>5, <3>1, AssignToArrayKeeps
  <2>6. CASE v.kind # "array"
    <3> DEFINE written == IF values = <<>> THEN block[v.self].data ELSE Written(v, values)
    <3>1. /\ block' = [block EXCEPT ![v.self].data = written] /\ UNCHANGED <<var, status, denotes>>
          /\ values # <<>> => Written(v, values) # <<>>
      BY <1>2, <2>6 DEF Assign
    <3>2. written \in Seq(Int) /\ Len(written) = Len(block[v.self].data)
      <4>1. CASE values = <<>>
        BY <2>2, <4>1
      <4>2. CASE values # <<>>
        <5>1. v.kind \in {"self", "1d", "2d"} /\ Data(v) \in Seq(Int) /\ Written(v, values) # <<>>
          BY <2>2, <2>6, <3>1, <4>2 DEF Data
        <5> HIDE DEF values, v
        <5>2. Written(v, values) \in Seq(Int) /\ Len(Written(v, values)) = Len(Data(v))
          BY ONLY <2>4, <5>1, WrittenEffect
        <5> QED  BY <4>2, <5>2 DEF Data
      <4> QED  BY <4>1, <4>2
    <3> HIDE DEF written
    <3> QED  BY <2>2, <3>1, <3>2, DataKeeps
  <2> QED  BY <2>5, <2>6
<1> QED  BY <1>1, <1>2

(***************************************************************************)
(* The specification, as long as a reference to a matrix is not indexed as *)
(* a matrix again: there the program itself goes wrong.                    *)
(***************************************************************************)
\* Every call keeps the references.
LEMMA NextKeeps ==
  ASSUME MatrixOfMatrix = FALSE
  PROVE  RInv /\ [Next]_vars => RInv'
<1> SUFFICES ASSUME RInv, [Next]_vars PROVE References'
  BY NextInv DEF RInv
<1>0. \A w \in Indices : WellIndexed(w)
  BY IndicesAssumption DEF WellIndexed, Index
<1>1. ASSUME NEW s \in Slots, NEW a \in Arrays, InitArray(s, a.dims, a.data)
      PROVE  References'
  <2>1. /\ a.dims \in Seq(Nat) /\ a.data \in Seq(Int) /\ Len(a.data) = Sizes(a.dims)
        /\ Len(a.dims) \in 1 .. 2
    BY ArraysAssumption
  <2>2. Len(a.dims) <= 2
    <3>1. \A n \in 1 .. 2 : n <= 2
      OBVIOUS
    <3> QED  BY <2>1, <3>1
  <2> QED  BY <1>1, <2>1, <2>2, InitArrayKeeps
<1>2. ASSUME NEW s \in Slots, NEW a \in Temporaries, NEW w \in Indices,
             InitFromTemporaryIndexing(s, a.dims, a.data, w)
      PROVE  References'
  <2>1. a.dims \in Seq(Nat) /\ a.data \in Seq(Int) /\ Len(a.data) = Sizes(a.dims)
    BY ArraysAssumption
  <2> QED  BY <1>0, <1>2, <2>1, TemporaryKeeps
<1>3. ASSUME NEW s \in Slots, Destruct(s)
      PROVE  References'
  BY <1>3, DestructKeeps
<1>4. ASSUME NEW s \in Slots, NEW t \in Slots, InitFromCopy(s, t)
      PROVE  References'
  BY <1>4, CopyKeeps
<1>5. ASSUME NEW s \in Slots, NEW t \in Slots, InitFromSelfIndexing(s, t)
      PROVE  References'
  BY <1>5, SelfIndexingKeeps
<1>6. ASSUME NEW s \in Slots, NEW t \in Slots, InitFromSelfIndexingOfReference(s, t)
      PROVE  References'
  BY <1>6, SelfOfReferenceKeeps
<1>7. ASSUME NEW s \in Slots, NEW t \in Slots, NEW w \in Indices, InitFromVectorIndexing(s, t, w)
      PROVE  References'
  BY <1>0, <1>7, VectorIndexingKeeps
<1>8. ASSUME NEW s \in Slots, NEW t \in Slots, NEW r \in Indices, NEW c \in Indices,
             InitFromMatrixIndexing(s, t, r, c)
      PROVE  References'
  BY <1>0, <1>8, MatrixIndexingKeeps
<1>9. ASSUME NEW s \in Slots, NEW t \in Slots, Assign(s, t)
      PROVE  References'
  BY <1>9, AssignKeeps
<1>10. CASE UNCHANGED vars
  BY <1>10, SameReferences DEF vars, RInv
<1> QED  BY <1>1, <1>2, <1>3, <1>4, <1>5, <1>6, <1>7, <1>8, <1>9, <1>10 DEF Next

\* Nothing is bound at first.
LEMMA InitReferences == Init => RInv
<1> SUFFICES ASSUME Init PROVE References
  BY InitInv DEF RInv
<1>1. NoVariable \in Variables /\ NoVariable.kind = "none" /\ NoVariable.self = NoBlock
      /\ NoVariable.root = "array" /\ NoBlock \notin Blocks
  BY NoBlockAssumption DEF NoVariable, Variable, Variables, NoIndex, Index
<1>2. <<>> \in Seq(Nat) /\ <<>> \in Seq(Int)
  OBVIOUS
<1>3. \A b \in Blocks : block[b].dims \in Seq(Nat) /\ block[b].data \in Seq(Int)
  BY <1>2 DEF Init
<1>4. var \in [Slots -> Variables] /\ denotes \in [Slots -> Seq(Int)]
  BY <1>1, <1>2 DEF Init
<1> QED  BY <1>1, <1>3, <1>4 DEF Init, References

\* The invariant of the references always holds.
LEMMA ReferencesHold ==
  ASSUME MatrixOfMatrix = FALSE
  PROVE  Spec => []RInv
<1>1. RInv /\ [Next]_vars => RInv'
  BY NextKeeps
<1> QED  BY <1>1, InitReferences, PTL DEF Spec

(***************************************************************************)
(* The dimensions, indices, data and counts of NDArrayVariable.c stay what *)
(* their types say, a variable in use holds the data of an array, and a    *)
(* count is never negative.                                                *)
(***************************************************************************)
THEOREM TypesHold ==
  ASSUME MatrixOfMatrix = FALSE
  PROVE  Spec => []TypeOK
<1>1. RInv => TypeOK
  <2> SUFFICES ASSUME RInv PROVE TypeOK
    OBVIOUS
  <2>1. \A b \in Blocks : /\ block[b].refCount \in Nat /\ block[b].dims \in Seq(Nat)
                          /\ block[b].data \in Seq(Int) /\ IsBlock(block[b])
    BY HoldersAreCounted DEF RInv, IInv, Shape, References
  <2>2. \A b \in Blocks : block[b] \in [dims : Seq(Nat), data : Seq(Int), refCount : Nat]
    <3> SUFFICES ASSUME NEW b \in Blocks
                 PROVE  block[b] \in [dims : Seq(Nat), data : Seq(Int), refCount : Nat]
      OBVIOUS
    <3>1. PICK dims \in Seq(Nat), data \in Seq(Int), count \in Nat :
            block[b] = [dims |-> dims, data |-> data, refCount |-> count]
      BY <2>1 DEF IsBlock
    <3> QED  BY <3>1
  <2>3. block = [b \in Blocks |-> block[b]]
    BY DEF RInv, IInv, Shape
  <2>4. block \in [Blocks -> [dims : Seq(Nat), data : Seq(Int), refCount : Nat]]
    BY <2>2, <2>3
  <2> QED  BY <2>4 DEF RInv, References, TypeOK, Variables
<1> QED  BY <1>1, ReferencesHold, PTL

(***************************************************************************)
(* The data of an array is as long as its dimensions say, and the array    *)
(* and its copies by reference agree on them, after any number of          *)
(* assignments to it and through references to it.                         *)
(***************************************************************************)
THEOREM DataFits ==
  ASSUME MatrixOfMatrix = FALSE
  PROVE  Spec => []DataFitsDims
<1>1. RInv => DataFitsDims
  <2> SUFFICES ASSUME RInv, NEW s \in Slots, var[s].self # NoBlock
               PROVE  /\ Len(Data(var[s])) = Sizes(block[var[s].self].dims)
                      /\ var[s].kind \in {"array", "self"} => var[s].dims = block[var[s].self].dims
    BY DEF DataFitsDims
  <2>1. var[s].self \in Blocks
    BY DEF RInv, References, Variables
  <2>2. Stands(var[s], block[var[s].self], denotes[s])
    BY <2>1 DEF RInv, References
  <2> QED  BY <2>2 DEF Stands, Data
<1> QED  BY <1>1, ReferencesHold, PTL

(***************************************************************************)
(* However often references are indexed again, the merged indices of       *)
(* variableInitFromVectorIndexing reach the elements that the indices pick *)
(* one after the other, of an array of any size.                           *)
(***************************************************************************)
THEOREM IndicesCompose ==
  ASSUME MatrixOfMatrix = FALSE
  PROVE  Spec => []ReferencesCompose
<1>1. RInv => ReferencesCompose
  <2> SUFFICES ASSUME RInv, NEW s \in Slots, var[s].kind \in {"1d", "2d"}
               PROVE  Elements(var[s]) = denotes[s]
    BY DEF ReferencesCompose
  <2>1. PICK b \in Blocks : b = var[s].self
    BY DEF RInv, References
  <2>2. Stands(var[s], block[b], denotes[s]) /\ var[s] \in Variables /\ block[b].dims \in Seq(Nat)
    BY <2>1 DEF RInv, References
  <2>3. Elements(var[s]) = Reached(var[s], block[b])
    BY <2>1, <2>2, ElementsReached
  <2> QED  BY <2>2, <2>3 DEF Stands
<1> QED  BY <1>1, ReferencesHold, PTL

(***************************************************************************)
(* Writes.                                                                 *)
(***************************************************************************)
\* The elements of a reference with index vectors do not depend on the data.
LEMMA ElementAlike ==
  ASSUME NEW v, v.kind \in {"1d", "2d"}, NEW data, NEW other, Len(data) = Len(other), NEW i
  PROVE  Element(v, data, i) = Element(v, other, i)
BY DEF Element

\* What one step writes to the data of a block that is held before and after.
Write(b) ==
  block[b].refCount > 0 /\ block'[b].refCount > 0 /\ block'[b].data # block[b].data =>
    \E s \in Holders(b) :
      \/ var[s].kind = "self"
      \/ /\ var[s].kind \in {"1d", "2d"}
         /\ \A i \in Changed(b) : \E k \in DOMAIN denotes[s] : denotes[s][k] = i - 1

\* Allocating a free block, counting and uncounting write to no other.
LEMMA NewBlockWritesNothing ==
  ASSUME RInv, NEW b0 \in Fresh, NEW dims, NEW data, NEW old,
         \/ block' = NewBlock(block, b0, dims, data)
         \/ block' = Destructed(CopyByRef(NewBlock(block, b0, dims, data), b0), b0)
         \/ block' = NewBlock(Destructed(block, old), b0, dims, data),
         NEW b \in Blocks
  PROVE  Write(b)
<1>1. DOMAIN block = Blocks /\ b0 \in Blocks /\ IsBlock(block[b])
  BY DEF Fresh, RInv, IInv, Shape
<1>2. CASE b = b0
  <2>1. ~(block[b].refCount > 0)
    BY <1>2 DEF Fresh
  <2> QED  BY <2>1 DEF Write
<1>3. CASE b # b0
  <2>1. block'[b] = block[b] \/ block'[b] = [block[b] EXCEPT !.refCount = @ - 1]
    BY <1>1, <1>3 DEF NewBlock, CopyByRef, Destructed
  <2>2. block'[b].data = block[b].data
    BY <1>1, <2>1 DEF IsBlock
  <2> QED  BY <2>2 DEF Write
<1> QED  BY <1>2, <1>3

LEMMA CountingWritesNothing ==
  ASSUME RInv, NEW old, block' \in {block, CopyByRef(block, old), Destructed(block, old)},
         NEW b \in Blocks
  PROVE  Write(b)
<1>1. DOMAIN block = Blocks /\ IsBlock(block[b])
  BY DEF RInv, IInv, Shape
<1>2. \/ block'[b] = block[b]
      \/ block'[b] = [block[b] EXCEPT !.refCount = @ - 1]
      \/ block'[b] = [block[b] EXCEPT !.refCount = @ + 1]
  BY <1>1 DEF CopyByRef, Destructed
<1>3. block'[b].data = block[b].data
  BY <1>1, <1>2 DEF IsBlock
<1> QED  BY <1>3 DEF Write

\* An assignment through a reference writes only elements the reference stands for.
LEMMA AssignWrites ==
  ASSUME RInv, NEW s \in Slots, NEW t \in Slots, Assign(s, t), NEW b \in Blocks
  PROVE  Write(b)
<1> DEFINE v == var[s]
           values == Promoted(var[t], v.dims)
<1>1. CASE Stop
  BY <1>1, CountingWritesNothing DEF Stop
<1>2. CASE v.kind = "array" /\ AssignToArray(s, values)
  BY <1>2, NewBlockWritesNothing DEF AssignToArray
<1>3. CASE /\ IsReference(v) /\ Promotable(var[t], v.dims)
           /\ values # <<>> => Written(v, values) # <<>>
           /\ block' = [block EXCEPT ![v.self].data = IF values = <<>> THEN @ ELSE Written(v, values)]
  <2>1. /\ v.kind \in {"self", "1d", "2d"} /\ v.self \in Blocks
        /\ Stands(v, block[v.self], denotes[s]) /\ v \in Variables
        /\ block[v.self].dims \in Seq(Nat) /\ Data(v) \in Seq(Int)
    BY <1>3, HeldFacts DEF Assign, IsReference, Data
  <2>2. Sizes(v.dims) \in Nat
    BY <2>1, HeldDims
  <2>3. values \in Seq(Int) /\ Len(values) = Sizes(v.dims)
    <3>1. /\ var[t].kind \in {"array", "self", "1d", "2d"}
          /\ Stands(var[t], block[var[t].self], denotes[t])
          /\ block[var[t].self].dims \in Seq(Nat) /\ Data(var[t]) \in Seq(Int)
      BY HeldFacts DEF Assign, Data
    <3> QED  BY <1>3, <2>2, <3>1, PromotedType
  <2>4. DOMAIN block = Blocks /\ IsBlock(block[b])
    BY DEF RInv, IInv, Shape
  <2>5. CASE b # v.self \/ values = <<>>
    <3>1. block'[b].data = block[b].data
      BY <1>3, <2>4, <2>5
    <3> QED  BY <3>1 DEF Write
  <2>6. CASE b = v.self /\ values # <<>>
    <3>1. block'[b].data = Written(v, values) /\ block[b].data = Data(v)
      BY <1>3, <2>4, <2>6 DEF IsBlock, Data
    <3>2. s \in Holders(b)
      BY <2>6 DEF Holders
    <3>3. CASE v.kind = "self"
      BY <3>2, <3>3 DEF Write
    <3>4. CASE v.kind \in {"1d", "2d"}
      <4>1. \A j \in 1 .. Len(Data(v)) : Written(v, values)[j] # Data(v)[j] =>
              \E n \in 1 .. Len(values), data \in Seq(Int) :
                Len(data) = Len(Data(v)) /\ Element(v, data, n - 1) = j - 1
        <5>1. Data(v) \in Seq(Int) /\ Written(v, values) # <<>>
          BY <1>3, <2>1, <2>6
        <5> HIDE DEF v, values
        <5> QED  BY ONLY <2>1, <2>3, <5>1, WrittenEffect
      <4>2. Elements(v) = denotes[s]
        BY <2>1, <3>4, ElementsReached DEF Stands
      <4>3. ASSUME NEW i \in Changed(b)
            PROVE  \E k \in DOMAIN denotes[s] : denotes[s][k] = i - 1
        <5>1. i \in 1 .. Len(Data(v)) /\ Written(v, values)[i] # Data(v)[i]
          BY <2>1, <3>1 DEF Changed
        <5>2. PICK n \in 1 .. Len(values), data \in Seq(Int) :
                Len(data) = Len(Data(v)) /\ Element(v, data, n - 1) = i - 1
          BY <4>1, <5>1
        <5>3. Element(v, Data(v), n - 1) = i - 1
          BY <3>4, <5>2, ElementAlike
        <5>4. n \in DOMAIN Elements(v) /\ Elements(v)[n] = i - 1
          BY <2>3, <5>3 DEF Elements
        <5> QED  BY <4>2, <5>4
      <4> QED  BY <3>2, <3>4, <4>3 DEF Write
    <3> QED  BY <2>1, <3>3, <3>4
  <2> QED  BY <2>5, <2>6
<1> QED  BY <1>1, <1>2, <1>3 DEF Assign

\* No other call writes to data that is held.
LEMMA NextWrites ==
  ASSUME RInv, [Next]_vars, NEW b \in Blocks
  PROVE  Write(b)
<1>1. ASSUME NEW s \in Slots, NEW t \in Slots, Assign(s, t)
      PROVE  Write(b)
  BY <1>1, AssignWrites
<1>2. ASSUME NEW s, NEW dims, NEW data, InitArray(s, dims, data)
      PROVE  Write(b)
  BY <1>2, NewBlockWritesNothing DEF InitArray, Initialise
<1>3. ASSUME NEW s, NEW dims, NEW data, NEW w, InitFromTemporaryIndexing(s, dims, data, w)
      PROVE  Write(b)
  BY <1>3, NewBlockWritesNothing DEF InitFromTemporaryIndexing, Initialise
<1>4. ASSUME NEW s, Destruct(s)
      PROVE  Write(b)
  BY <1>4, CountingWritesNothing DEF Destruct, Initialise
<1>5. CASE UNCHANGED block
  BY <1>5, CountingWritesNothing
<1>6. ASSUME NEW s, NEW kind, NEW dims, NEW self, NEW rows, NEW cols, NEW elements,
             NewReference(s, kind, dims, self, rows, cols, elements)
      PROVE  Write(b)
  BY <1>6, CountingWritesNothing DEF NewReference, Initialise
<1>7. ASSUME NEW s, NEW t, InitFromCopy(s, t)
      PROVE  Write(b)
  BY <1>2, <1>5, <1>7 DEF InitFromCopy, Stop
<1>8. ASSUME NEW s, NEW t, InitFromSelfIndexing(s, t) \/ InitFromSelfIndexingOfReference(s, t)
      PROVE  Write(b)
  BY <1>5, <1>6, <1>8 DEF InitFromSelfIndexing, InitFromSelfIndexingOfReference, Stop
<1>9. ASSUME NEW s, NEW t, NEW w, InitFromVectorIndexing(s, t, w)
      PROVE  Write(b)
  BY <1>5, <1>6, <1>9 DEF InitFromVectorIndexing, Stop
<1>10. ASSUME NEW s, NEW t, NEW r, NEW c, InitFromMatrixIndexing(s, t, r, c)
       PROVE  Write(b)
  BY <1>5, <1>6, <1>10 DEF InitFromMatrixIndexing, Stop
<1> QED  BY <1>1, <1>2, <1>3, <1>4, <1>5, <1>7, <1>8, <1>9, <1>10 DEF Next, vars

(***************************************************************************)
(* The elements of an array that is held change only by an assignment to a *)
(* reference that stands for them: variableAssignment writes through a     *)
(* reference nowhere else, and an assignment to the array itself leaves    *)
(* what its references stand for.                                          *)
(***************************************************************************)
THEOREM WritesAreReferred ==
  ASSUME MatrixOfMatrix = FALSE
  PROVE  Spec => WritesGoThroughReferences
<1>1. RInv /\ [Next]_vars =>
        [\A b \in Blocks :
           block[b].refCount > 0 /\ block'[b].refCount > 0 /\ block'[b].data # block[b].data =>
             \E s \in Holders(b) :
               \/ var[s].kind = "self"
               \/ /\ var[s].kind \in {"1d", "2d"}
                  /\ \A i \in Changed(b) : \E k \in DOMAIN denotes[s] : denotes[s][k] = i - 1]_vars
  BY NextWrites DEF Write
<1> QED  BY <1>1, ReferencesHold, PTL DEF Spec, WritesGoThroughReferences
=============================================================================
