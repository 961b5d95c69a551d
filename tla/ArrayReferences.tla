--------------------------- MODULE ArrayReferences ---------------------------
(***************************************************************************)
(* Arrays and references to them: runtime/src/NDArrayVariable.c and        *)
(* variableAssignment of RuntimeVariables.c.  The data of an array is      *)
(* shared by the Variables that are copies by reference of one another,    *)
(* which count themselves in m_refCount.  Indexing an array makes a        *)
(* reference: a copy by reference of the array and one or two index        *)
(* vectors; indexing a reference merges the indices, so that the new       *)
(* reference is one to the same array.                                     *)
(*                                                                         *)
(* A step is one call of the interface.  The generated code makes these    *)
(* calls on named variables, var parameters and temporaries, and destroys  *)
(* each in an order of its own; here any order is allowed.  Elements are   *)
(* integers; an index is already promoted to an integer or a vector.       *)
(***************************************************************************)
EXTENDS Integers, Sequences, FiniteSets

CONSTANTS
  Slots,            \* the Variable objects of the generated code
  Blocks,           \* the memory in which m_data and m_refCount are allocated
  Arrays,           \* what an array may be initialised to: dims and data
  Temporaries,      \* the same for an interval or mixed literal that is indexed
  Indices,          \* the indices: scalar or vector, and the numbers in it
  MatrixOfMatrix    \* whether a reference to a matrix may be indexed as one

Sizes(dims) == IF dims = <<>> THEN 1 ELSE IF Len(dims) = 1 THEN dims[1] ELSE dims[1] * dims[2]

ASSUME SlotsAssumption == IsFiniteSet(Slots)

ASSUME ArraysAssumption ==
  \A a \in Arrays \cup Temporaries :
    /\ a.dims \in Seq(Nat) /\ Len(a.dims) \in 1 .. 2
    /\ a.data \in Seq(Int) /\ Len(a.data) = Sizes(a.dims)

ASSUME IndicesAssumption ==
  \A w \in Indices : w \in [scalar : BOOLEAN, at : Seq(Int)] /\ (w.scalar => Len(w.at) = 1)

ASSUME MatrixOfMatrixAssumption == MatrixOfMatrix \in BOOLEAN

NoBlock == "no block"

ASSUME NoBlockAssumption == NoBlock \notin Blocks

VARIABLES
  var,      \* the Variables
  block,    \* m_data with its dimensions, and m_refCount; 0 if it is free
  status,   \* errorAndExit() ends the program
  denotes   \* history: the elements each reference stands for

vars == <<var, block, status, denotes>>

NoIndex == [scalar |-> TRUE, at |-> <<>>]

\* kind is variableGetIndexRefTypeID; vars[0] of a reference is a copy by
\* reference of an array, or of a reference; vars[1] and vars[2] are its indices.
Variable(kind, dims, self, rows, cols) ==
  [kind |-> kind, dims |-> dims, self |-> self, root |-> "array", rows |-> rows, cols |-> cols]

NoVariable == Variable("none", <<>>, NoBlock, NoIndex, NoIndex)

IsReference(v) == v.kind \in {"self", "1d", "2d"}

Init ==
  /\ var = [s \in Slots |-> NoVariable]
  /\ block = [b \in Blocks |-> [dims |-> <<>>, data |-> <<>>, refCount |-> 0]]
  /\ status = "running"
  /\ denotes = [s \in Slots |-> <<>>]

(***************************************************************************)
(* Elements.  Position i of a variable is an element of the data of its    *)
(* array, counted from 0, or Nowhere: the program stops when it goes there.*)
(***************************************************************************)
Nowhere == -1

Checked(pos, len) == IF pos \in 0 .. len - 1 THEN pos ELSE Nowhere

\* ndarrayRefElementPtrGetter and ndarrayNonRefElementPtrGetter, when the array
\* holds `data`; a matrix is stored by rows.
Element(v, data, i) ==
  LET cols == Len(v.cols.at)
      nCol == block[v.self].dims[2]
      row == v.rows.at[i \div cols + 1]
      col == v.cols.at[(i % cols) + 1]
  IN  CASE v.kind = "array" -> i
        [] v.kind = "self"  -> Checked(data[i + 1] - 1, Len(data))
        [] v.kind = "1d"    -> Checked(v.rows.at[i + 1] - 1, Len(data))
        [] v.kind = "2d"    ->
             IF i \div cols >= Len(v.rows.at) \/ col \notin 1 .. nCol THEN Nowhere
             ELSE Checked((row - 1) * nCol + col - 1, Len(data))

Data(v) == block[v.self].data

Elements(v) == [i \in 1 .. Sizes(v.dims) |-> Element(v, Data(v), i - 1)]

Readable(v) == \A i \in DOMAIN Elements(v) : Elements(v)[i] # Nowhere

\* variableInitFromNDArrayIndexRefToValue, and the data of an array.
Value(v) == [i \in DOMAIN Elements(v) |-> Data(v)[Elements(v)[i] + 1]]

(***************************************************************************)
(* Memory.                                                                 *)
(***************************************************************************)
Fresh == {b \in Blocks : block[b].refCount = 0}

\* arrayTypeInitFromDims without and with a shared count.
NewBlock(heap, b, dims, data) ==
  [heap EXCEPT ![b] = [dims |-> dims, data |-> data, refCount |-> 1]]

\* A slip: the copy is not counted.
CopyByRef_NotCounted(heap, b) == heap
CopyByRef(heap, b) == [heap EXCEPT ![b].refCount = @ + 1]

\* variableNDArrayDestructor and arrayTypeDestructor: the last holder frees the
\* data.  The only holder of a reference's indices is the reference.
Destructed(heap, b) == [heap EXCEPT ![b].refCount = @ - 1]

Stop == status' = "stopped" /\ UNCHANGED <<var, block, denotes>>

Running(s) == status = "running" /\ var[s].kind = "none"

Initialise(s, v, heap, elements) ==
  /\ var' = [var EXCEPT ![s] = v]
  /\ block' = heap
  /\ denotes' = [denotes EXCEPT ![s] = elements]
  /\ UNCHANGED status

InitArray(s, dims, data) ==
  /\ Running(s)
  /\ \E b \in Fresh :
       Initialise(s, Variable("array", dims, b, NoIndex, NoIndex), NewBlock(block, b, dims, data), <<>>)

\* variableInitFromNDArrayCopy: an array is copied, a reference read.
InitFromCopy(s, t) ==
  /\ Running(s) /\ var[t].kind # "none"
  /\ IF Readable(var[t]) THEN InitArray(s, var[t].dims, Value(var[t])) ELSE Stop

Destruct(s) ==
  /\ status = "running" /\ var[s].kind # "none"
  /\ Initialise(s, NoVariable, Destructed(block, var[s].self), <<>>)

(***************************************************************************)
(* What an index denotes: the elements of t at the places it names.        *)
(***************************************************************************)
Denoted(t) == IF var[t].kind \in {"array", "self"} THEN Elements(var[t]) ELSE denotes[t]

Picked(elements, w) ==
  [i \in DOMAIN w.at |-> IF w.at[i] \in DOMAIN elements THEN elements[w.at[i]] ELSE Nowhere]

PickedMatrix(elements, dims, r, c) ==
  [i \in 1 .. Len(r.at) * Len(c.at) |->
    LET x == r.at[(i - 1) \div Len(c.at) + 1]
        y == c.at[((i - 1) % Len(c.at)) + 1]
    IN  IF x \in 1 .. dims[1] /\ y \in 1 .. dims[2] THEN elements[(x - 1) * dims[2] + y]
        ELSE Nowhere]

(***************************************************************************)
(* Indexing.                                                               *)
(***************************************************************************)
\* The dimensions of the result: a scalar index takes one away.
IndexDims(w) == IF w.scalar THEN <<>> ELSE <<Len(w.at)>>

\* A slip: the new index replaces the old one.
Merged_NotMerged(u, w) == w

\* Index vector u indexed by w, and read.
Merged(u, w) == [scalar |-> w.scalar, at |-> [i \in DOMAIN w.at |-> u[w.at[i]]]]

InBounds(u, w) == \A i \in DOMAIN w.at : w.at[i] \in DOMAIN u

NewReference(s, kind, dims, self, rows, cols, elements) ==
  Initialise(s, Variable(kind, dims, self, rows, cols), CopyByRef(block, self), elements)

\* a[a]: the copy of a stands for the indices as well.
InitFromSelfIndexing(s, t) ==
  LET a == var[t] IN
  /\ Running(s) /\ a.kind # "none"
  /\ \/ Len(a.dims) # 1 /\ Stop
     \/ /\ Len(a.dims) = 1 /\ a.kind = "array"
        /\ NewReference(s, "self", a.dims, a.self, NoIndex, NoIndex, <<>>)

\* The same of a reference is a reference to it.  Its elements are read out of
\* the memory that holds vars[0], vars[1], ...: the model ends here.
InitFromSelfIndexingOfReference(s, t) ==
  /\ Running(s) /\ IsReference(var[t]) /\ Len(var[t].dims) = 1
  /\ var' = [var EXCEPT ![s] =
       [Variable("self", var[t].dims, NoBlock, NoIndex, NoIndex) EXCEPT !.root = "reference"]]
  /\ status' = "undefined"
  /\ UNCHANGED <<block, denotes>>

\* variableInitFromVectorIndexing: of an array, or of each kind of reference.
InitFromVectorIndexing(s, t, w) ==
  LET a == var[t]
      elements == Picked(Denoted(t), w)
      New(kind, rows, cols) == NewReference(s, kind, IndexDims(w), a.self, rows, cols, elements)
      Merge(u, kind, rows, cols) == IF InBounds(u, w) THEN New(kind, rows, cols) ELSE Stop
  IN  /\ Running(s) /\ a.kind # "none"
      /\ \/ Len(a.dims) # 1 /\ Stop
         \/ /\ Len(a.dims) = 1 /\ a.kind = "array"
            /\ New("1d", w, NoIndex)
         \/ /\ Len(a.dims) = 1 /\ a.kind = "self"
            /\ Merge(Data(a), "1d", Merged(Data(a), w), NoIndex)
         \/ /\ Len(a.dims) = 1 /\ a.kind = "1d"
            /\ Merge(a.rows.at, "1d", Merged(a.rows.at, w), NoIndex)
         \/ /\ Len(a.dims) = 1 /\ a.kind = "2d" /\ ~a.rows.scalar
            /\ Merge(a.rows.at, "2d", Merged(a.rows.at, w), a.cols)
         \/ /\ Len(a.dims) = 1 /\ a.kind = "2d" /\ a.rows.scalar
            /\ Merge(a.cols.at, "2d", a.rows, Merged(a.cols.at, w))

\* The index of an interval or of a mixed literal: the array made of it is destroyed
\* again, and the reference is left as the only holder of its data.
InitFromTemporaryIndexing(s, dims, data, w) ==
  LET elements == [i \in DOMAIN w.at |-> Checked(w.at[i] - 1, Len(data))] IN
  /\ Running(s) /\ Len(dims) = 1
  /\ \E b \in Fresh :
       Initialise(s, Variable("1d", IndexDims(w), b, w, NoIndex),
                  Destructed(CopyByRef(NewBlock(block, b, dims, data), b), b), elements)

\* variableInitFromMatrixIndexing.  A reference takes both its indices from
\* those of the rows (:539), and if both are vectors it takes two dimensions
\* from an array that has one: the second is whatever lies behind it, for
\* which a few numbers stand here.
InitFromMatrixIndexing(s, t, r, c) ==
  LET a == var[t]
      elements == PickedMatrix(Denoted(t), a.dims, r, c)
      dims == IndexDims(r) \o IndexDims(c)
  IN  /\ Running(s) /\ a.kind # "none"
      /\ \/ Len(a.dims) # 2 /\ Stop
         \/ /\ Len(a.dims) = 2 /\ a.kind = "array"
            /\ NewReference(s, "2d", dims, a.self, r, c, elements)
         \/ /\ Len(a.dims) = 2 /\ a.kind = "2d" /\ MatrixOfMatrix
            /\ IF InBounds(a.rows.at, r) /\ InBounds(a.cols.at, r)
               THEN \E behind \in {0, 1, Len(c.at)} :
                      NewReference(s, "2d", IF Len(dims) = 2 THEN <<dims[1], behind>> ELSE dims,
                                   a.self, Merged(a.rows.at, r), Merged(a.cols.at, r), elements)
               ELSE Stop

(***************************************************************************)
(* Assignment.                                                             *)
(***************************************************************************)
\* A slip: a scalar is not spread over the target.
Promoted_NotSpread(v, dims) == Value(v)

\* The value of v promoted to the dimensions of the target: a scalar fills it.
Promoted(v, dims) ==
  IF v.dims = <<>> THEN [i \in 1 .. Sizes(dims) |-> Value(v)[1]] ELSE Value(v)

Promotable(v, dims) == Readable(v) /\ v.dims \in {dims, <<>>}

\* One element, or <<>> if it is Nowhere.
WrittenAt(v, data, i, x) ==
  LET e == IF data = <<>> THEN Nowhere ELSE Element(v, data, i - 1)
  IN  IF e = Nowhere THEN <<>> ELSE [data EXCEPT ![e + 1] = x]

\* Element by element; the elements of a[a] are looked up in the data as it is
\* when their turn comes.
Written(v, values) ==
  LET written[n \in 0 .. Len(values)] ==
        IF n = 0 THEN Data(v) ELSE WrittenAt(v, written[n - 1], n, values[n])
  IN  written[Len(values)]

\* A slip: an array is overwritten where it is.
AssignToArray_InPlace(s, values) ==
  /\ block' = [block EXCEPT ![var[s].self].data = values]
  /\ UNCHANGED var

\* A slip: the target is destroyed and not made anew.
AssignToArray_NotMade(s, values) ==
  /\ var' = [var EXCEPT ![s].self = NoBlock]
  /\ block' = Destructed(block, var[s].self)

\* The target is destroyed and made anew.
AssignToArray(s, values) ==
  \E b \in Fresh :
    /\ var' = [var EXCEPT ![s].self = b]
    /\ block' = NewBlock(Destructed(block, var[s].self), b, var[s].dims, values)

\* variableAssignment
Assign(s, t) ==
  LET v == var[s]
      values == Promoted(var[t], v.dims)
  IN  /\ status = "running" /\ v.kind # "none" /\ var[t].kind # "none"
      /\ \/ ~Promotable(var[t], v.dims) /\ Stop
         \/ /\ Promotable(var[t], v.dims) /\ v.kind = "array"
            /\ AssignToArray(s, values)
            /\ UNCHANGED <<status, denotes>>
         \/ /\ Promotable(var[t], v.dims) /\ IsReference(v)
            /\ IF values # <<>> /\ Written(v, values) = <<>> THEN Stop
               ELSE /\ block' = [block EXCEPT ![v.self].data = IF values = <<>> THEN @ ELSE Written(v, values)]
                    /\ UNCHANGED <<var, status, denotes>>

Next ==
  \/ \E s \in Slots :
       \/ \E a \in Arrays : InitArray(s, a.dims, a.data)
       \/ \E a \in Temporaries, w \in Indices : InitFromTemporaryIndexing(s, a.dims, a.data, w)
       \/ Destruct(s)
  \/ \E s, t \in Slots :
       \/ InitFromCopy(s, t)
       \/ InitFromSelfIndexing(s, t) \/ InitFromSelfIndexingOfReference(s, t)
       \/ \E w \in Indices : InitFromVectorIndexing(s, t, w)
       \/ \E r, c \in Indices : InitFromMatrixIndexing(s, t, r, c)
       \/ Assign(s, t)

Spec == Init /\ [][Next]_vars

(***************************************************************************)
(* Properties.                                                             *)
(***************************************************************************)
Index == [scalar : BOOLEAN, at : Seq(Int)]

TypeOK ==
  /\ var \in [Slots -> [kind : {"none", "array", "self", "1d", "2d"}, dims : Seq(Nat),
                        self : Blocks \cup {NoBlock}, root : {"array", "reference"},
                        rows : Index, cols : Index]]
  /\ block \in [Blocks -> [dims : Seq(Nat), data : Seq(Int), refCount : Nat]]
  /\ status \in {"running", "stopped", "undefined"}
  /\ denotes \in [Slots -> Seq(Int)]
  /\ \A s \in Slots :
       var[s].kind # "none" /\ var[s].root = "array" <=> var[s].self \in Blocks

Holders(b) == {s \in Slots : var[s].self = b}

(***************************************************************************)
(* "the number of times m_data is pointed to; determines if we are able to *)
(* free m_data in destructor": the data of an array lives as long as some  *)
(* variable or reference needs it and no longer, whether the array itself, *)
(* the references to it or references to those are destroyed first, or the *)
(* array is assigned to in between.                                        *)
(***************************************************************************)
CountIsHolders == \A b \in Blocks : block[b].refCount = Cardinality(Holders(b))

(***************************************************************************)
(* However often a reference has been indexed, it stands for the elements  *)
(* that indexing one time after the other picks, and for no others.        *)
(***************************************************************************)
ReferencesCompose ==
  \A s \in Slots : var[s].kind \in {"1d", "2d"} => Elements(var[s]) = denotes[s]

\* The data of an array is as long as its dimensions say, whatever assignments
\* have replaced it, and every copy by reference agrees on them.
DataFitsDims ==
  \A s \in Slots : var[s].self # NoBlock =>
    /\ Len(Data(var[s])) = Sizes(block[var[s].self].dims)
    /\ var[s].kind \in {"array", "self"} => var[s].dims = block[var[s].self].dims

(***************************************************************************)
(* The elements of an array change only by an assignment to a reference    *)
(* that stands for them: an assignment to the array itself leaves what     *)
(* the references made before it stand for.  (A self-indexed array is left *)
(* out: its elements depend on the ones written before them.)              *)
(***************************************************************************)
Changed(b) == {i \in DOMAIN block[b].data : block'[b].data[i] # block[b].data[i]}

WritesGoThroughReferences ==
  [][\A b \in Blocks :
       block[b].refCount > 0 /\ block'[b].refCount > 0 /\ block'[b].data # block[b].data =>
         \E s \in Holders(b) :
           \/ var[s].kind = "self"
           \/ /\ var[s].kind \in {"1d", "2d"}
              /\ \A i \in Changed(b) : \E k \in DOMAIN denotes[s] : denotes[s][k] = i - 1]_vars
=============================================================================
