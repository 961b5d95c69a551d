-------------------------- MODULE MCArrayReferences --------------------------
(***************************************************************************)
(* Small arrays and indices for ArrayReferences.                           *)
(***************************************************************************)
EXTENDS ArrayReferences, TLC

VectorAndMatrix ==
  {[dims |-> <<2>>, data |-> <<2, 1>>], [dims |-> <<2, 2>>, data |-> <<1, 2, 2, 1>>]}

Interval == {[dims |-> <<2>>, data |-> <<1, 2>>]}

Scalar(i) == [scalar |-> TRUE, at |-> <<i>>]
Vector(at) == [scalar |-> FALSE, at |-> at]

\* One index is out of the range of two elements.
SmallIndices == {Scalar(2), Vector(<<2, 1>>), Vector(<<2>>), Vector(<<1, 3>>)}

Symmetry == Permutations(Slots) \cup Permutations(Blocks)
=============================================================================
