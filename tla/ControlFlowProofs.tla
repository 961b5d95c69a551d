-------------------------- MODULE ControlFlowProofs --------------------------
(***************************************************************************)
(* The code that is generated for blocks, conditionals, loops and jumps is *)
(* well formed and sound, for every program, when no iterator loop with    *)
(* several domains is inside a loop.                                       *)
(*                                                                         *)
(* First the IRBuilder: what each of its operations does to a function     *)
(* that is being emitted.  Then the scopes the generator is in, how their  *)
(* blocks and variables fit together, and what it takes to enter a scope,  *)
(* to leave it, and to go on to the next branch of a conditional.  Last,   *)
(* the steps of the generator, which do that.                              *)
(***************************************************************************)
EXTENDS ControlFlowCodegen, NaturalsInduction, WellFoundedInduction, FiniteSetTheorems,
        SequenceTheorems, TLAPS

BlockRecord == [placed : Nat, closed : Nat, targeted : BOOLEAN, entry : SUBSET Paths]

Function == [blocks : Seq(BlockRecord), at : Nat, paths : SUBSET Paths, faults : SUBSET Faults]

(***************************************************************************)
(* The blocks of a function under construction: those of D wait to be put  *)
(* in it, those of H are in it and wait to be filled, those of U were      *)
(* created and are not used, the builder stands in i.at, and all others    *)
(* are finished.  Nothing is wrong with the function so far.               *)
(***************************************************************************)
Arranged(i, D, H, U) ==
  /\ i \in Function /\ i.faults = {}
  /\ D \subseteq DOMAIN i.blocks /\ H \subseteq DOMAIN i.blocks /\ U \subseteq DOMAIN i.blocks
  /\ D \cap H = {} /\ D \cap U = {} /\ H \cap U = {}
  /\ i.at \in DOMAIN i.blocks /\ i.at \notin D \cup H \cup U
  /\ i.blocks[i.at].placed = 1
  /\ \A b \in D : i.blocks[b].placed = 0 /\ i.blocks[b].closed = 0
  /\ \A b \in H : i.blocks[b].placed = 1 /\ i.blocks[b].closed = 0
  /\ \A b \in U : i.blocks[b].placed = 0 /\ i.blocks[b].closed = 0 /\ ~i.blocks[b].targeted
  /\ \A b \in DOMAIN i.blocks :
       b \notin D \cup H \cup U \cup {i.at} =>
         i.blocks[b].placed = 1 /\ i.blocks[b].closed = 1

\* At most one state is expected at the entry of a block.
Expectations == {w \in [Nat -> SUBSET Paths] : \A b \in Nat : \A p, q \in w[b] : p = q}

(***************************************************************************)
(* Moreover control enters a block only in the states `want` expects of    *)
(* it, and is now in one of the states P, in a block that has (closed = 1) *)
(* or has not (closed = 0) got its terminator.                             *)
(***************************************************************************)
Emitted(i, D, H, U, want, closed, P) ==
  /\ Arranged(i, D, H, U)
  /\ want \in Expectations
  /\ \A b \in DOMAIN i.blocks : i.blocks[b].entry \subseteq want[b]
  /\ i.blocks[i.at].closed = closed
  /\ i.paths \subseteq P

\* The states of a point that can be reached in state s, or not at all.
At(reached, s) == IF reached THEN {s} ELSE {}

(***************************************************************************)
(* New blocks.                                                             *)
(***************************************************************************)
LEMMA CreateEffect ==
  ASSUME NEW i, NEW D, NEW H, NEW U, NEW want, NEW closed, NEW P,
         Emitted(i, D, H, U, want, closed, P)
  PROVE  /\ Emitted(Create(i), D, H \cup {Len(i.blocks) + 1}, U, want, closed, P)
         /\ Len(Create(i).blocks) = Len(i.blocks) + 1
         /\ Len(i.blocks) \in Nat
         /\ Create(i).paths = i.paths
<1> DEFINE n == Len(i.blocks)
           fresh == [Fresh EXCEPT !.placed = 1]
           j == Create(i)
<1>i. i \in Function /\ i.blocks \in Seq(BlockRecord) /\ n \in Nat /\ DOMAIN i.blocks = 1 .. n
  BY DEF Emitted, Arranged, Function
<1>1. j = [i EXCEPT !.blocks = Append(i.blocks, fresh)]
  BY DEF Create
<1>2. /\ fresh \in BlockRecord /\ fresh.placed = 1 /\ fresh.closed = 0
      /\ fresh.targeted = FALSE /\ fresh.entry = {}
  BY DEF BlockRecord, Fresh
<1> HIDE DEF fresh
<1>3. /\ j.blocks = Append(i.blocks, fresh) /\ j.at = i.at
      /\ j.paths = i.paths /\ j.faults = i.faults
  BY <1>1, <1>i DEF Function
<1>4. /\ j.blocks \in Seq(BlockRecord) /\ Len(j.blocks) = n + 1
      /\ DOMAIN j.blocks = 1 .. n + 1 /\ j.blocks[n + 1] = fresh
      /\ \A b \in 1 .. n : j.blocks[b] = i.blocks[b]
  BY <1>i, <1>2, <1>3
<1>5. j \in Function
  BY <1>1, <1>3, <1>4, <1>i DEF Function
<1> HIDE DEF j, n
<1>a. Arranged(i, D, H, U)
  BY DEF Emitted
<1>6. Arranged(j, D, H \cup {n + 1}, U)
  <2>1. /\ D \subseteq 1 .. n /\ H \subseteq 1 .. n /\ U \subseteq 1 .. n
        /\ i.at \in 1 .. n /\ i.faults = {}
    BY <1>a, <1>i DEF Arranged
  <2>2. D \cap (H \cup {n + 1}) = {} /\ (H \cup {n + 1}) \cap U = {} /\ D \cap U = {}
    BY <1>a, <2>1, <1>i DEF Arranged
  <2>3. j.at \in DOMAIN j.blocks /\ j.at \notin D \cup (H \cup {n + 1}) \cup U
    BY <1>a, <1>3, <1>4, <2>1, <1>i DEF Arranged
  <2>4. ASSUME NEW b \in DOMAIN j.blocks,
               b \notin D \cup (H \cup {n + 1}) \cup U \cup {j.at}
        PROVE  j.blocks[b].placed = 1 /\ j.blocks[b].closed = 1
    BY <1>a, <1>3, <1>4, <1>i, <2>4 DEF Arranged
  <2>5. /\ \A b \in D : j.blocks[b].placed = 0 /\ j.blocks[b].closed = 0
        /\ \A b \in U : j.blocks[b].placed = 0 /\ j.blocks[b].closed = 0 /\ ~j.blocks[b].targeted
        /\ j.blocks[j.at].placed = 1
    BY <1>a, <1>3, <1>4, <2>1 DEF Arranged
  <2>6. \A b \in H \cup {n + 1} : j.blocks[b].placed = 1 /\ j.blocks[b].closed = 0
    BY <1>a, <1>2, <1>4, <2>1 DEF Arranged
  <2>7. D \subseteq DOMAIN j.blocks /\ H \cup {n + 1} \subseteq DOMAIN j.blocks /\ U \subseteq DOMAIN j.blocks
    BY <1>4, <2>1, <1>i
  <2> QED  BY <1>3, <1>5, <2>1, <2>2, <2>3, <2>4, <2>5, <2>6, <2>7 DEF Arranged
<1>7. Emitted(j, D, H \cup {n + 1}, U, want, closed, P)
  <2>1. \A b \in DOMAIN j.blocks : j.blocks[b].entry \subseteq want[b]
    BY <1>2, <1>4, <1>i DEF Emitted
  <2>2. j.blocks[j.at].closed = closed
    BY <1>3, <1>4, <1>i DEF Emitted, Arranged
  <2> QED  BY <1>3, <1>6, <2>1, <2>2 DEF Emitted
<1> QED  BY <1>3, <1>4, <1>7, <1>i DEF j, n

\* A block that is not put in the function yet waits, if it is to be used.
LEMMA CreateDetachedEffect ==
  ASSUME NEW i, NEW D, NEW H, NEW U, NEW want, NEW closed, NEW P,
         Emitted(i, D, H, U, want, closed, P)
  PROVE  /\ Emitted(CreateDetached(i), D \cup {Len(i.blocks) + 1}, H, U, want, closed, P)
         /\ Emitted(CreateDetached(i), D, H, U \cup {Len(i.blocks) + 1}, want, closed, P)
         /\ Len(CreateDetached(i).blocks) = Len(i.blocks) + 1
         /\ Len(i.blocks) \in Nat
         /\ CreateDetached(i).paths = i.paths
<1> DEFINE n == Len(i.blocks)
           j == CreateDetached(i)
<1>i. i \in Function /\ i.blocks \in Seq(BlockRecord) /\ n \in Nat /\ DOMAIN i.blocks = 1 .. n
  BY DEF Emitted, Arranged, Function
<1>1. j = [i EXCEPT !.blocks = Append(i.blocks, Fresh)]
  BY DEF CreateDetached
<1>2. Fresh \in BlockRecord /\ Fresh.placed = 0 /\ Fresh.closed = 0
      /\ Fresh.targeted = FALSE /\ Fresh.entry = {}
  BY DEF BlockRecord, Fresh
<1>3. /\ j.blocks = Append(i.blocks, Fresh) /\ j.at = i.at
      /\ j.paths = i.paths /\ j.faults = i.faults
  BY <1>1, <1>i DEF Function
<1>4. /\ j.blocks \in Seq(BlockRecord) /\ Len(j.blocks) = n + 1
      /\ DOMAIN j.blocks = 1 .. n + 1 /\ j.blocks[n + 1] = Fresh
      /\ \A b \in 1 .. n : j.blocks[b] = i.blocks[b]
  BY <1>i, <1>2, <1>3
<1>5. j \in Function
  BY <1>1, <1>3, <1>4, <1>i DEF Function
<1> HIDE DEF j, n
<1>a. Arranged(i, D, H, U)
  BY DEF Emitted
<1>6. /\ D \subseteq 1 .. n /\ H \subseteq 1 .. n /\ U \subseteq 1 .. n
      /\ i.at \in 1 .. n /\ i.faults = {}
  BY <1>a, <1>i DEF Arranged
<1>7. /\ D \cap H = {} /\ D \cap U = {} /\ H \cap U = {} /\ i.at \notin D \cup H \cup U
      /\ n + 1 \notin D /\ n + 1 \notin H /\ n + 1 \notin U /\ n + 1 # i.at
  BY <1>a, <1>6, <1>i DEF Arranged
<1>8. /\ \A b \in D : j.blocks[b].placed = 0 /\ j.blocks[b].closed = 0
      /\ \A b \in H : j.blocks[b].placed = 1 /\ j.blocks[b].closed = 0
      /\ \A b \in U : j.blocks[b].placed = 0 /\ j.blocks[b].closed = 0 /\ ~j.blocks[b].targeted
      /\ j.blocks[j.at].placed = 1
  BY <1>a, <1>3, <1>4, <1>6 DEF Arranged
<1>9. ASSUME NEW b \in 1 .. n, b \notin D \cup H \cup U \cup {i.at}
      PROVE  j.blocks[b].placed = 1 /\ j.blocks[b].closed = 1
  BY <1>a, <1>4, <1>9, <1>i DEF Arranged
<1>10. /\ n + 1 \in DOMAIN j.blocks /\ 1 .. n \subseteq DOMAIN j.blocks
       /\ \A b \in DOMAIN j.blocks : b # n + 1 => b \in 1 .. n
  BY <1>4, <1>i
<1>11. Arranged(j, D \cup {n + 1}, H, U)
  <2>1. /\ \A b \in D \cup {n + 1} : j.blocks[b].placed = 0 /\ j.blocks[b].closed = 0
        /\ \A b \in DOMAIN j.blocks : b \notin (D \cup {n + 1}) \cup H \cup U \cup {j.at}
             => j.blocks[b].placed = 1 /\ j.blocks[b].closed = 1
    BY <1>2, <1>3, <1>4, <1>8, <1>9, <1>10
  <2>2. /\ D \cup {n + 1} \subseteq DOMAIN j.blocks /\ H \subseteq DOMAIN j.blocks
        /\ U \subseteq DOMAIN j.blocks /\ j.at \in DOMAIN j.blocks
        /\ j.at \notin (D \cup {n + 1}) \cup H \cup U
        /\ (D \cup {n + 1}) \cap H = {} /\ (D \cup {n + 1}) \cap U = {}
    BY <1>3, <1>6, <1>7, <1>10
  <2> QED  BY <1>3, <1>5, <1>6, <1>7, <1>8, <2>1, <2>2 DEF Arranged
<1>12. Arranged(j, D, H, U \cup {n + 1})
  <2>1. /\ \A b \in U \cup {n + 1} :
             j.blocks[b].placed = 0 /\ j.blocks[b].closed = 0 /\ ~j.blocks[b].targeted
        /\ \A b \in DOMAIN j.blocks : b \notin D \cup H \cup (U \cup {n + 1}) \cup {j.at}
             => j.blocks[b].placed = 1 /\ j.blocks[b].closed = 1
    BY <1>2, <1>3, <1>4, <1>8, <1>9, <1>10
  <2>2. /\ D \subseteq DOMAIN j.blocks /\ H \subseteq DOMAIN j.blocks
        /\ U \cup {n + 1} \subseteq DOMAIN j.blocks /\ j.at \in DOMAIN j.blocks
        /\ j.at \notin D \cup H \cup (U \cup {n + 1})
        /\ D \cap (U \cup {n + 1}) = {} /\ H \cap (U \cup {n + 1}) = {}
    BY <1>3, <1>6, <1>7, <1>10
  <2> QED  BY <1>3, <1>5, <1>6, <1>7, <1>8, <2>1, <2>2 DEF Arranged
<1>13. /\ \A b \in DOMAIN j.blocks : j.blocks[b].entry \subseteq want[b]
       /\ j.blocks[j.at].closed = closed /\ j.paths \subseteq P /\ want \in Expectations
  <2>1. ASSUME NEW b \in DOMAIN j.blocks PROVE j.blocks[b].entry \subseteq want[b]
    BY <1>2, <1>4, <1>10, <1>i DEF Emitted
  <2> QED  BY <1>3, <1>4, <1>6, <2>1 DEF Emitted
<1>14. /\ Emitted(j, D \cup {n + 1}, H, U, want, closed, P)
       /\ Emitted(j, D, H, U \cup {n + 1}, want, closed, P)
  BY <1>11, <1>12, <1>13 DEF Emitted
<1> QED  BY <1>3, <1>4, <1>14, <1>i DEF j, n

(***************************************************************************)
(* Putting a block in the function, and going on in it.                    *)
(***************************************************************************)
LEMMA PlaceEffect ==
  ASSUME NEW i, NEW D, NEW H, NEW U, NEW want, NEW closed, NEW P,
         Emitted(i, D, H, U, want, closed, P), NEW block \in D
  PROVE  /\ Emitted(Place(i, block), D \ {block}, H \cup {block}, U, want, closed, P)
         /\ Len(Place(i, block).blocks) = Len(i.blocks)
<1> DEFINE j == Place(i, block)
<1>i. i \in Function /\ i.blocks \in Seq(BlockRecord) /\ block \in DOMAIN i.blocks
  BY DEF Emitted, Arranged, Function
<1>a. Arranged(i, D, H, U)
  BY DEF Emitted
<1>1. j = [i EXCEPT !.blocks[block].placed = @ + 1]
  BY <1>i DEF Place
<1>2. /\ j.at = i.at /\ j.paths = i.paths /\ j.faults = i.faults
      /\ j.blocks = [i.blocks EXCEPT ![block].placed = @ + 1]
  BY <1>1, <1>i DEF Function
<1>3. /\ j.blocks \in Seq(BlockRecord) /\ DOMAIN j.blocks = DOMAIN i.blocks
      /\ Len(j.blocks) = Len(i.blocks)
      /\ \A b \in DOMAIN i.blocks :
           /\ j.blocks[b].placed = IF b = block THEN i.blocks[b].placed + 1 ELSE i.blocks[b].placed
           /\ j.blocks[b].closed = i.blocks[b].closed
           /\ j.blocks[b].targeted = i.blocks[b].targeted
           /\ j.blocks[b].entry = i.blocks[b].entry
  <2> DEFINE raised == [i.blocks[block] EXCEPT !.placed = @ + 1]
  <2>1. /\ raised \in BlockRecord /\ raised.placed = i.blocks[block].placed + 1
        /\ raised.closed = i.blocks[block].closed
        /\ raised.targeted = i.blocks[block].targeted
        /\ raised.entry = i.blocks[block].entry
    <3>1. i.blocks[block] \in BlockRecord
      BY <1>i
    <3> QED  BY <3>1 DEF BlockRecord
  <2>2. j.blocks = [i.blocks EXCEPT ![block] = raised]
    BY <1>2
  <2> HIDE DEF raised, j
  <2>3. /\ j.blocks \in Seq(BlockRecord) /\ DOMAIN j.blocks = DOMAIN i.blocks
        /\ Len(j.blocks) = Len(i.blocks)
        /\ j.blocks[block] = raised
        /\ \A b \in DOMAIN i.blocks : b # block => j.blocks[b] = i.blocks[b]
    BY <2>1, <2>2, <1>i
  <2> QED  BY <2>1, <2>3, <1>i
<1>4. j \in Function
  BY <1>1, <1>2, <1>3, <1>i DEF Function
<1> HIDE DEF j
<1>5. Arranged(j, D \ {block}, H \cup {block}, U)
  BY <1>2, <1>3, <1>4, <1>a, <1>i DEF Arranged
<1>6. Emitted(j, D \ {block}, H \cup {block}, U, want, closed, P)
  BY <1>2, <1>3, <1>5, <1>a DEF Emitted, Arranged
<1> QED  BY <1>3, <1>6 DEF j

\* Moving to a block that waits to be filled: the code goes on there in the states
\* that its branches brought, and the block no longer waits.
LEMMA SetInsertPointEffect ==
  ASSUME NEW i, NEW D, NEW H, NEW U, NEW want, NEW P,
         Emitted(i, D, H, U, want, 1, P), NEW block \in H, NEW Q, want[block] \subseteq Q
  PROVE  /\ Emitted(SetInsertPoint(i, block), D, H \ {block}, U, want, 0, Q)
         /\ Len(SetInsertPoint(i, block).blocks) = Len(i.blocks)
         /\ SetInsertPoint(i, block).paths = i.blocks[block].entry
<1> DEFINE j == SetInsertPoint(i, block)
<1>i. i \in Function /\ block \in DOMAIN i.blocks
      /\ i.blocks[block] \in BlockRecord
  BY DEF Emitted, Arranged, Function
<1>a. Arranged(i, D, H, U)
  BY DEF Emitted
<1>1. j = [i EXCEPT !.at = block, !.paths = i.blocks[block].entry]
  BY <1>i DEF SetInsertPoint
<1>2. /\ j.at = block /\ j.paths = i.blocks[block].entry /\ j.faults = i.faults
      /\ j.blocks = i.blocks
  BY <1>1, <1>i DEF Function
<1>3. j \in Function
  <2>1. block \in Nat /\ i.blocks[block].entry \in SUBSET Paths
    BY <1>i DEF Function, BlockRecord
  <2> QED  BY <1>1, <2>1, <1>i DEF Function
<1> HIDE DEF j
<1>4. Arranged(j, D, H \ {block}, U)
  <2>1. i.blocks[i.at].placed = 1 /\ i.blocks[i.at].closed = 1
    BY <1>a DEF Arranged, Emitted
  <2> QED  BY <1>2, <1>3, <1>a, <1>i, <2>1 DEF Arranged
<1>5. Emitted(j, D, H \ {block}, U, want, 0, Q)
  <2>1. j.paths \subseteq want[block]
    BY <1>2, <1>i DEF Emitted
  <2> QED  BY <1>2, <1>4, <1>a, <1>i, <2>1 DEF Emitted, Arranged
<1> QED  BY <1>2, <1>5 DEF j

\* A block that waits to be put in the function is put there and filled.
LEMMA PlaceAndGoEffect ==
  ASSUME NEW i, NEW D, NEW H, NEW U, NEW want, NEW P,
         Emitted(i, D, H, U, want, 1, P), NEW block \in D, NEW Q, want[block] \subseteq Q
  PROVE  /\ Emitted(SetInsertPoint(Place(i, block), block), D \ {block}, H, U, want, 0, Q)
         /\ Len(SetInsertPoint(Place(i, block), block).blocks) = Len(i.blocks)
<1> DEFINE j == Place(i, block)
<1>1. /\ Emitted(j, D \ {block}, H \cup {block}, U, want, 1, P)
      /\ Len(j.blocks) = Len(i.blocks)
  BY PlaceEffect
<1> HIDE DEF j
<1>2. block \in H \cup {block} /\ (H \cup {block}) \ {block} = H
  BY DEF Emitted, Arranged
<1>3. /\ Emitted(SetInsertPoint(j, block), D \ {block}, (H \cup {block}) \ {block}, U,
                 want, 0, Q)
      /\ Len(SetInsertPoint(j, block).blocks) = Len(j.blocks)
  BY <1>1, <1>2, SetInsertPointEffect
<1> QED  BY <1>1, <1>2, <1>3 DEF j

(***************************************************************************)
(* Instructions.  None is emitted after a terminator.                      *)
(***************************************************************************)
LEMMA NoFault ==
  ASSUME NEW i \in Function, NEW what, NEW holds, ~holds
  PROVE  Fault(i, what, holds) = i
<1> DEFINE j == Fault(i, what, holds)
<1>1. j = [i EXCEPT !.faults = i.faults]
  BY DEF Fault
<1>2. j = i
  BY <1>1 DEF Function
<1> QED  BY <1>2

\* An instruction at a place that is still open changes nothing but what it computes.
LEMMA EmitEffect ==
  ASSUME NEW i, NEW D, NEW H, NEW U, NEW want, NEW P,
         Emitted(i, D, H, U, want, 0, P)
  PROVE  Emit(i) = i
<1>1. i \in Function /\ ~(i.blocks[i.at].closed > 0)
  BY DEF Emitted, Arranged
<1> QED  BY <1>1, NoFault DEF Emit

\* A terminator hands the states of this point to its targets, which are
\* expected to be entered in them.
LEMMA TerminateEffect ==
  ASSUME NEW i, NEW D, NEW H, NEW U, NEW want, NEW P,
         Emitted(i, D, H, U, want, 0, P),
         NEW targets, targets \subseteq DOMAIN i.blocks, targets \cap U = {},
         \A b \in targets : P \subseteq want[b]
  PROVE  /\ Emitted(Terminate(i, targets), D, H, U, want, 1, {})
         /\ Len(Terminate(i, targets).blocks) = Len(i.blocks)
         /\ \A b \in targets :
              Terminate(i, targets).blocks[b].entry = i.blocks[b].entry \cup i.paths
<1> DEFINE j == Terminate(i, targets)
           after == [b \in DOMAIN i.blocks |->
                      [i.blocks[b] EXCEPT
                         !.closed   = IF b = i.at THEN @ + 1 ELSE @,
                         !.targeted = @ \/ b \in targets,
                         !.entry    = IF b \in targets THEN @ \cup i.paths ELSE @]]
<1>a. Arranged(i, D, H, U)
  BY DEF Emitted
<1>i. /\ i \in Function /\ i.blocks \in Seq(BlockRecord) /\ Len(i.blocks) \in Nat
      /\ DOMAIN i.blocks = 1 .. Len(i.blocks) /\ i.paths \in SUBSET Paths
      /\ i.at \in DOMAIN i.blocks /\ i.blocks[i.at].closed = 0
  BY <1>a DEF Arranged, Emitted, Function
<1>1. j = [i EXCEPT !.blocks = after, !.paths = {}]
  <2>1. nullptr \notin targets
    BY <1>i DEF nullptr
  <2>2. Fault(Emit(i), "nullptr", nullptr \in targets) = i
    BY <2>1, <1>i, EmitEffect, NoFault
  <2> QED  BY <2>2 DEF Terminate
<1>2. /\ j.at = i.at /\ j.paths = {} /\ j.faults = i.faults /\ j.blocks = after
  BY <1>1, <1>i DEF Function
<1>3. ASSUME NEW b \in DOMAIN i.blocks
      PROVE  /\ after[b] \in BlockRecord
             /\ after[b].placed = i.blocks[b].placed
             /\ after[b].closed = IF b = i.at THEN 1 ELSE i.blocks[b].closed
             /\ after[b].targeted = (i.blocks[b].targeted \/ b \in targets)
             /\ after[b].entry = IF b \in targets THEN i.blocks[b].entry \cup i.paths
                                 ELSE i.blocks[b].entry
  <2>1. i.blocks[b] \in BlockRecord
    BY <1>i
  <2>2. /\ i.blocks[b].placed \in Nat /\ i.blocks[b].closed \in Nat
        /\ i.blocks[b].targeted \in BOOLEAN /\ i.blocks[b].entry \in SUBSET Paths
    BY <2>1 DEF BlockRecord
  <2> DEFINE c == IF b = i.at THEN i.blocks[b].closed + 1 ELSE i.blocks[b].closed
             t == i.blocks[b].targeted \/ b \in targets
             e == IF b \in targets THEN i.blocks[b].entry \cup i.paths ELSE i.blocks[b].entry
  <2>3. after[b] = [i.blocks[b] EXCEPT !.closed = c, !.targeted = t, !.entry = e]
    OBVIOUS
  <2>4. c \in Nat /\ c = (IF b = i.at THEN 1 ELSE i.blocks[b].closed)
    BY <2>2, <1>i
  <2>5. t \in BOOLEAN /\ e \in SUBSET Paths
    BY <2>2, <1>i
  <2> HIDE DEF after, c, t, e
  <2>6. /\ after[b].placed = i.blocks[b].placed /\ after[b].closed = c
        /\ after[b].targeted = t /\ after[b].entry = e /\ after[b] \in BlockRecord
    BY <2>1, <2>3, <2>4, <2>5 DEF BlockRecord
  <2> QED  BY <2>4, <2>6 DEF t, e
<1>4. DOMAIN after = DOMAIN i.blocks
  OBVIOUS
<1> HIDE DEF j, after
<1>5. after \in Seq(BlockRecord) /\ Len(after) = Len(i.blocks)
  <2>1. after \in [1 .. Len(i.blocks) -> BlockRecord]
    <3>1. after = [b \in 1 .. Len(i.blocks) |-> after[b]]
      BY <1>4, <1>i DEF after
    <3> QED  BY <3>1, <1>3, <1>i
  <2> QED  BY <2>1, <1>i
<1>6. j \in Function
  BY <1>1, <1>5, <1>i DEF Function
<1>7. Arranged(j, D, H, U)
  <2>1. \A b \in DOMAIN i.blocks : j.blocks[b].placed = i.blocks[b].placed
    BY <1>2, <1>3
  <2>2. \A b \in DOMAIN i.blocks : b # i.at => j.blocks[b].closed = i.blocks[b].closed
    BY <1>2, <1>3
  <2>3. \A b \in U : ~j.blocks[b].targeted
    BY <1>2, <1>3, <1>a DEF Arranged
  <2>4. DOMAIN j.blocks = DOMAIN i.blocks
    BY <1>2, <1>4
  <2> QED  BY <1>2, <1>6, <1>a, <2>1, <2>2, <2>3, <2>4 DEF Arranged
<1>8. \A b \in DOMAIN j.blocks : j.blocks[b].entry \subseteq want[b]
  <2> SUFFICES ASSUME NEW b \in DOMAIN i.blocks PROVE j.blocks[b].entry \subseteq want[b]
    BY <1>2, <1>4
  <2>1. i.blocks[b].entry \subseteq want[b] /\ i.paths \subseteq P
    BY DEF Emitted
  <2> QED  BY <2>1, <1>2, <1>3
<1>9. j.blocks[j.at].closed = 1
  BY <1>2, <1>3, <1>i
<1>10. Emitted(j, D, H, U, want, 1, {})
  BY <1>2, <1>7, <1>8, <1>9 DEF Emitted
<1>11. \A b \in targets : j.blocks[b].entry = i.blocks[b].entry \cup i.paths
  BY <1>2, <1>3
<1> QED  BY <1>2, <1>5, <1>10, <1>11 DEF j

\* A branch closes the block, and its states are among those expected at its target.
LEMMA CreateBrEffect ==
  ASSUME NEW i, NEW D, NEW H, NEW U, NEW want, NEW P,
         Emitted(i, D, H, U, want, 0, P),
         NEW b \in DOMAIN i.blocks \ U, P \subseteq want[b]
  PROVE  /\ Emitted(CreateBr(i, b), D, H, U, want, 1, {})
         /\ Len(CreateBr(i, b).blocks) = Len(i.blocks)
         /\ CreateBr(i, b).blocks[b].entry = i.blocks[b].entry \cup i.paths
<1>1. {b} \subseteq DOMAIN i.blocks /\ {b} \cap U = {} /\ \A t \in {b} : P \subseteq want[t]
  OBVIOUS
<1>2. /\ Emitted(Terminate(i, {b}), D, H, U, want, 1, {})
      /\ Len(Terminate(i, {b}).blocks) = Len(i.blocks)
      /\ \A t \in {b} :
           Terminate(i, {b}).blocks[t].entry = i.blocks[t].entry \cup i.paths
  BY <1>1, TerminateEffect
<1> QED  BY <1>2 DEF CreateBr

\* A branch to one of two blocks closes the block, and both targets take its states.
LEMMA CreateCondBrEffect ==
  ASSUME NEW i, NEW D, NEW H, NEW U, NEW want, NEW P,
         Emitted(i, D, H, U, want, 0, P),
         NEW b \in DOMAIN i.blocks \ U, NEW c \in DOMAIN i.blocks \ U,
         P \subseteq want[b], P \subseteq want[c]
  PROVE  /\ Emitted(CreateCondBr(i, b, c), D, H, U, want, 1, {})
         /\ Len(CreateCondBr(i, b, c).blocks) = Len(i.blocks)
<1>1. /\ {b, c} \subseteq DOMAIN i.blocks /\ {b, c} \cap U = {}
      /\ \A t \in {b, c} : P \subseteq want[t]
  OBVIOUS
<1>2. /\ Emitted(Terminate(i, {b, c}), D, H, U, want, 1, {})
      /\ Len(Terminate(i, {b, c}).blocks) = Len(i.blocks)
  BY <1>1, TerminateEffect
<1> QED  BY <1>2 DEF CreateCondBr

(***************************************************************************)
(* Instructions that change the state: one at a time, for a point that is  *)
(* reached in one state or not at all.                                     *)
(***************************************************************************)
\* The emitted code maps the states of this point one by one.
LEMMA MapEffect ==
  ASSUME NEW i, NEW D, NEW H, NEW U, NEW want, NEW reached,
         NEW s \in Paths, NEW t \in Paths,
         Emitted(i, D, H, U, want, 0, At(reached, s)),
         NEW after, after \subseteq At(reached, t)
  PROVE  Emitted([i EXCEPT !.paths = after], D, H, U, want, 0, At(reached, t))
<1> DEFINE j == [i EXCEPT !.paths = after]
<1>1. i \in Function
  BY DEF Emitted, Arranged
<1>2. /\ j.blocks = i.blocks /\ j.at = i.at /\ j.faults = i.faults /\ j.paths = after
      /\ after \in SUBSET Paths
  BY <1>1 DEF Function, At
<1>3. j \in Function
  BY <1>1, <1>2 DEF Function
<1> HIDE DEF j
<1>4. Arranged(j, D, H, U)
  BY <1>2, <1>3 DEF Emitted, Arranged
<1>5. Emitted(j, D, H, U, want, 0, At(reached, t))
  BY <1>2, <1>4 DEF Emitted
<1> QED  BY <1>5 DEF j

\* Variables are allocated.
LEMMA AllocateEffect ==
  ASSUME NEW i, NEW D, NEW H, NEW U, NEW want, NEW reached, NEW s \in Paths,
         Emitted(i, D, H, U, want, 0, At(reached, s)),
         NEW V \in SUBSET ((0 .. MaxStatements) \X Nat)
  PROVE  /\ Emitted(Allocate(i, V), D, H, U, want, 0,
                    At(reached, [live |-> s.live \cup V, height |-> s.height]))
         /\ Allocate(i, V).blocks = i.blocks
<1> DEFINE t == [live |-> s.live \cup V, height |-> s.height]
           after == {[p EXCEPT !.live = @ \cup V] : p \in i.paths}
<1>1. Emit(i) = i
  BY EmitEffect
<1>2. Allocate(i, V) = [i EXCEPT !.paths = after]
  BY <1>1 DEF Allocate
<1>3. t \in Paths /\ t = [s EXCEPT !.live = @ \cup V]
  <2>1. s.live \cup V \in SUBSET ((0 .. MaxStatements) \X Nat) /\ s.height \in Nat
    BY DEF Paths
  <2>2. t = [s EXCEPT !.live = @ \cup V]
    BY DEF Paths
  <2> QED  BY <2>1, <2>2 DEF Paths
<1>4. after \subseteq At(reached, t)
  <2>1. \A p \in i.paths : reached /\ p = s
    BY DEF Emitted, At
  <2> QED  BY <2>1, <1>3 DEF At
<1>5. Emitted([i EXCEPT !.paths = after], D, H, U, want, 0, At(reached, t))
  BY <1>3, <1>4, MapEffect
<1>6. [i EXCEPT !.paths = after].blocks = i.blocks
  BY DEF Emitted, Arranged, Function
<1> QED  BY <1>2, <1>5, <1>6

\* Variables that are live are freed.
LEMMA FreeEffect ==
  ASSUME NEW i, NEW D, NEW H, NEW U, NEW want, NEW reached, NEW s \in Paths,
         Emitted(i, D, H, U, want, 0, At(reached, s)),
         NEW V, V \subseteq s.live
  PROVE  /\ Emitted(Free(i, V), D, H, U, want, 0,
                    At(reached, [live |-> s.live \ V, height |-> s.height]))
         /\ Free(i, V).blocks = i.blocks
<1> DEFINE t == [live |-> s.live \ V, height |-> s.height]
           after == {[p EXCEPT !.live = @ \ V] : p \in i.paths}
<1>1. Emit(i) = i
  BY EmitEffect
<1>2. \A p \in i.paths : reached /\ p = s
  BY DEF Emitted, At
<1>3. Free(i, V) = [i EXCEPT !.paths = after]
  <2>1. Fault(i, "double free", \E p \in i.paths : ~(V \subseteq p.live)) = i
    BY <1>2, NoFault DEF Emitted, Arranged
  <2> QED  BY <1>1, <2>1 DEF Free
<1>4. t \in Paths /\ t = [s EXCEPT !.live = @ \ V]
  BY DEF Paths
<1>5. after \subseteq At(reached, t)
  BY <1>2, <1>4 DEF At
<1>6. Emitted([i EXCEPT !.paths = after], D, H, U, want, 0, At(reached, t))
  BY <1>4, <1>5, MapEffect
<1>7. [i EXCEPT !.paths = after].blocks = i.blocks
  BY DEF Emitted, Arranged, Function
<1> QED  BY <1>3, <1>6, <1>7

\* The runtime stack grows by the items of a loop.
LEMMA StackAllocateEffect ==
  ASSUME NEW i, NEW D, NEW H, NEW U, NEW want, NEW reached, NEW s \in Paths,
         Emitted(i, D, H, U, want, 0, At(reached, s))
  PROVE  /\ Emitted(StackAllocate(i), D, H, U, want, 0,
                    At(reached, [live |-> s.live, height |-> s.height + 1]))
         /\ StackAllocate(i).blocks = i.blocks
<1> DEFINE t == [live |-> s.live, height |-> s.height + 1]
           after == {[p EXCEPT !.height = @ + 1] : p \in i.paths}
<1>1. Emit(i) = i
  BY EmitEffect
<1>2. StackAllocate(i) = [i EXCEPT !.paths = after]
  BY <1>1 DEF StackAllocate
<1>3. t \in Paths /\ t = [s EXCEPT !.height = @ + 1]
  BY DEF Paths
<1>4. after \subseteq At(reached, t)
  <2>1. \A p \in i.paths : reached /\ p = s
    BY DEF Emitted, At
  <2> QED  BY <2>1, <1>3 DEF At
<1>5. Emitted([i EXCEPT !.paths = after], D, H, U, want, 0, At(reached, t))
  BY <1>3, <1>4, MapEffect
<1>6. [i EXCEPT !.paths = after].blocks = i.blocks
  BY DEF Emitted, Arranged, Function
<1> QED  BY <1>2, <1>5, <1>6

\* The runtime stack goes back to a height it has been at.
LEMMA StackRestoreEffect ==
  ASSUME NEW i, NEW D, NEW H, NEW U, NEW want, NEW reached, NEW s \in Paths,
         Emitted(i, D, H, U, want, 0, At(reached, s)),
         NEW h \in Nat, NEW back \in Nat, reached => h = back /\ back <= s.height
  PROVE  /\ Emitted(StackRestore(i, h), D, H, U, want, 0,
                    At(reached, [live |-> s.live, height |-> back]))
         /\ StackRestore(i, h).blocks = i.blocks
<1> DEFINE t == [live |-> s.live, height |-> back]
           after == {[p EXCEPT !.height = h] : p \in i.paths}
<1>1. Emit(i) = i
  BY EmitEffect
<1>2. \A p \in i.paths : reached /\ p = s
  BY DEF Emitted, At
<1>3. StackRestore(i, h) = [i EXCEPT !.paths = after]
  <2>1. s.height \in Nat
    BY DEF Paths
  <2>2. \A p \in i.paths : ~(p.height < h)
    BY <1>2, <2>1
  <2>3. Fault(i, "invalid restore", \E p \in i.paths : p.height < h) = i
    BY <2>2, NoFault DEF Emitted, Arranged
  <2> QED  BY <1>1, <2>3 DEF StackRestore
<1>4. t \in Paths /\ t = [s EXCEPT !.height = back]
  BY DEF Paths
<1>5. after \subseteq At(reached, t)
  BY <1>2, <1>4 DEF At
<1>6. Emitted([i EXCEPT !.paths = after], D, H, U, want, 0, At(reached, t))
  BY <1>4, <1>5, MapEffect
<1>7. [i EXCEPT !.paths = after].blocks = i.blocks
  BY DEF Emitted, Arranged, Function
<1> QED  BY <1>3, <1>6, <1>7

\* A return that leaves nothing behind.
LEMMA CreateRetEffect ==
  ASSUME NEW i, NEW D, NEW H, NEW U, NEW want, NEW reached, NEW s,
         Emitted(i, D, H, U, want, 0, At(reached, s)),
         s.live = {} /\ s.height = 0
  PROVE  /\ Emitted(CreateRet(i), D, H, U, want, 1, {})
         /\ Len(CreateRet(i).blocks) = Len(i.blocks)
<1>1. \A p \in i.paths : p = s
  BY DEF Emitted, At
<1>2. Fault(i, "leak", \E p \in i.paths : p.live # {} \/ p.height # 0) = i
  BY <1>1, NoFault DEF Emitted, Arranged
<1>3. /\ Emitted(Terminate(i, {}), D, H, U, want, 1, {})
      /\ Len(Terminate(i, {}).blocks) = Len(i.blocks)
  BY TerminateEffect
<1> QED  BY <1>2, <1>3 DEF CreateRet

(***************************************************************************)
(* A change of view: the same function, with states expected at the blocks *)
(* that are to come, and with what is known of this point.                 *)
(***************************************************************************)
LEMMA Review ==
  ASSUME NEW i, NEW D, NEW H, NEW U, NEW want, NEW closed, NEW P,
         Emitted(i, D, H, U, want, closed, P),
         NEW other \in Expectations, \A b \in DOMAIN i.blocks : other[b] = want[b],
         NEW Q, i.paths \subseteq Q
  PROVE  Emitted(i, D, H, U, other, closed, Q)
BY DEF Emitted

(***************************************************************************)
(* The domains of an iterator loop are handled one after the other, by     *)
(* functions that are defined by recursion on their number.                *)
(***************************************************************************)
\* Induction on the numbers up to m, for a set of them.
LEMMA IntervalInduction ==
  ASSUME NEW m \in Nat, NEW T, 0 \in T, \A k \in 0 .. m - 1 : k \in T => k + 1 \in T
  PROVE  0 .. m \subseteq T
<1> DEFINE Missing == (0 .. m) \ T
           R == {pair \in Nat \X Nat : pair[1] < pair[2]}
<1>1. SUFFICES ASSUME Missing # {} PROVE FALSE
  OBVIOUS
<1>2. IsWellFoundedOn(R, Nat)
  BY NatLessThanWellFounded DEF OpToRel
<1> HIDE DEF R
<1>3. PICK n \in Missing : \A k \in Missing : ~(<<k, n>> \in R)
  <2>1. Missing \subseteq Nat
    OBVIOUS
  <2> HIDE DEF Missing
  <2> QED  BY <1>1, <1>2, <2>1, WFMin
<1>4. \A k \in Missing : ~(k < n)
  <2>1. \A x, y \in Nat : x < y => <<x, y>> \in R
    BY DEF R
  <2>2. n \in Nat /\ \A k \in Missing : k \in Nat
    OBVIOUS
  <2> QED  BY <1>3, <2>1, <2>2
<1>5. n # 0
  OBVIOUS
<1>6. n - 1 \in 0 .. m - 1 /\ n - 1 \in T /\ n - 1 + 1 = n
  BY <1>4, <1>5
<1> QED  BY <1>6

\* The blocks of the domains a to b: their headers, and the others.
Headers(own, a, b) == {own[3 * d - 2] : d \in a .. b}
Others(own, a, b) == {own[3 * d - 1] : d \in a .. b} \cup {own[3 * d] : d \in a .. b}

\* CreateDomains is the last of a chain of states, one for each domain.
LEMMA CreateDomainsUnfolds ==
  ASSUME NEW i, NEW m \in Nat
  PROVE  \E f : /\ f[0] = i
                /\ \A d \in 1 .. m : f[d] = CreateDetached(CreateDetached(Create(f[d - 1])))
                /\ CreateDomains(i, m) = f[m]
<1> DEFINE Step(f, k) == [d \in 0 .. k |->
                            IF d = 0 THEN i
                            ELSE CreateDetached(CreateDetached(Create(f[d - 1])))]
           T == {k \in 0 .. m : \E f : f = Step(f, k)}
           created == CHOOSE f : f = Step(f, m)
<1>1. 0 \in T
  <2>1. \E f : f = Step(f, 0)
    <3>1. [d \in 0 .. 0 |-> i] = Step([d \in 0 .. 0 |-> i], 0)
      OBVIOUS
    <3> QED  BY <3>1
  <2>2. 0 \in 0 .. m
    OBVIOUS
  <2> HIDE DEF Step
  <2> QED  BY <2>1, <2>2
<1>2. ASSUME NEW k \in 0 .. m - 1, k \in T PROVE k + 1 \in T
  <2>1. PICK f : f = Step(f, k)
    BY <1>2
  <2> DEFINE g == [d \in 0 .. k + 1 |->
                     IF d = k + 1 THEN CreateDetached(CreateDetached(Create(f[k]))) ELSE f[d]]
  <2>2. ASSUME NEW d \in 0 .. k + 1
        PROVE  g[d] = IF d = 0 THEN i
                      ELSE CreateDetached(CreateDetached(Create(g[d - 1])))
    <3>1. CASE d = k + 1
      BY <3>1
    <3>2. CASE d # k + 1
      <4>1. d \in 0 .. k /\ (d # 0 => d - 1 \in 0 .. k)
        BY <3>2
      <4>2. f[d] = IF d = 0 THEN i ELSE CreateDetached(CreateDetached(Create(f[d - 1])))
        BY <2>1, <4>1
      <4>3. g[d] = f[d] /\ (d # 0 => g[d - 1] = f[d - 1])
        BY <3>2, <4>1
      <4> HIDE DEF g
      <4> QED  BY <4>2, <4>3
    <3> QED  BY <3>1, <3>2
  <2>3. g = Step(g, k + 1)
    BY <2>2
  <2>4. k + 1 \in 0 .. m
    OBVIOUS
  <2> QED  BY <2>3, <2>4
<1>3. m \in T
  <2> HIDE DEF T
  <2> QED  BY <1>1, <1>2, IntervalInduction
<1>4. created = Step(created, m)
  BY <1>3
<1>5. CreateDomains(i, m) = created[m]
  BY DEF CreateDomains
<1> HIDE DEF created
<1>6. /\ created[0] = i
      /\ \A d \in 1 .. m :
           created[d] = CreateDetached(CreateDetached(Create(created[d - 1])))
  BY <1>4
<1> QED  BY <1>5, <1>6

\* One more domain has one more header and two more other blocks.
LEMMA OneMoreDomain ==
  ASSUME NEW own, NEW a \in Nat, NEW b \in Nat, a <= b + 1
  PROVE  /\ Headers(own, a, b + 1) = Headers(own, a, b) \cup {own[3 * (b + 1) - 2]}
         /\ Others(own, a, b + 1)
              = Others(own, a, b) \cup {own[3 * (b + 1) - 1], own[3 * (b + 1)]}
<1>1. a .. b + 1 = (a .. b) \cup {b + 1}
  OBVIOUS
<1> QED  BY <1>1 DEF Headers, Others

\* A loop without domains has no blocks.
LEMMA NoDomains ==
  ASSUME NEW own
  PROVE  Headers(own, 1, 0) = {} /\ Others(own, 1, 0) = {}
<1>1. 1 .. 0 = {}
  OBVIOUS
<1> QED  BY <1>1 DEF Headers, Others

\* The blocks of m domains are numbered on from block N.
Numbered(own, N, m) == \A k \in 1 .. 3 * m : own[k] = N + k

\* Creating them leaves the headers in the function, to be filled, and the
\* others outside of it.
LEMMA CreateDomainsEffect ==
  ASSUME NEW i, NEW D, NEW H, NEW U, NEW want, NEW closed, NEW P,
         Emitted(i, D, H, U, want, closed, P),
         NEW m \in Nat, NEW own, Numbered(own, Len(i.blocks), m)
  PROVE  /\ Emitted(CreateDomains(i, m), D \cup Others(own, 1, m),
                    H \cup Headers(own, 1, m), U, want, closed, P)
         /\ Len(CreateDomains(i, m).blocks) = Len(i.blocks) + 3 * m
         /\ CreateDomains(i, m).paths = i.paths
<1> DEFINE n == Len(i.blocks)
<1>1. PICK f : /\ f[0] = i
               /\ \A d \in 1 .. m : f[d] = CreateDetached(CreateDetached(Create(f[d - 1])))
               /\ CreateDomains(i, m) = f[m]
  BY CreateDomainsUnfolds
<1> DEFINE So(d) == /\ Emitted(f[d], D \cup Others(own, 1, d), H \cup Headers(own, 1, d),
                               U, want, closed, P)
                    /\ Len(f[d].blocks) = n + 3 * d
                    /\ f[d].paths = i.paths
           T == {d \in 0 .. m : So(d)}
<1>2. n \in Nat
  BY CreateEffect
<1>3. 0 \in T
  <2>1. Headers(own, 1, 0) = {} /\ Others(own, 1, 0) = {}
    BY NoDomains
  <2>2. D \cup Others(own, 1, 0) = D /\ H \cup Headers(own, 1, 0) = H
    BY <2>1
  <2>3. n = n + 3 * 0 /\ 0 \in 0 .. m
    BY <1>2
  <2> HIDE DEF n
  <2> QED  BY <1>1, <2>2, <2>3 DEF n
<1>4. ASSUME NEW k \in 0 .. m - 1, k \in T PROVE k + 1 \in T
  <2> DEFINE D0 == D \cup Others(own, 1, k)
             H0 == H \cup Headers(own, 1, k)
             i1 == Create(f[k])
             i2 == CreateDetached(i1)
             i3 == CreateDetached(i2)
  <2>0. Emitted(f[k], D0, H0, U, want, closed, P) /\ Len(f[k].blocks) = n + 3 * k
        /\ f[k].paths = i.paths
    BY <1>4
  <2> HIDE DEF D0, H0, T, n, i1, i2, i3
  <2>1. /\ Emitted(i1, D0, H0 \cup {n + 3 * k + 1}, U, want, closed, P)
        /\ Len(i1.blocks) = n + 3 * k + 1 /\ i1.paths = i.paths
    BY <2>0, CreateEffect DEF i1
  <2>2. /\ Emitted(i2, D0 \cup {n + 3 * k + 1 + 1}, H0 \cup {n + 3 * k + 1}, U, want, closed, P)
        /\ Len(i2.blocks) = n + 3 * k + 1 + 1 /\ i2.paths = i.paths
    BY <2>1, CreateDetachedEffect DEF i2
  <2>3. /\ Emitted(i3, (D0 \cup {n + 3 * k + 1 + 1}) \cup {n + 3 * k + 1 + 1 + 1},
                   H0 \cup {n + 3 * k + 1}, U, want, closed, P)
        /\ Len(i3.blocks) = n + 3 * k + 1 + 1 + 1 /\ i3.paths = i.paths
    BY <2>2, CreateDetachedEffect DEF i3
  <2>4. k + 1 \in 1 .. m /\ k + 1 - 1 = k /\ k + 1 \in 0 .. m /\ k \in Nat /\ 1 <= k + 1
    OBVIOUS
  <2>5. f[k + 1] = i3
    BY <1>1, <2>4 DEF i1, i2, i3
  <2>6. /\ own[3 * (k + 1) - 2] = n + 3 * k + 1
        /\ own[3 * (k + 1) - 1] = n + 3 * k + 1 + 1
        /\ own[3 * (k + 1)] = n + 3 * k + 1 + 1 + 1
    <3>1. /\ 3 * (k + 1) - 2 = 3 * k + 1 /\ 3 * (k + 1) - 1 = 3 * k + 2
          /\ 3 * (k + 1) = 3 * k + 3
          /\ 3 * k + 1 \in 1 .. 3 * m /\ 3 * k + 2 \in 1 .. 3 * m /\ 3 * k + 3 \in 1 .. 3 * m
      OBVIOUS
    <3>2. /\ own[3 * k + 1] = n + (3 * k + 1) /\ own[3 * k + 2] = n + (3 * k + 2)
          /\ own[3 * k + 3] = n + (3 * k + 3)
      BY <3>1 DEF n, Numbered
    <3>3. /\ n + (3 * k + 1) = n + 3 * k + 1 /\ n + (3 * k + 2) = n + 3 * k + 1 + 1
          /\ n + (3 * k + 3) = n + 3 * k + 1 + 1 + 1
      BY <1>2
    <3> QED  BY <3>1, <3>2, <3>3
  <2>7. /\ Headers(own, 1, k + 1) = Headers(own, 1, k) \cup {own[3 * (k + 1) - 2]}
        /\ Others(own, 1, k + 1) =
             Others(own, 1, k) \cup {own[3 * (k + 1) - 1], own[3 * (k + 1)]}
    BY <2>4, OneMoreDomain
  <2>8. /\ H \cup Headers(own, 1, k + 1) = H0 \cup {n + 3 * k + 1}
        /\ D \cup Others(own, 1, k + 1)
             = (D0 \cup {n + 3 * k + 1 + 1}) \cup {n + 3 * k + 1 + 1 + 1}
    BY <2>6, <2>7 DEF D0, H0
  <2>9. n + 3 * k + 1 + 1 + 1 = n + 3 * (k + 1)
    BY <1>2
  <2>10. So(k + 1)
    BY <2>3, <2>5, <2>8, <2>9
  <2> QED  BY <2>4, <2>10 DEF T
<1>5. m \in T
  <2> HIDE DEF T
  <2>1. 0 .. m \subseteq T
    BY <1>3, <1>4, IntervalInduction
  <2> QED  BY <2>1
<1> QED  BY <1>1, <1>5

\* The blocks of a loop with m domains, all entered in the states Q.
LoopBlocks(own, m, i, U, want, Q) ==
  /\ Len(own) = 3 * m
  /\ \A k \in 1 .. 3 * m : own[k] \in DOMAIN i.blocks \ U /\ want[own[k]] = Q
  /\ \A k, l \in 1 .. 3 * m : own[k] = own[l] => k = l

HeaderOf(own, d) == own[3 * d - 2]

\* The test of a domain fills its header and ends it with a branch to the body and
\* the exit, so the header no longer waits.
LEMMA TestDomainEffect ==
  ASSUME NEW i, NEW D, NEW H, NEW U, NEW want,
         Emitted(i, D, H, U, want, 1, {}),
         NEW m \in Nat, NEW own, NEW Q, LoopBlocks(own, m, i, U, want, Q),
         NEW d \in 1 .. m, HeaderOf(own, d) \in H
  PROVE  /\ Emitted(TestDomain(i, own, d), D, H \ {HeaderOf(own, d)}, U, want, 1, {})
         /\ Len(TestDomain(i, own, d).blocks) = Len(i.blocks)
<1> DEFINE header == HeaderOf(own, d)
           onwards == IF 3 * d = Len(own) THEN own[3 * d - 1] ELSE own[3 * d + 1]
           merge == own[3 * d]
           j == SetInsertPoint(i, header)
<1>1. /\ 3 * d - 2 \in 1 .. 3 * m /\ 3 * d - 1 \in 1 .. 3 * m /\ 3 * d \in 1 .. 3 * m
      /\ 3 * d # 3 * m => 3 * d + 1 \in 1 .. 3 * m
  OBVIOUS
<1>2. /\ onwards \in DOMAIN i.blocks \ U /\ want[onwards] = Q
      /\ merge \in DOMAIN i.blocks \ U /\ want[merge] = Q
      /\ want[header] \subseteq Q
  BY <1>1 DEF LoopBlocks, HeaderOf
<1>3. TestDomain(i, own, d) = CreateCondBr(j, onwards, merge)
  BY DEF TestDomain, HeaderOf
<1> HIDE DEF onwards, merge
<1>4. /\ Emitted(j, D, H \ {header}, U, want, 0, Q)
      /\ Len(j.blocks) = Len(i.blocks)
  BY ONLY <1>2, header \in H, Emitted(i, D, H, U, want, 1, {}), SetInsertPointEffect
<1>5. DOMAIN j.blocks = DOMAIN i.blocks
  <2>1. i.blocks \in Seq(BlockRecord) /\ j.blocks \in Seq(BlockRecord)
    BY <1>4 DEF Emitted, Arranged, Function
  <2> QED  BY <1>4, <2>1
<1> HIDE DEF j
<1>6. /\ Emitted(CreateCondBr(j, onwards, merge), D, H \ {header}, U, want, 1, {})
      /\ Len(CreateCondBr(j, onwards, merge).blocks) = Len(j.blocks)
  <2>1. /\ onwards \in DOMAIN j.blocks \ U /\ merge \in DOMAIN j.blocks \ U
        /\ Q \subseteq want[onwards] /\ Q \subseteq want[merge]
    BY <1>2, <1>5
  <2> QED  BY <1>4, <2>1, CreateCondBrEffect
<1> QED  BY <1>3, <1>4, <1>6

\* What the blocks of a loop are does not depend on how many others there are.
LEMMA LoopBlocksStay ==
  ASSUME NEW i, NEW j, NEW D, NEW H, NEW U, NEW want, NEW closed, NEW P,
         NEW D2, NEW H2, NEW closed2, NEW P2,
         Emitted(i, D, H, U, want, closed, P), Emitted(j, D2, H2, U, want, closed2, P2),
         Len(i.blocks) <= Len(j.blocks),
         NEW m \in Nat, NEW own, NEW Q, LoopBlocks(own, m, i, U, want, Q)
  PROVE  LoopBlocks(own, m, j, U, want, Q)
<1>1. i.blocks \in Seq(BlockRecord) /\ j.blocks \in Seq(BlockRecord)
  BY DEF Emitted, Arranged, Function
<1>2. DOMAIN i.blocks \subseteq DOMAIN j.blocks
  BY <1>1
<1> QED  BY <1>2 DEF LoopBlocks

\* TestDomains is the last of a chain of states, one for each domain.
LEMMA TestDomainsUnfolds ==
  ASSUME NEW i, NEW own, NEW m \in Nat
  PROVE  \E f : /\ f[0] = i
                /\ \A d \in 1 .. m : f[d] = TestDomain(f[d - 1], own, d)
                /\ TestDomains(i, own, m) = f[m]
<1> DEFINE Step(f, k) == [d \in 0 .. k |-> IF d = 0 THEN i ELSE TestDomain(f[d - 1], own, d)]
           T == {k \in 0 .. m : \E f : f = Step(f, k)}
           tested == CHOOSE f : f = Step(f, m)
<1>1. 0 \in T
  <2>1. \E f : f = Step(f, 0)
    <3>1. [d \in 0 .. 0 |-> i] = Step([d \in 0 .. 0 |-> i], 0)
      OBVIOUS
    <3> QED  BY <3>1
  <2>2. 0 \in 0 .. m
    OBVIOUS
  <2> HIDE DEF Step
  <2> QED  BY <2>1, <2>2
<1>2. ASSUME NEW k \in 0 .. m - 1, k \in T PROVE k + 1 \in T
  <2>1. PICK f : f = Step(f, k)
    BY <1>2
  <2> DEFINE g == [d \in 0 .. k + 1 |->
                     IF d = k + 1 THEN TestDomain(f[k], own, k + 1) ELSE f[d]]
  <2>2. ASSUME NEW d \in 0 .. k + 1
        PROVE  g[d] = IF d = 0 THEN i ELSE TestDomain(g[d - 1], own, d)
    <3>1. CASE d = k + 1
      BY <3>1
    <3>2. CASE d # k + 1
      <4>1. d \in 0 .. k /\ (d # 0 => d - 1 \in 0 .. k)
        BY <3>2
      <4>2. f[d] = IF d = 0 THEN i ELSE TestDomain(f[d - 1], own, d)
        BY <2>1, <4>1
      <4>3. g[d] = f[d] /\ (d # 0 => g[d - 1] = f[d - 1])
        BY <3>2, <4>1
      <4> HIDE DEF g
      <4> QED  BY <4>2, <4>3
    <3> QED  BY <3>1, <3>2
  <2>3. g = Step(g, k + 1)
    BY <2>2
  <2>4. k + 1 \in 0 .. m
    OBVIOUS
  <2> QED  BY <2>3, <2>4
<1>3. m \in T
  <2> HIDE DEF T
  <2> QED  BY <1>1, <1>2, IntervalInduction
<1>4. tested = Step(tested, m)
  BY <1>3
<1>5. TestDomains(i, own, m) = tested[m]
  BY DEF TestDomains
<1> HIDE DEF tested
<1>6. /\ tested[0] = i
      /\ \A d \in 1 .. m : tested[d] = TestDomain(tested[d - 1], own, d)
  BY <1>4
<1> QED  BY <1>5, <1>6

\* The tests of all domains fill all headers.
LEMMA TestDomainsEffect ==
  ASSUME NEW i, NEW D, NEW H, NEW U, NEW want,
         Emitted(i, D, H, U, want, 1, {}),
         NEW m \in Nat, NEW own, NEW Q, LoopBlocks(own, m, i, U, want, Q),
         Headers(own, 1, m) \subseteq H
  PROVE  /\ Emitted(TestDomains(i, own, m), D, H \ Headers(own, 1, m), U, want, 1, {})
         /\ Len(TestDomains(i, own, m).blocks) = Len(i.blocks)
<1>1. PICK f : /\ f[0] = i
               /\ \A d \in 1 .. m : f[d] = TestDomain(f[d - 1], own, d)
               /\ TestDomains(i, own, m) = f[m]
  BY TestDomainsUnfolds
<1> DEFINE So(d) == /\ Emitted(f[d], D, H \ Headers(own, 1, d), U, want, 1, {})
                    /\ Len(f[d].blocks) = Len(i.blocks)
           T == {d \in 0 .. m : So(d)}
<1>2. Len(i.blocks) \in Nat
  BY CreateEffect
<1>3. 0 \in T
  <2>1. H \ Headers(own, 1, 0) = H /\ 0 \in 0 .. m
    BY NoDomains
  <2> QED  BY <1>1, <2>1
<1>4. ASSUME NEW k \in 0 .. m - 1, k \in T PROVE k + 1 \in T
  <2> DEFINE H0 == H \ Headers(own, 1, k)
             header == HeaderOf(own, k + 1)
  <2>0. Emitted(f[k], D, H0, U, want, 1, {}) /\ Len(f[k].blocks) = Len(i.blocks)
    BY <1>4
  <2>1. k + 1 \in 1 .. m /\ k + 1 - 1 = k /\ k + 1 \in 0 .. m /\ k \in Nat /\ 1 <= k + 1
    OBVIOUS
  <2>2. header \in H0
    <3>1. header \in Headers(own, 1, m)
      BY <2>1 DEF Headers, HeaderOf
    <3>2. ASSUME NEW d \in 1 .. k PROVE own[3 * d - 2] # header
      <4>1. /\ 3 * d - 2 \in 1 .. 3 * m /\ 3 * (k + 1) - 2 \in 1 .. 3 * m
            /\ 3 * d - 2 # 3 * (k + 1) - 2
        OBVIOUS
      <4> QED  BY <4>1 DEF LoopBlocks, HeaderOf
    <3>3. header \notin Headers(own, 1, k)
      BY <3>2 DEF Headers
    <3> QED  BY <3>1, <3>3
  <2> DEFINE d == k + 1
  <2>d. d \in 1 .. m /\ header = HeaderOf(own, d)
    BY <2>1
  <2> HIDE DEF H0, T, header
  <2>3. LoopBlocks(own, m, f[k], U, want, Q)
    BY <2>0, <1>2, LoopBlocksStay
  <2>4. /\ Emitted(TestDomain(f[k], own, d), D, H0 \ {header}, U, want, 1, {})
        /\ Len(TestDomain(f[k], own, d).blocks) = Len(f[k].blocks)
    <3> DEFINE j == f[k]
    <3>1. Emitted(j, D, H0, U, want, 1, {}) /\ LoopBlocks(own, m, j, U, want, Q)
      BY <2>0, <2>3
    <3> HIDE DEF d, j
    <3>2. ASSUME NEW e \in 1 .. m, HeaderOf(own, e) \in H0
          PROVE  /\ Emitted(TestDomain(j, own, e), D, H0 \ {HeaderOf(own, e)}, U, want, 1, {})
                 /\ Len(TestDomain(j, own, e).blocks) = Len(j.blocks)
      BY ONLY m \in Nat, <3>1, <3>2, TestDomainEffect
    <3> QED  BY <3>2, <2>2, <2>d DEF j
  <2>5. H0 \ {header} = H \ Headers(own, 1, k + 1)
    <3>1. Headers(own, 1, k + 1) = Headers(own, 1, k) \cup {header}
      BY ONLY k \in Nat, <2>1, OneMoreDomain DEF header, HeaderOf
    <3> QED  BY <3>1 DEF H0
  <2>6. f[k + 1] = TestDomain(f[k], own, k + 1)
    BY <1>1, <2>1
  <2>7. So(k + 1)
    BY <2>0, <2>4, <2>5, <2>6
  <2> QED  BY <2>1, <2>7 DEF T
<1>5. m \in T
  <2> HIDE DEF T
  <2>1. 0 .. m \subseteq T
    BY <1>3, <1>4, IntervalInduction
  <2> QED  BY <2>1
<1> QED  BY <1>1, <1>5

OthersOf(own, d) == {own[3 * d - 1], own[3 * d]}

\* They are what the block stack ends with.
OnTop(own, m) == \A k \in 1 .. 3 * m : FromTop(3 * m - k + 1) = own[k]

\* Once domain d has been left, all is done or the code branches out of it.
Closed(d) == IF d = 1 THEN 0 ELSE 1
States(d, Q) == IF d = 1 THEN Q ELSE {}

\* Leaving an outer domain puts its two blocks in the function, and the code goes on
\* behind the loop when the domain is the outermost one.
LEMMA LeaveDomainEffect ==
  ASSUME NEW i, NEW D, NEW H, NEW U, NEW want,
         Emitted(i, D, H, U, want, 1, {}),
         NEW m \in Nat, NEW own, NEW Q, LoopBlocks(own, m, i, U, want, Q),
         OnTop(own, m),
         NEW d \in 1 .. m, d # m, OthersOf(own, d) \subseteq D
  PROVE  /\ Emitted(LeaveDomain(i, m, d), D \ OthersOf(own, d), H, U, want,
                    Closed(d), States(d, Q))
         /\ Len(LeaveDomain(i, m, d).blocks) = Len(i.blocks)
<1> DEFINE header == own[3 * d - 2]
           body == own[3 * d - 1]
           merge == own[3 * d]
           i1 == SetInsertPoint(Place(i, body), body)
           i2 == CreateBr(i1, header)
           i3 == SetInsertPoint(Place(i2, merge), merge)
           offset == 3 * (m - d + 1)
<1>1. /\ FromTop(offset) = header /\ FromTop(offset - 1) = body /\ FromTop(offset - 2) = merge
      /\ d # 1 => FromTop(offset + 2) = own[3 * d - 4]
  <2>1. /\ 3 * m - (3 * d - 2) + 1 = offset /\ 3 * m - (3 * d - 1) + 1 = offset - 1
        /\ 3 * m - 3 * d + 1 = offset - 2 /\ 3 * m - (3 * d - 4) + 1 = offset + 2
        /\ 3 * d - 2 \in 1 .. 3 * m /\ 3 * d - 1 \in 1 .. 3 * m /\ 3 * d \in 1 .. 3 * m
        /\ d # 1 => 3 * d - 4 \in 1 .. 3 * m
    OBVIOUS
  <2> HIDE DEF offset
  <2> QED  BY <2>1 DEF OnTop
<1>2. LeaveDomain(i, m, d) = IF d = 1 THEN i3 ELSE CreateBr(i3, own[3 * d - 4])
  BY <1>1 DEF LeaveDomain
<1> HIDE DEF offset
<1>3. /\ 3 * d - 2 \in 1 .. 3 * m /\ 3 * d - 1 \in 1 .. 3 * m /\ 3 * d \in 1 .. 3 * m
      /\ d # 1 => 3 * d - 4 \in 1 .. 3 * m
      /\ 3 * d - 1 # 3 * d
  OBVIOUS
<1>4. /\ \A k \in 1 .. 3 * m : want[own[k]] = Q
      /\ body # merge /\ want[body] \subseteq Q /\ want[merge] \subseteq Q /\ want[header] = Q
  BY <1>3 DEF LoopBlocks
<1>b. body \in D /\ merge \in D
  BY DEF OthersOf
<1> HIDE DEF body, merge
<1>5. /\ Emitted(i1, D \ {body}, H, U, want, 0, Q) /\ Len(i1.blocks) = Len(i.blocks)
  BY ONLY Emitted(i, D, H, U, want, 1, {}), <1>4, <1>b, PlaceAndGoEffect
<1>6. LoopBlocks(own, m, i1, U, want, Q)
  <2>1. Len(i.blocks) \in Nat
    BY CreateEffect
  <2> HIDE DEF i1
  <2> QED  BY <1>5, <2>1, LoopBlocksStay
<1>7. /\ Emitted(i2, D \ {body}, H, U, want, 1, {}) /\ Len(i2.blocks) = Len(i.blocks)
  <2>1. header \in DOMAIN i1.blocks \ U /\ Q \subseteq want[header]
    BY <1>3, <1>4, <1>6 DEF LoopBlocks
  <2> HIDE DEF i1, header
  <2> QED  BY <1>5, <2>1, CreateBrEffect
<1>8. /\ Emitted(i3, (D \ {body}) \ {merge}, H, U, want, 0, Q)
      /\ Len(i3.blocks) = Len(i.blocks)
  <2>1. merge \in D \ {body}
    BY <1>4, <1>b
  <2> HIDE DEF i1, i2, header
  <2> QED  BY ONLY <1>4, <1>7, <2>1, PlaceAndGoEffect
<1>9. (D \ {body}) \ {merge} = D \ OthersOf(own, d)
  BY DEF OthersOf, body, merge
<1>10. CASE d = 1
  BY <1>2, <1>8, <1>9, <1>10 DEF Closed, States
<1>11. CASE d # 1
  <2> HIDE DEF i3
  <2>1. LoopBlocks(own, m, i3, U, want, Q)
    <3>1. Len(i.blocks) \in Nat
      BY CreateEffect
    <3> QED  BY <1>8, <3>1, LoopBlocksStay
  <2>2. own[3 * d - 4] \in DOMAIN i3.blocks \ U /\ Q \subseteq want[own[3 * d - 4]]
    BY <1>3, <1>4, <1>11, <2>1 DEF LoopBlocks
  <2>3. /\ Emitted(CreateBr(i3, own[3 * d - 4]), (D \ {body}) \ {merge}, H, U, want, 1, {})
        /\ Len(CreateBr(i3, own[3 * d - 4]).blocks) = Len(i3.blocks)
    BY <1>8, <2>2, CreateBrEffect
  <2> QED  BY <1>2, <1>8, <1>9, <1>11, <2>3 DEF Closed, States
<1> QED  BY <1>10, <1>11

\* LeaveDomains is the last of a chain of states, from the inner domains outwards.
LEMMA LeaveDomainsUnfolds ==
  ASSUME NEW i, NEW m \in Nat \ {0}
  PROVE  \E f : /\ f[0] = i
                /\ \A d \in 1 .. m - 1 : f[d] = LeaveDomain(f[d - 1], m, m - d)
                /\ LeaveDomains(i, m) = f[m - 1]
<1> DEFINE Step(f, k) == [d \in 0 .. k |-> IF d = 0 THEN i ELSE LeaveDomain(f[d - 1], m, m - d)]
           T == {k \in 0 .. m - 1 : \E f : f = Step(f, k)}
           left == CHOOSE f : f = Step(f, m - 1)
<1>m. m - 1 \in Nat
  OBVIOUS
<1>1. 0 \in T
  <2>1. \E f : f = Step(f, 0)
    <3>1. [d \in 0 .. 0 |-> i] = Step([d \in 0 .. 0 |-> i], 0)
      OBVIOUS
    <3> QED  BY <3>1
  <2>2. 0 \in 0 .. m - 1
    OBVIOUS
  <2> HIDE DEF Step
  <2> QED  BY <2>1, <2>2
<1>2. ASSUME NEW k \in 0 .. m - 1 - 1, k \in T PROVE k + 1 \in T
  <2>1. PICK f : f = Step(f, k)
    BY <1>2
  <2> DEFINE g == [d \in 0 .. k + 1 |->
                     IF d = k + 1 THEN LeaveDomain(f[k], m, m - (k + 1)) ELSE f[d]]
  <2>2. ASSUME NEW d \in 0 .. k + 1
        PROVE  g[d] = IF d = 0 THEN i ELSE LeaveDomain(g[d - 1], m, m - d)
    <3>1. CASE d = k + 1
      BY <3>1
    <3>2. CASE d # k + 1
      <4>1. d \in 0 .. k /\ (d # 0 => d - 1 \in 0 .. k)
        BY <3>2
      <4>2. f[d] = IF d = 0 THEN i ELSE LeaveDomain(f[d - 1], m, m - d)
        BY <2>1, <4>1
      <4>3. g[d] = f[d] /\ (d # 0 => g[d - 1] = f[d - 1])
        BY <3>2, <4>1
      <4> HIDE DEF g
      <4> QED  BY <4>2, <4>3
    <3> QED  BY <3>1, <3>2
  <2>3. g = Step(g, k + 1)
    BY <2>2
  <2>4. k + 1 \in 0 .. m - 1
    OBVIOUS
  <2> QED  BY <2>3, <2>4
<1>3. m - 1 \in T
  <2> HIDE DEF T
  <2>1. 0 .. m - 1 \subseteq T
    BY <1>m, <1>1, <1>2, IntervalInduction
  <2> QED  BY <2>1, <1>m
<1>4. left = Step(left, m - 1)
  BY <1>3
<1>5. LeaveDomains(i, m) = left[m - 1]
  BY DEF LeaveDomains
<1> HIDE DEF left
<1>6. /\ left[0] = i
      /\ \A d \in 1 .. m - 1 : left[d] = LeaveDomain(left[d - 1], m, m - d)
  BY <1>4
<1> QED  BY <1>5, <1>6

\* All the domains outside of the innermost one are left, which has been.
LEMMA LeaveDomainsEffect ==
  ASSUME NEW i, NEW D, NEW H, NEW U, NEW want,
         NEW m \in Nat, m # 0, NEW own, NEW Q, LoopBlocks(own, m, i, U, want, Q),
         Emitted(i, D, H, U, want, Closed(m), States(m, Q)),
         OnTop(own, m),
         Others(own, 1, m - 1) \subseteq D
  PROVE  /\ Emitted(LeaveDomains(i, m), D \ Others(own, 1, m - 1), H, U, want, 0, Q)
         /\ Len(LeaveDomains(i, m).blocks) = Len(i.blocks)
<1>1. PICK f : /\ f[0] = i
               /\ \A d \in 1 .. m - 1 : f[d] = LeaveDomain(f[d - 1], m, m - d)
               /\ LeaveDomains(i, m) = f[m - 1]
  BY LeaveDomainsUnfolds
<1> DEFINE So(d) == /\ Emitted(f[d], D \ Others(own, m - d, m - 1), H, U, want,
                               IF d = m - 1 THEN 0 ELSE 1, IF d = m - 1 THEN Q ELSE {})
                    /\ Len(f[d].blocks) = Len(i.blocks)
           T == {d \in 0 .. m - 1 : So(d)}
<1>m. m - 1 \in Nat
  OBVIOUS
<1>2. Len(i.blocks) \in Nat
  BY CreateEffect
<1>3. 0 \in T
  <2>1. D \ Others(own, m - 0, m - 1) = D
    <3>1. m - 0 .. m - 1 = {}
      OBVIOUS
    <3> QED  BY <3>1 DEF Others
  <2>2. 0 \in 0 .. m - 1 /\ (0 = m - 1 <=> m = 1)
    OBVIOUS
  <2> HIDE DEF T
  <2>3. So(0)
    BY <1>1, <2>1, <2>2 DEF Closed, States
  <2> HIDE DEF So
  <2> QED  BY <2>2, <2>3 DEF T
<1>4. ASSUME NEW k \in 0 .. m - 1 - 1, k \in T PROVE k + 1 \in T
  <2> DEFINE D0 == D \ Others(own, m - k, m - 1)
             d == m - (k + 1)
             j == f[k]
  <2>0. Emitted(j, D0, H, U, want, 1, {}) /\ Len(j.blocks) = Len(i.blocks)
    <3>1. So(k) /\ k # m - 1
      BY <1>4
    <3> QED  BY <3>1
  <2>1. /\ k + 1 \in 1 .. m - 1 /\ k + 1 - 1 = k /\ k + 1 \in 0 .. m - 1 /\ k \in Nat
        /\ d \in 1 .. m - 1 /\ (d = 1 <=> k + 1 = m - 1)
    OBVIOUS
  <2>2. OthersOf(own, d) \subseteq D0
    <3>1. OthersOf(own, d) \subseteq Others(own, 1, m - 1)
      BY <2>1 DEF Others, OthersOf
    <3>2. ASSUME NEW e \in m - k .. m - 1
          PROVE  own[3 * e - 1] \notin OthersOf(own, d) /\ own[3 * e] \notin OthersOf(own, d)
      <4>1. /\ 3 * e - 1 \in 1 .. 3 * m /\ 3 * e \in 1 .. 3 * m
            /\ 3 * d - 1 \in 1 .. 3 * m /\ 3 * d \in 1 .. 3 * m
            /\ 3 * e - 1 # 3 * d - 1 /\ 3 * e - 1 # 3 * d
            /\ 3 * e # 3 * d - 1 /\ 3 * e # 3 * d
        OBVIOUS
      <4>2. \A k1, k2 \in 1 .. 3 * m : own[k1] = own[k2] => k1 = k2
        BY DEF LoopBlocks
      <4> HIDE DEF d
      <4> QED  BY <4>1, <4>2 DEF OthersOf
    <3>3. Others(own, m - k, m - 1) \cap OthersOf(own, d) = {}
      BY <3>2 DEF Others
    <3> QED  BY <3>1, <3>3
  <2>3. LoopBlocks(own, m, j, U, want, Q)
    <3> HIDE DEF j, D0
    <3> QED  BY <2>0, <1>2, LoopBlocksStay
  <2>4. /\ Emitted(LeaveDomain(j, m, d), D0 \ OthersOf(own, d), H, U, want,
                   Closed(d), States(d, Q))
        /\ Len(LeaveDomain(j, m, d).blocks) = Len(j.blocks)
    <3> HIDE DEF j, D0, d
    <3>1. ASSUME NEW e \in 1 .. m, e # m, OthersOf(own, e) \subseteq D0
          PROVE  /\ Emitted(LeaveDomain(j, m, e), D0 \ OthersOf(own, e), H, U, want,
                            Closed(e), States(e, Q))
                 /\ Len(LeaveDomain(j, m, e).blocks) = Len(j.blocks)
      BY ONLY m \in Nat, <2>0, <2>3, <3>1, LeaveDomainEffect,
              OnTop(own, m)
    <3>2. d \in 1 .. m /\ d # m
      BY <2>1
    <3> QED  BY ONLY <3>1, <3>2, <2>2
  <2>5. D0 \ OthersOf(own, d) = D \ Others(own, m - (k + 1), m - 1)
    <3>1. m - (k + 1) .. m - 1 = (m - k .. m - 1) \cup {d}
      OBVIOUS
    <3>2. Others(own, m - (k + 1), m - 1) = Others(own, m - k, m - 1) \cup OthersOf(own, d)
      <4> HIDE DEF d
      <4> QED  BY <3>1 DEF Others, OthersOf
    <3> QED  BY <3>2
  <2>6. f[k + 1] = LeaveDomain(j, m, d)
    BY <1>1, <2>1
  <2> HIDE DEF T
  <2>7. So(k + 1)
    <3> HIDE DEF j, d, D0
    <3> QED  BY <2>0, <2>1, <2>4, <2>5, <2>6 DEF Closed, States
  <2> HIDE DEF So
  <2> QED  BY <2>1, <2>7 DEF T
<1>5. m - 1 \in T
  <2> HIDE DEF T
  <2>1. 0 .. m - 1 \subseteq T
    BY <1>m, <1>3, <1>4, IntervalInduction
  <2> QED  BY <2>1, <1>m
<1>6. So(m - 1) /\ m - (m - 1) = 1
  BY <1>5
<1> QED  BY <1>1, <1>6

(***************************************************************************)
(* What the generator knows of the scopes it is in.                        *)
(***************************************************************************)
\* The variables that st statements can have declared.
Names(st) == (0 .. st) \X Nat

\* Scopes of a function with N blocks, after st statements.
Scopes(N, st) ==
  [kind : LoopKinds \cup {"subroutine", "bare", "arm"}, own : Seq(0 .. N),
   variables : SUBSET Names(st), outer : SUBSET Names(st),
   containReturn : BOOLEAN, height : Nat, elseIfs : Nat, hasElse : BOOLEAN, residual : 0 .. N]

\* The state of the generated code at the innermost point of the scopes s,
\* and where the body of scope x begins inside of them.
Lexical(s) ==
  [live |-> {Parameter} \cup UNION {s[d].variables \cup s[d].outer : d \in DOMAIN s},
   height |-> Cardinality({d \in DOMAIN s : s[d].kind = "iterator"})]

Base(s, x) ==
  [live |-> Lexical(s).live \cup x.outer,
   height |-> Lexical(s).height + (IF x.kind = "iterator" THEN 1 ELSE 0)]

\* The blocks a scope was given; those of them that wait to be put in the
\* function; and those that are in it and wait to be filled.
Owned(x) == ({x.own[k] : k \in DOMAIN x.own} \cup {x.residual}) \ {nullptr}

DetachedOf(x) ==
  IF x.kind = "arm"
  THEN {x.own[3]} \cup (IF x.hasElse THEN {x.own[2]} ELSE {})
         \cup (IF x.elseIfs > 0 /\ x.residual = nullptr THEN {x.own[1]} ELSE {})
  ELSE IF x.kind = "iterator"
       THEN Others(x.own, 1, Len(x.own) \div 3 - 1) \cup {x.own[Len(x.own)]}
       ELSE IF IsLoop(x) THEN {x.own[3]} ELSE {}

BegunOf(x) ==
  IF x.kind = "arm" /\ x.elseIfs > 0 /\ x.residual # nullptr THEN {x.residual}
  ELSE IF x.kind = "postpred" THEN {x.own[2]} ELSE {}

Held(s) == UNION {Owned(s[d]) : d \in DOMAIN s}
Detached(s) == UNION {DetachedOf(s[d]) : d \in DOMAIN s}
Begun(s) == UNION {BegunOf(s[d]) : d \in DOMAIN s}

\* The blocks of a scope, by its kind.
Shape(x) ==
  /\ x.kind \in {"subroutine", "bare"} => x.own = <<>>
  /\ x.kind \in {"arm", "infinite", "prepred", "postpred"} => Len(x.own) = 3
  /\ x.kind = "iterator" => \E m \in Nat : m # 0 /\ Len(x.own) = 3 * m
  /\ \A k \in DOMAIN x.own : x.own[k] = nullptr <=> x.kind = "infinite" /\ k = 2
  /\ \A k, l \in DOMAIN x.own : x.own[k] = x.own[l] => k = l
  /\ x.residual # nullptr => x.kind = "arm" /\ \A k \in DOMAIN x.own : x.own[k] # x.residual

HasLoop(s) == \E d \in DOMAIN s : IsLoop(s[d])

(***************************************************************************)
(* Scope x fits in the scopes s: its variables and blocks are its own, and *)
(* its blocks are entered in the state its body begins in, if that can be  *)
(* reached: r is the number of scopes, from the outermost one, whose       *)
(* bodies can be.                                                          *)
(***************************************************************************)
Fits(s, x, want, U, r) ==
  /\ Shape(x)
  /\ x.kind = "subroutine" <=> s = <<>>
  /\ x.kind # "iterator" => x.outer = {}
  /\ x.outer \cap Lexical(s).live = {}
  /\ x.variables \cap Base(s, x).live = {}
  /\ Owned(x) \cap Held(s) = {}
  /\ IsLoop(x) => Owned(x) \cap U = {}
  /\ IsLoop(x) /\ HasLoop(s) => Len(x.own) = 3
  /\ \A b \in Owned(x) : want[b] = At(Len(s) < r, Base(s, x))
  /\ x.kind = "iterator" /\ Len(s) < r => x.height = Lexical(s).height

\* The states Q are expected at each of the blocks B; and what is expected at
\* the first N blocks, and which of them are used, is as it was.
Expected(want, B, Q) == \A b \in B : want[b] = Q

Extended(want2, U2, want, U, N) ==
  \A b \in 1 .. N : want2[b] = want[b] /\ (b \in U2 => b \in U)

\* Every one of the scopes fits in those around it.
Well(s, want, U, r) == \A d \in DOMAIN s : Fits(SubSeq(s, 1, d - 1), s[d], want, U, r)

(***************************************************************************)
(* One more scope.                                                         *)
(***************************************************************************)
LEMMA AppendFacts ==
  ASSUME NEW S, NEW s \in Seq(S), NEW x \in S
  PROVE  /\ Append(s, x) \in Seq(S) /\ Len(s) \in Nat /\ Len(Append(s, x)) = Len(s) + 1
         /\ DOMAIN Append(s, x) = DOMAIN s \cup {Len(s) + 1}
         /\ Len(s) + 1 \notin DOMAIN s /\ DOMAIN s = 1 .. Len(s)
         /\ Append(s, x)[Len(s) + 1] = x
         /\ \A d \in DOMAIN s : Append(s, x)[d] = s[d]
OBVIOUS

\* Changing the last element of a sequence is appending another one.
LEMMA ReplaceLast ==
  ASSUME NEW S, NEW s \in Seq(S), NEW x \in S, NEW y \in S
  PROVE  [Append(s, x) EXCEPT ![Len(s) + 1] = y] = Append(s, y)
<1> DEFINE n == Len(s)
           t == Append(s, x)
           u == Append(s, y)
           e == [t EXCEPT ![n + 1] = y]
<1>1. /\ n \in Nat /\ DOMAIN t = 1 .. n + 1 /\ DOMAIN u = 1 .. n + 1
      /\ t \in Seq(S) /\ u \in Seq(S)
      /\ u[n + 1] = y /\ \A d \in 1 .. n : t[d] = u[d]
  OBVIOUS
<1>2. t = [d \in 1 .. n + 1 |-> t[d]] /\ u = [d \in 1 .. n + 1 |-> u[d]]
  <2>1. t \in [1 .. n + 1 -> S] /\ u \in [1 .. n + 1 -> S]
    <3>1. t \in Seq(S) /\ u \in Seq(S) /\ Len(t) = n + 1 /\ Len(u) = n + 1
      OBVIOUS
    <3> HIDE DEF n, t, u
    <3> QED  BY <3>1, LenProperties
  <2> HIDE DEF t, u
  <2> QED  BY <2>1
<1> HIDE DEF n, t, u
<1>3. e = [d \in 1 .. n + 1 |-> e[d]] /\ \A d \in 1 .. n + 1 : e[d] = IF d = n + 1 THEN y ELSE t[d]
  BY <1>1
<1>4. \A d \in 1 .. n + 1 : e[d] = u[d]
  <2>1. \A d \in 1 .. n + 1 : d # n + 1 => d \in 1 .. n
    BY <1>1
  <2> HIDE DEF e
  <2> QED  BY <1>1, <1>3, <2>1
<1> HIDE DEF e
<1>5. e = u
  BY <1>2, <1>3, <1>4
<1> QED  BY <1>5 DEF e, t, u, n

\* The elements of a prefix.
LEMMA PrefixFacts ==
  ASSUME NEW S, NEW s \in Seq(S), NEW n \in 0 .. Len(s)
  PROVE  /\ SubSeq(s, 1, n) \in Seq(S) /\ Len(SubSeq(s, 1, n)) = n
         /\ \A d \in 1 .. n : SubSeq(s, 1, n)[d] = s[d]
<1>1. 1 \in Int /\ n \in Int /\ Len(s) \in Nat /\ \A i \in 1 .. n : s[i] \in S
  OBVIOUS
<1>2. /\ SubSeq(s, 1, n) \in Seq(S)
      /\ Len(SubSeq(s, 1, n)) = IF 1 <= n THEN n - 1 + 1 ELSE 0
      /\ \A i \in 1 .. n - 1 + 1 : SubSeq(s, 1, n)[i] = s[1 + i - 1]
  BY ONLY <1>1, SubSeqProperties
<1>3. (IF 1 <= n THEN n - 1 + 1 ELSE 0) = n /\ \A i \in 1 .. n : i \in 1 .. n - 1 + 1 /\ 1 + i - 1 = i
  OBVIOUS
<1>4. ASSUME NEW d \in 1 .. n PROVE SubSeq(s, 1, n)[d] = s[d]
  BY <1>2, <1>3
<1> QED  BY <1>2, <1>3, <1>4

\* The scopes are those around the innermost one, and that one.
LEMMA FrontFacts ==
  ASSUME NEW S, NEW s \in Seq(S), s # <<>>
  PROVE  /\ Front(s) \in Seq(S) /\ s[Len(s)] \in S
         /\ s = Append(Front(s), s[Len(s)])
         /\ Len(Front(s)) = Len(s) - 1 /\ Len(s) \in Nat \ {0}
<1>1. Len(s) \in Nat /\ Len(s) > 0
  OBVIOUS
<1>2. /\ Front(s) \in Seq(S) /\ Len(Front(s)) = Len(s) - 1
      /\ \A d \in 1 .. Len(s) - 1 : Front(s)[d] = s[d]
  <2>1. Len(s) - 1 \in 0 .. Len(s)
    BY <1>1
  <2> QED  BY <2>1, PrefixFacts DEF Front
<1>3. s[Len(s)] \in S
  BY <1>1
<1>4. s = Append(Front(s), s[Len(s)])
  BY <1>1, <1>2, <1>3
<1> QED  BY <1>1, <1>2, <1>3, <1>4

\* The blocks held, waiting and begun when one more scope is open.
LEMMA UnionsAppend ==
  ASSUME NEW S, NEW s \in Seq(S), NEW x \in S
  PROVE  /\ Held(Append(s, x)) = Held(s) \cup Owned(x)
         /\ Detached(Append(s, x)) = Detached(s) \cup DetachedOf(x)
         /\ Begun(Append(s, x)) = Begun(s) \cup BegunOf(x)
         /\ HasLoop(Append(s, x)) <=> HasLoop(s) \/ IsLoop(x)
<1> DEFINE t == Append(s, x)
<1>1. /\ DOMAIN t = DOMAIN s \cup {Len(s) + 1} /\ t[Len(s) + 1] = x
      /\ \A d \in DOMAIN s : t[d] = s[d]
  BY AppendFacts
<1> HIDE DEF t
<1>2. Held(t) = Held(s) \cup Owned(x)
  BY <1>1 DEF Held
<1>3. Detached(t) = Detached(s) \cup DetachedOf(x)
  BY <1>1 DEF Detached
<1>4. Begun(t) = Begun(s) \cup BegunOf(x)
  BY <1>1 DEF Begun
<1>5. HasLoop(t) <=> HasLoop(s) \/ IsLoop(x)
  BY <1>1 DEF HasLoop
<1> QED  BY <1>2, <1>3, <1>4, <1>5 DEF t

\* The state at a point that is one scope further inside.
LEMMA LexicalAppend ==
  ASSUME NEW S, NEW s \in Seq(S), NEW x \in S
  PROVE  /\ Lexical(s).height \in Nat
         /\ Lexical(Append(s, x)) =
              [live |-> Base(s, x).live \cup x.variables, height |-> Base(s, x).height]
<1> DEFINE t == Append(s, x)
           I(u) == {d \in DOMAIN u : u[d].kind = "iterator"}
<1>1. /\ DOMAIN t = DOMAIN s \cup {Len(s) + 1} /\ t[Len(s) + 1] = x
      /\ \A d \in DOMAIN s : t[d] = s[d]
      /\ Len(s) + 1 \notin DOMAIN s /\ DOMAIN s = 1 .. Len(s) /\ Len(s) \in Nat
  BY AppendFacts
<1>2. IsFiniteSet(I(s)) /\ Cardinality(I(s)) \in Nat
  <2>1. IsFiniteSet(1 .. Len(s))
    BY <1>1, FS_Interval
  <2>2. IsFiniteSet(I(s))
    BY <1>1, <2>1, FS_Subset
  <2> QED  BY <2>2, FS_CardinalityType
<1> HIDE DEF t
<1>3. Cardinality(I(t)) = Cardinality(I(s)) + (IF x.kind = "iterator" THEN 1 ELSE 0)
  <2>1. CASE x.kind = "iterator"
    <3>1. I(t) = I(s) \cup {Len(s) + 1} /\ Len(s) + 1 \notin I(s)
      BY <1>1, <2>1
    <3>2. Cardinality(I(s) \cup {Len(s) + 1}) = Cardinality(I(s)) + 1
      BY <1>2, <3>1, FS_AddElement
    <3> QED  BY <2>1, <3>1, <3>2
  <2>2. CASE x.kind # "iterator"
    <3>1. I(t) = I(s)
      BY <1>1, <2>2
    <3> HIDE DEF I
    <3> QED  BY <1>2, <2>2, <3>1
  <2> QED  BY <2>1, <2>2
<1>4. UNION {t[d].variables \cup t[d].outer : d \in DOMAIN t}
        = (UNION {s[d].variables \cup s[d].outer : d \in DOMAIN s}) \cup x.variables \cup x.outer
  BY <1>1
<1>5. Lexical(s).height = Cardinality(I(s))
  BY DEF Lexical
<1>6. Lexical(t).live = Base(s, x).live \cup x.variables
  BY <1>4 DEF Lexical, Base
<1>7. Lexical(t).height = Base(s, x).height
  BY <1>3, <1>5 DEF Lexical, Base
<1>8. Lexical(t) = [live |-> Lexical(t).live, height |-> Lexical(t).height]
  BY DEF Lexical
<1> QED  BY <1>2, <1>5, <1>6, <1>7, <1>8 DEF t

\* One more scope is well placed if the ones around it are and it fits in them.
LEMMA WellAppend ==
  ASSUME NEW S, NEW s \in Seq(S), NEW x \in S, NEW want, NEW U, NEW r
  PROVE  Well(Append(s, x), want, U, r) <=> Well(s, want, U, r) /\ Fits(s, x, want, U, r)
<1> DEFINE t == Append(s, x)
<1>1. /\ DOMAIN t = DOMAIN s \cup {Len(s) + 1} /\ t[Len(s) + 1] = x
      /\ \A d \in DOMAIN s : t[d] = s[d]
      /\ Len(s) + 1 \notin DOMAIN s /\ DOMAIN s = 1 .. Len(s) /\ Len(s) \in Nat
  BY AppendFacts
<1>2. SubSeq(t, 1, Len(s) + 1 - 1) = s
  OBVIOUS
<1>3. \A d \in DOMAIN s : SubSeq(t, 1, d - 1) = SubSeq(s, 1, d - 1)
  OBVIOUS
<1> HIDE DEF t
<1>4. (\A d \in DOMAIN s : Fits(SubSeq(t, 1, d - 1), t[d], want, U, r)) <=> Well(s, want, U, r)
  BY <1>1, <1>3 DEF Well
<1>5. Fits(SubSeq(t, 1, Len(s) + 1 - 1), t[Len(s) + 1], want, U, r) <=> Fits(s, x, want, U, r)
  BY <1>1, <1>2
<1>6. Well(t, want, U, r) <=> /\ \A d \in DOMAIN s : Fits(SubSeq(t, 1, d - 1), t[d], want, U, r)
                              /\ Fits(SubSeq(t, 1, Len(s) + 1 - 1), t[Len(s) + 1], want, U, r)
  BY <1>1 DEF Well
<1> QED  BY <1>4, <1>5, <1>6 DEF t

(***************************************************************************)
(* What scopes hold.                                                       *)
(***************************************************************************)
LEMMA DomainsOfBlocks ==
  ASSUME NEW m \in Nat
  PROVE  (3 * m) \div 3 = m
OBVIOUS

\* The blocks that wait for a scope are blocks of that scope.
LEMMA WaitingIsOwned ==
  ASSUME NEW N \in Nat, NEW st \in Nat, NEW x \in Scopes(N, st), Shape(x)
  PROVE  /\ Owned(x) \subseteq 1 .. N
         /\ DetachedOf(x) \subseteq Owned(x) /\ BegunOf(x) \subseteq Owned(x)
<1>1. /\ x.own \in Seq(0 .. N) /\ x.residual \in 0 .. N
      /\ x.kind \in LoopKinds \cup {"subroutine", "bare", "arm"}
  BY DEF Scopes
<1>2. \A k \in DOMAIN x.own : x.own[k] \in 0 .. N
  BY <1>1
<1>3. Owned(x) \subseteq 1 .. N
  BY <1>1, <1>2 DEF Owned, nullptr
<1>4. ASSUME NEW k \in DOMAIN x.own, x.kind # "infinite" \/ k # 2
      PROVE  x.own[k] \in Owned(x)
  BY <1>4 DEF Shape, Owned
<1>5. x.residual # nullptr => x.residual \in Owned(x)
  BY DEF Owned
<1>6. CASE x.kind = "iterator"
  <2>1. PICK m \in Nat : m # 0 /\ Len(x.own) = 3 * m
    BY <1>6 DEF Shape
  <2>2. Len(x.own) \div 3 = m
    BY <2>1, DomainsOfBlocks
  <2>3. ASSUME NEW k \in 1 .. 3 * m PROVE x.own[k] \in Owned(x)
    <3>1. k \in DOMAIN x.own
      BY <1>1, <2>1
    <3> QED  BY <3>1, <1>4, <1>6
  <2>4. \A d \in 1 .. m - 1 : 3 * d - 1 \in 1 .. 3 * m /\ 3 * d \in 1 .. 3 * m
    OBVIOUS
  <2>5. Others(x.own, 1, m - 1) \subseteq Owned(x)
    BY <2>3, <2>4 DEF Others
  <2>6. x.own[3 * m] \in Owned(x)
    <3>1. 3 * m \in 1 .. 3 * m
      BY <2>1
    <3> QED  BY <3>1, <2>3
  <2> QED  BY <1>3, <1>6, <2>1, <2>2, <2>5, <2>6 DEF DetachedOf, BegunOf
<1>7. CASE x.kind \in {"arm", "infinite", "prepred", "postpred"}
  <2>1. 1 \in DOMAIN x.own /\ 2 \in DOMAIN x.own /\ 3 \in DOMAIN x.own
    BY <1>1, <1>7 DEF Shape
  <2>2. x.own[3] \in Owned(x) /\ (x.kind # "infinite" => x.own[1] \in Owned(x) /\ x.own[2] \in Owned(x))
    BY <2>1, <1>4
  <2> QED  BY <1>3, <1>5, <1>7, <2>2 DEF DetachedOf, BegunOf
<1>8. CASE x.kind \in {"subroutine", "bare"}
  BY <1>3, <1>8 DEF DetachedOf, BegunOf, IsLoop, LoopKinds
<1> QED  BY <1>1, <1>6, <1>7, <1>8 DEF LoopKinds

\* More blocks and more statements only add to the scopes that there can be.
LEMMA ScopesGrow ==
  ASSUME NEW N \in Nat, NEW st \in Nat, NEW N2 \in Nat, NEW st2 \in Nat, N <= N2, st <= st2
  PROVE  /\ Names(st) \subseteq Names(st2)
         /\ Scopes(N, st) \subseteq Scopes(N2, st2)
         /\ Seq(Scopes(N, st)) \subseteq Seq(Scopes(N2, st2))
<1>1. Names(st) \subseteq Names(st2)
  BY DEF Names
<1>2. 0 .. N \subseteq 0 .. N2
  OBVIOUS
<1>3. Seq(0 .. N) \subseteq Seq(0 .. N2)
  BY <1>2, SeqMonotonic
<1>4. Scopes(N, st) \subseteq Scopes(N2, st2)
  BY <1>1, <1>2, <1>3 DEF Scopes
<1> QED  BY <1>1, <1>4, SeqMonotonic

\* The blocks of well placed scopes are blocks of the function.
LEMMA WellHeld ==
  ASSUME NEW N \in Nat, NEW st \in Nat, NEW s \in Seq(Scopes(N, st)),
         NEW want, NEW U, NEW r, Well(s, want, U, r)
  PROVE  /\ Held(s) \subseteq 1 .. N
         /\ Detached(s) \subseteq Held(s) /\ Begun(s) \subseteq Held(s)
<1>1. ASSUME NEW d \in DOMAIN s
      PROVE  /\ Owned(s[d]) \subseteq 1 .. N
             /\ DetachedOf(s[d]) \subseteq Owned(s[d]) /\ BegunOf(s[d]) \subseteq Owned(s[d])
  <2>1. s[d] \in Scopes(N, st)
    OBVIOUS
  <2>2. Shape(s[d])
    BY DEF Well, Fits
  <2> QED  BY <2>1, <2>2, WaitingIsOwned
<1> QED  BY <1>1 DEF Held, Detached, Begun

\* Scopes that fit still do when the function has more blocks.
LEMMA WellGrows ==
  ASSUME NEW N \in Nat, NEW st \in Nat, NEW s \in Seq(Scopes(N, st)),
         NEW want, NEW U, NEW r \in Nat, Well(s, want, U, r),
         NEW want2, NEW U2, NEW r2 \in Nat,
         \A b \in 1 .. N : want2[b] = want[b] /\ (b \in U2 => b \in U),
         \A d \in 1 .. Len(s) : d <= r <=> d <= r2
  PROVE  Well(s, want2, U2, r2)
<1> SUFFICES ASSUME NEW d \in DOMAIN s
             PROVE  Fits(SubSeq(s, 1, d - 1), s[d], want2, U2, r2)
  BY DEF Well
<1> DEFINE p == SubSeq(s, 1, d - 1)
           x == s[d]
<1>1. Fits(p, x, want, U, r)
  BY DEF Well
<1>2. Len(p) = d - 1 /\ d \in 1 .. Len(s) /\ d - 1 \in 0 .. Len(s)
  <2>1. d \in 1 .. Len(s) /\ d - 1 \in 0 .. Len(s)
    OBVIOUS
  <2> QED  BY <2>1, PrefixFacts
<1>3. Len(p) < r <=> Len(p) < r2
  BY <1>2
<1>4. x \in Scopes(N, st)
  OBVIOUS
<1> HIDE DEF p, x
<1>5. Owned(x) \subseteq 1 .. N
  <2>1. Shape(x)
    BY <1>1 DEF Fits
  <2> QED  BY <1>4, <2>1, WaitingIsOwned
<1>6. \A b \in Owned(x) : want2[b] = At(Len(p) < r2, Base(p, x))
  <2>1. \A b \in Owned(x) : want2[b] = At(Len(p) < r, Base(p, x))
    BY <1>1, <1>5 DEF Fits
  <2> QED  BY <2>1, <1>3 DEF At
<1>7. IsLoop(x) => Owned(x) \cap U2 = {}
  BY <1>1, <1>5 DEF Fits
<1>8. x.kind = "iterator" /\ Len(p) < r2 => x.height = Lexical(p).height
  BY <1>1, <1>3 DEF Fits
<1>9. Fits(p, x, want2, U2, r2)
  BY <1>1, <1>6, <1>7, <1>8 DEF Fits
<1> QED  BY <1>9 DEF p, x

\* The states of the generated code are states.
LEMMA LexicalType ==
  ASSUME NEW N \in Nat, NEW st \in 0 .. MaxStatements, NEW s \in Seq(Scopes(N, st)),
         NEW x \in Scopes(N, st)
  PROVE  /\ Lexical(s).live \subseteq Names(st) /\ Parameter \in Lexical(s).live
         /\ Lexical(s).height \in Nat /\ Lexical(s) \in Paths
         /\ Base(s, x).live \subseteq Names(st) /\ Base(s, x).height \in Nat
         /\ Base(s, x) \in Paths
<1>0. MaxStatements \in Nat
  BY BoundsAssumption
<1>1. /\ Parameter \in Names(st) /\ Names(st) \subseteq (0 .. MaxStatements) \X Nat
      /\ x.outer \subseteq Names(st)
  BY <1>0 DEF Parameter, Names, Scopes
<1>2. \A d \in DOMAIN s : s[d].variables \subseteq Names(st) /\ s[d].outer \subseteq Names(st)
  <2>1. \A d \in DOMAIN s : s[d] \in Scopes(N, st)
    OBVIOUS
  <2> QED  BY <2>1 DEF Scopes
<1>3. Lexical(s).live \subseteq Names(st) /\ Parameter \in Lexical(s).live
  BY <1>1, <1>2 DEF Lexical
<1>4. Lexical(s).height \in Nat
  BY LexicalAppend
<1>5. Lexical(s) = [live |-> Lexical(s).live, height |-> Lexical(s).height]
  BY DEF Lexical
<1>6. Base(s, x).live \subseteq Names(st) /\ Base(s, x).height \in Nat
  BY <1>1, <1>3, <1>4 DEF Base
<1>7. Base(s, x) = [live |-> Base(s, x).live, height |-> Base(s, x).height]
  BY DEF Base
<1> QED  BY <1>1, <1>3, <1>4, <1>5, <1>6, <1>7 DEF Paths

(***************************************************************************)
(* The block stack.  A loop that is inside a loop has three blocks, so the *)
(* blocks of a loop are found under three for each loop inside of it.      *)
(***************************************************************************)
LoopsAfter(s, d) == Cardinality({e \in d + 1 .. Len(s) : IsLoop(s[e])})

\* The sequence B has the blocks own on top when its last n are taken off.
Under(B, n, own) ==
  /\ Len(own) + n <= Len(B)
  /\ \A k \in 1 .. Len(own) : B[Len(B) - n - Len(own) + k] = own[k]

OnStack(s, B) ==
  \A d \in DOMAIN s : IsLoop(s[d]) => Under(B, 3 * LoopsAfter(s, d), s[d].own)

\* One more loop is inside of each scope when a loop is entered.
LEMMA LoopsAfterAppend ==
  ASSUME NEW S, NEW s \in Seq(S), NEW x \in S
  PROVE  /\ \A d \in DOMAIN s :
              /\ LoopsAfter(s, d) \in Nat
              /\ LoopsAfter(Append(s, x), d)
                   = LoopsAfter(s, d) + (IF IsLoop(x) THEN 1 ELSE 0)
         /\ LoopsAfter(Append(s, x), Len(s) + 1) = 0
<1> DEFINE t == Append(s, x)
           After(u, d) == {e \in d + 1 .. Len(u) : IsLoop(u[e])}
<1>1. /\ DOMAIN t = DOMAIN s \cup {Len(s) + 1} /\ t[Len(s) + 1] = x
      /\ \A d \in DOMAIN s : t[d] = s[d]
      /\ Len(s) + 1 \notin DOMAIN s /\ DOMAIN s = 1 .. Len(s) /\ Len(s) \in Nat
      /\ Len(t) = Len(s) + 1
  BY AppendFacts
<1> HIDE DEF t
<1>2. ASSUME NEW d \in DOMAIN s
      PROVE  /\ LoopsAfter(s, d) \in Nat
             /\ LoopsAfter(t, d) = LoopsAfter(s, d) + (IF IsLoop(x) THEN 1 ELSE 0)
  <2>1. IsFiniteSet(After(s, d)) /\ Cardinality(After(s, d)) \in Nat
    <3>1. IsFiniteSet(d + 1 .. Len(s))
      BY <1>1, FS_Interval
    <3>2. IsFiniteSet(After(s, d))
      BY <3>1, FS_Subset
    <3> QED  BY <3>2, FS_CardinalityType
  <2>2. Len(s) + 1 \notin After(s, d)
    BY <1>1
  <2>3. d + 1 .. Len(t) = (d + 1 .. Len(s)) \cup {Len(s) + 1}
    BY <1>1
  <2>4. CASE IsLoop(x)
    <3>1. After(t, d) = After(s, d) \cup {Len(s) + 1}
      BY <1>1, <2>3, <2>4
    <3> HIDE DEF After
    <3>2. Cardinality(After(t, d)) = Cardinality(After(s, d)) + 1
      BY <2>1, <2>2, <3>1, FS_AddElement
    <3> QED  BY <2>1, <2>4, <3>2 DEF LoopsAfter, After
  <2>5. CASE ~IsLoop(x)
    <3>1. After(t, d) = After(s, d)
      BY <1>1, <2>3, <2>5
    <3>2. Cardinality(After(t, d)) = Cardinality(After(s, d)) + 0
      <4> HIDE DEF After
      <4> QED  BY <2>1, <3>1
    <3> QED  BY <2>1, <2>5, <3>2 DEF LoopsAfter
  <2> QED  BY <2>4, <2>5
<1>3. LoopsAfter(t, Len(s) + 1) = 0
  <2>1. After(t, Len(s) + 1) = {}
    BY <1>1
  <2> QED  BY <2>1, FS_EmptySet DEF LoopsAfter
<1> QED  BY <1>2, <1>3 DEF t

\* A scope that is no loop pushes nothing.
LEMMA OnStackOther ==
  ASSUME NEW S, NEW s \in Seq(S), NEW x \in S, ~IsLoop(x), NEW B
  PROVE  OnStack(Append(s, x), B) <=> OnStack(s, B)
<1> DEFINE t == Append(s, x)
<1>1. /\ DOMAIN t = DOMAIN s \cup {Len(s) + 1} /\ t[Len(s) + 1] = x
      /\ \A d \in DOMAIN s : t[d] = s[d]
  BY AppendFacts
<1>2. \A d \in DOMAIN s : LoopsAfter(t, d) = LoopsAfter(s, d)
  BY LoopsAfterAppend
<1> HIDE DEF t
<1>3. OnStack(t, B) <=> OnStack(s, B)
  BY <1>1, <1>2 DEF OnStack
<1> QED  BY <1>3 DEF t

\* A loop that is entered has its blocks on top of the block stack, and those of the
\* loops around it stay under them.
LEMMA OnStackPush ==
  ASSUME NEW S, NEW s \in Seq(S), NEW x \in S, IsLoop(x), NEW N, x.own \in Seq(N),
         NEW B \in Seq(N), OnStack(s, B), HasLoop(s) => Len(x.own) = 3,
         \A d \in DOMAIN s : s[d].own \in Seq(N)
  PROVE  OnStack(Append(s, x), B \o x.own)
<1> DEFINE t == Append(s, x)
           C == B \o x.own
<1>1. /\ DOMAIN t = DOMAIN s \cup {Len(s) + 1} /\ t[Len(s) + 1] = x
      /\ \A d \in DOMAIN s : t[d] = s[d]
  BY AppendFacts
<1>2. /\ \A d \in DOMAIN s : LoopsAfter(t, d) = LoopsAfter(s, d) + 1 /\ LoopsAfter(s, d) \in Nat
      /\ LoopsAfter(t, Len(s) + 1) = 0
  BY LoopsAfterAppend
<1>3. /\ Len(B) \in Nat /\ Len(x.own) \in Nat /\ Len(C) = Len(B) + Len(x.own)
      /\ \A k \in 1 .. Len(B) : C[k] = B[k]
      /\ \A k \in 1 .. Len(x.own) : C[Len(B) + k] = x.own[k]
  OBVIOUS
<1> HIDE DEF t, C
<1>4. ASSUME NEW d \in DOMAIN s, IsLoop(s[d])
      PROVE  Under(C, 3 * LoopsAfter(t, d), s[d].own)
  <2> DEFINE own == s[d].own
             n == 3 * LoopsAfter(s, d)
  <2>1. Under(B, n, own) /\ Len(x.own) = 3 /\ n \in Nat /\ Len(own) \in Nat
    BY <1>2, <1>4 DEF OnStack, HasLoop
  <2>2. 3 * LoopsAfter(t, d) = n + 3
    BY <1>2
  <2> HIDE DEF own, n
  <2>3. Len(own) + (n + 3) <= Len(C)
    BY <1>3, <2>1 DEF Under
  <2>4. ASSUME NEW k \in 1 .. Len(own)
        PROVE  C[Len(C) - (n + 3) - Len(own) + k] = own[k]
    <3>1. /\ Len(C) - (n + 3) - Len(own) + k = Len(B) - n - Len(own) + k
          /\ Len(B) - n - Len(own) + k \in 1 .. Len(B)
      BY <1>3, <2>1 DEF Under
    <3> QED  BY <1>3, <2>1, <3>1 DEF Under
  <2>5. Under(C, n + 3, own)
    BY <2>3, <2>4 DEF Under
  <2> QED  BY <2>2, <2>5 DEF own
<1>5. Under(C, 3 * LoopsAfter(t, Len(s) + 1), x.own)
  <2>1. Len(x.own) + 0 <= Len(C)
    BY <1>3
  <2>2. \A k \in 1 .. Len(x.own) : Len(C) - 0 - Len(x.own) + k = Len(B) + k
    BY <1>3
  <2>3. Under(C, 0, x.own)
    BY <1>3, <2>1, <2>2 DEF Under
  <2>4. 3 * LoopsAfter(t, Len(s) + 1) = 0
    BY <1>2
  <2> QED  BY <2>3, <2>4
<1>6. OnStack(t, C)
  BY <1>1, <1>4, <1>5 DEF OnStack
<1> QED  BY <1>6 DEF t, C

\* The innermost loop finds its blocks on top of the block stack, and once three of
\* them are popped the loop around it finds its own.
LEMMA OnStackPop ==
  ASSUME NEW S, NEW s \in Seq(S), NEW x \in S, IsLoop(x), NEW N, NEW B \in Seq(N),
         x.own \in Seq(N), Len(x.own) >= 3, OnStack(Append(s, x), B),
         \A d \in DOMAIN s : s[d].own \in Seq(N)
  PROVE  /\ OnStack(s, SubSeq(B, 1, Len(B) - 3)) /\ SubSeq(B, 1, Len(B) - 3) \in Seq(N)
         /\ Len(x.own) <= Len(B)
         /\ \A k \in 1 .. Len(x.own) : B[Len(B) - Len(x.own) + k] = x.own[k]
<1> DEFINE t == Append(s, x)
           C == SubSeq(B, 1, Len(B) - 3)
<1>1. /\ DOMAIN t = DOMAIN s \cup {Len(s) + 1} /\ t[Len(s) + 1] = x
      /\ \A d \in DOMAIN s : t[d] = s[d]
  BY AppendFacts
<1>2. /\ \A d \in DOMAIN s : LoopsAfter(t, d) = LoopsAfter(s, d) + 1 /\ LoopsAfter(s, d) \in Nat
      /\ LoopsAfter(t, Len(s) + 1) = 0
  BY LoopsAfterAppend
<1> HIDE DEF t
<1>3. Len(B) \in Nat /\ Len(x.own) \in Nat
  OBVIOUS
<1>4. /\ Len(x.own) <= Len(B)
      /\ \A k \in 1 .. Len(x.own) : B[Len(B) - Len(x.own) + k] = x.own[k]
  <2>1. Under(B, 3 * LoopsAfter(t, Len(s) + 1), x.own)
    BY <1>1 DEF OnStack, t
  <2>2. Under(B, 0, x.own)
    <3>1. 3 * LoopsAfter(t, Len(s) + 1) = 0
      BY <1>2
    <3> QED  BY <2>1, <3>1
  <2>3. Len(x.own) + 0 = Len(x.own) /\ Len(B) - 0 = Len(B)
    BY <1>3
  <2> QED  BY <2>2, <2>3 DEF Under
<1>5. /\ C \in Seq(N) /\ Len(C) = Len(B) - 3
      /\ \A k \in 1 .. Len(B) - 3 : C[k] = B[k]
  <2>1. Len(B) - 3 \in 0 .. Len(B)
    BY <1>3, <1>4
  <2> QED  BY <2>1, PrefixFacts
<1> HIDE DEF C
<1>6. ASSUME NEW d \in DOMAIN s, IsLoop(s[d])
      PROVE  Under(C, 3 * LoopsAfter(s, d), s[d].own)
  <2> DEFINE own == s[d].own
             n == 3 * LoopsAfter(s, d)
  <2>1. 3 * LoopsAfter(t, d) = n + 3 /\ n \in Nat /\ Len(own) \in Nat
    <3>1. LoopsAfter(t, d) = LoopsAfter(s, d) + 1 /\ LoopsAfter(s, d) \in Nat
      BY <1>2
    <3>2. own \in Seq(N)
      OBVIOUS
    <3>3. 3 * LoopsAfter(t, d) = n + 3 /\ n \in Nat
      BY ONLY <3>1
    <3>4. Len(own) \in Nat
      BY ONLY <3>2
    <3> QED  BY <3>3, <3>4
  <2>2. Under(B, n + 3, own)
    <3>1. Under(B, 3 * LoopsAfter(t, d), own)
      BY <1>1, <1>6 DEF OnStack, t
    <3> QED  BY <2>1, <3>1
  <2> HIDE DEF own, n
  <2>3. Len(own) + n <= Len(C)
    BY <1>3, <1>5, <2>1, <2>2 DEF Under
  <2>4. ASSUME NEW k \in 1 .. Len(own)
        PROVE  C[Len(C) - n - Len(own) + k] = own[k]
    <3>1. /\ Len(C) - n - Len(own) + k = Len(B) - (n + 3) - Len(own) + k
          /\ Len(B) - (n + 3) - Len(own) + k \in 1 .. Len(B) - 3
      BY <1>3, <1>5, <2>1, <2>2 DEF Under
    <3> QED  BY <1>5, <2>2, <3>1 DEF Under
  <2>5. Under(C, n, own)
    BY <2>3, <2>4 DEF Under
  <2> QED  BY <2>5 DEF own, n
<1>7. OnStack(s, C)
  BY <1>6 DEF OnStack
<1> QED  BY <1>4, <1>5, <1>7 DEF C

\* In a loop there is an innermost one.
LEMMA InnermostLoopFacts ==
  ASSUME NEW S, open \in Seq(S), InLoop
  PROVE  /\ InnermostLoop \in DOMAIN open /\ IsLoop(open[InnermostLoop])
         /\ \A e \in InnermostLoop + 1 .. Len(open) : ~IsLoop(open[e])
         /\ LoopsAfter(open, InnermostLoop) = 0
<1> DEFINE n == Len(open)
           Innermost(d) == IsLoop(open[d]) /\ \A e \in d + 1 .. n : ~IsLoop(open[e])
           Found == \E d \in DOMAIN open : Innermost(d)
           T == {j \in 0 .. n : (\E d \in n - j + 1 .. n : IsLoop(open[d])) => Found}
<1>1. n \in Nat /\ DOMAIN open = 1 .. n
  OBVIOUS
<1>2. 0 \in T
  <2>1. n - 0 + 1 .. n = {} /\ 0 \in 0 .. n
    BY <1>1
  <2> QED  BY <2>1
<1>3. ASSUME NEW j \in 0 .. n - 1, j \in T PROVE j + 1 \in T
  <2>1. j + 1 \in 0 .. n /\ n - j \in 1 .. n /\ n - (j + 1) + 1 = n - j
    BY <1>1
  <2>2. ASSUME NEW d \in n - j .. n, IsLoop(open[d]) PROVE Found
    <3>1. CASE \E e \in n - j + 1 .. n : IsLoop(open[e])
      BY <1>3, <3>1
    <3>2. CASE ~\E e \in n - j + 1 .. n : IsLoop(open[e])
      <4>1. d = n - j
        <5>1. d \notin n - j + 1 .. n
          BY <2>2, <3>2
        <5>2. d \in Nat /\ n \in Nat /\ j \in Nat
          BY <1>1, <2>1
        <5> HIDE DEF n
        <5> QED  BY <5>1, <5>2
      <4>2. Innermost(n - j)
        BY <2>2, <3>2, <4>1
      <4> QED  BY <1>1, <2>1, <4>2
    <3> QED  BY <3>1, <3>2
  <2> HIDE DEF Found
  <2> QED  BY <2>1, <2>2
<1>4. n \in T
  <2> HIDE DEF T, n
  <2>1. 0 .. n \subseteq T
    BY <1>1, <1>2, <1>3, IntervalInduction
  <2> QED  BY <1>1, <2>1
<1>5. \E d \in n - n + 1 .. n : IsLoop(open[d])
  BY <1>1 DEF InLoop
<1>6. Found
  BY <1>4, <1>5
<1>7. /\ InnermostLoop \in DOMAIN open /\ IsLoop(open[InnermostLoop])
      /\ \A e \in InnermostLoop + 1 .. n : ~IsLoop(open[e])
  BY <1>6 DEF InnermostLoop
<1>8. {e \in InnermostLoop + 1 .. n : IsLoop(open[e])} = {}
  BY <1>7
<1>9. LoopsAfter(open, InnermostLoop) = 0
  BY <1>8, FS_EmptySet DEF LoopsAfter
<1> QED  BY <1>7, <1>9

(***************************************************************************)
(* The inductive invariant.                                                *)
(***************************************************************************)
\* What the generator keeps, the blocks apart.
Kept ==
  /\ statements \in 0 .. MaxStatements
  /\ hitReturnStat \in BOOLEAN
  /\ blockStack \in Seq(0 .. Len(ir.blocks))
  /\ jump \in [statement : {"none", "break", "continue"}, target : 0 .. Len(ir.blocks)]
  /\ JumpsStayInTheirLoop
  /\ open \in Seq(Scopes(Len(ir.blocks), statements))
  /\ OnStack(open, blockStack)
  /\ \A d \in DOMAIN open : open[d].containReturn <=> d = Len(open) /\ hitReturnStat

\* The function i emitted so far, in the scopes s, after a return or not.
SoFar(i, s, hit, want, U, r) ==
  IF s = <<>> THEN Emitted(i, {}, {}, U, want, 1, {})
  ELSE IF hit THEN Emitted(i, Detached(s), Begun(s), U, want, 1, {})
  ELSE Emitted(i, Detached(s), Begun(s), U, want, 0, At(Len(s) <= r, Lexical(s)))

Holds(want, U, r) ==
  Kept /\ r \in Nat /\ Well(open, want, U, r) /\ SoFar(ir, open, hitReturnStat, want, U, r)

IInv == \E want, U, r : Holds(want, U, r)

\* What shows that the invariant holds in the next state.
LEMMA HoldsNext ==
  ASSUME NEW want, NEW U, NEW r \in Nat, Kept', Well(open', want, U, r),
         SoFar(ir', open', hitReturnStat', want, U, r)
  PROVE  IInv'
BY DEF IInv, Holds

\* What keeps the rest of the generator's state as the invariant has it.
LEMMA KeptNext ==
  ASSUME NEW N \in Nat, N = Len(ir'.blocks), statements' \in 0 .. MaxStatements,
         hitReturnStat' \in BOOLEAN, blockStack' \in Seq(0 .. N),
         jump' = NoJump, open' \in Seq(Scopes(N, statements')), OnStack(open', blockStack'),
         \A d \in DOMAIN open' : open'[d].containReturn <=> d = Len(open') /\ hitReturnStat'
  PROVE  Kept'
<1>1. /\ jump' \in [statement : {"none", "break", "continue"}, target : 0 .. N]
      /\ JumpsStayInTheirLoop'
  BY DEF NoJump, JumpsStayInTheirLoop, nullptr
<1> QED  BY <1>1 DEF Kept

\* The types that emitted code has.
LEMMA EmittedType ==
  ASSUME NEW i, NEW D, NEW H, NEW U, NEW want, NEW closed, NEW P,
         Emitted(i, D, H, U, want, closed, P)
  PROVE  /\ Len(i.blocks) \in Nat /\ DOMAIN i.blocks = 1 .. Len(i.blocks)
         /\ i.blocks \in Seq(BlockRecord) /\ i.at \in 1 .. Len(i.blocks)
         /\ want \in Expectations
BY DEF Emitted, Arranged, Function

(***************************************************************************)
(* What holds of the innermost scope.                                      *)
(***************************************************************************)
LEMMA InnerFacts ==
  ASSUME NEW want, NEW U, NEW r, Holds(want, U, r), open # <<>>,
         NEW p, p = Front(open), NEW x, x = Inner,
         NEW S, S = Scopes(Len(ir.blocks), statements)
  PROVE  /\ open = Append(p, x) /\ p \in Seq(S) /\ x \in S /\ open \in Seq(S)
         /\ Len(open) \in Nat /\ Len(p) \in Nat /\ Len(open) = Len(p) + 1
         /\ Well(p, want, U, r) /\ Fits(p, x, want, U, r)
         /\ Detached(open) = Detached(p) \cup DetachedOf(x)
         /\ Begun(open) = Begun(p) \cup BegunOf(x)
         /\ Held(open) = Held(p) \cup Owned(x)
         /\ HasLoop(open) <=> HasLoop(p) \/ IsLoop(x)
         /\ Lexical(open) = [live |-> Base(p, x).live \cup x.variables,
                             height |-> Base(p, x).height]
         /\ Lexical(open) \in Paths /\ Lexical(p) \in Paths /\ Base(p, x) \in Paths
         /\ Owned(x) \subseteq 1 .. Len(ir.blocks) /\ Held(open) \subseteq 1 .. Len(ir.blocks)
         /\ DetachedOf(x) \subseteq Owned(x) /\ BegunOf(x) \subseteq Owned(x)
         /\ Detached(p) \subseteq Held(p) /\ Begun(p) \subseteq Held(p)
         /\ x.containReturn <=> hitReturnStat
         /\ Len(ir.blocks) \in Nat /\ DOMAIN ir.blocks = 1 .. Len(ir.blocks)
<1> DEFINE N == Len(ir.blocks)
<1>1. /\ open \in Seq(S) /\ statements \in 0 .. MaxStatements /\ MaxStatements \in Nat
      /\ Well(open, want, U, r)
  BY BoundsAssumption DEF Holds, Kept
<1>2. N \in Nat /\ DOMAIN ir.blocks = 1 .. N
  <2>1. \E D, H, closed, P : Emitted(ir, D, H, U, want, closed, P)
    BY DEF Holds, SoFar
  <2> QED  BY <2>1, EmittedType
<1>3. /\ p \in Seq(S) /\ x \in S /\ open = Append(p, x)
      /\ Len(p) = Len(open) - 1 /\ Len(open) \in Nat \ {0}
  BY <1>1, FrontFacts DEF Inner
<1> HIDE DEF N
<1>4. Well(p, want, U, r) /\ Fits(p, x, want, U, r)
  BY <1>1, <1>3, WellAppend
<1>5. /\ Detached(open) = Detached(p) \cup DetachedOf(x)
      /\ Begun(open) = Begun(p) \cup BegunOf(x)
      /\ Held(open) = Held(p) \cup Owned(x)
      /\ HasLoop(open) <=> HasLoop(p) \/ IsLoop(x)
  <2>1. /\ Held(Append(p, x)) = Held(p) \cup Owned(x)
        /\ Detached(Append(p, x)) = Detached(p) \cup DetachedOf(x)
        /\ Begun(Append(p, x)) = Begun(p) \cup BegunOf(x)
        /\ HasLoop(Append(p, x)) <=> HasLoop(p) \/ IsLoop(x)
    BY ONLY <1>3, UnionsAppend
  <2> QED  BY <1>3, <2>1
<1>6. Lexical(open) = [live |-> Base(p, x).live \cup x.variables, height |-> Base(p, x).height]
  BY <1>3, LexicalAppend
<1>7. S = Scopes(N, statements) /\ statements \in Nat
  BY <1>1 DEF N
<1>8. Lexical(open) \in Paths /\ Lexical(p) \in Paths /\ Base(p, x) \in Paths
  BY <1>1, <1>2, <1>3, <1>7, LexicalType
<1>9. Shape(x)
  BY <1>4 DEF Fits
<1>10. /\ Owned(x) \subseteq 1 .. N
       /\ DetachedOf(x) \subseteq Owned(x) /\ BegunOf(x) \subseteq Owned(x)
  BY <1>2, <1>3, <1>7, <1>9, WaitingIsOwned
<1>11. /\ Held(p) \subseteq 1 .. N
       /\ Detached(p) \subseteq Held(p) /\ Begun(p) \subseteq Held(p)
  BY <1>2, <1>3, <1>4, <1>7, WellHeld
<1>12. x.containReturn <=> hitReturnStat
  <2>1. Len(open) \in DOMAIN open
    BY <1>1, <1>3
  <2> QED  BY <2>1 DEF Holds, Kept, Inner
<1>13. Len(open) \in Nat /\ Len(p) \in Nat /\ Len(open) = Len(p) + 1
  BY <1>3
<1> QED  BY <1>1, <1>2, <1>3, <1>4, <1>5, <1>6, <1>8, <1>10, <1>11, <1>12, <1>13 DEF N

(***************************************************************************)
(* The properties follow from the invariant.                               *)
(***************************************************************************)
LEMMA ImpliesType ==
  ASSUME NEW want, NEW U, NEW r, Holds(want, U, r)
  PROVE  TypeOK
<1>1. \E D, H, closed, P : Emitted(ir, D, H, U, want, closed, P)
  BY DEF Holds, SoFar
<1>2. /\ ir \in Function /\ ir.at \in DOMAIN ir.blocks /\ DOMAIN ir.blocks = 1 .. Len(ir.blocks)
      /\ Len(ir.blocks) \in Nat
  BY <1>1 DEF Emitted, Arranged, Function
<1>3. /\ ir.blocks \in Seq(BlockRecord) /\ ir.paths \in SUBSET Paths
      /\ ir.faults \in SUBSET Faults
  BY <1>2 DEF Function
<1>4. \A b \in DOMAIN ir.blocks : ir.blocks[b] \in
        [placed : Nat, closed : Nat, targeted : BOOLEAN, entry : SUBSET Paths]
  <2>1. \A b \in DOMAIN ir.blocks : ir.blocks[b] \in BlockRecord
    BY <1>3
  <2> QED  BY <2>1 DEF BlockRecord
<1>5. DOMAIN ir.blocks \cup {nullptr} = 0 .. Len(ir.blocks)
  BY <1>2 DEF nullptr
<1>6. /\ statements \in 0 .. MaxStatements /\ MaxStatements \in Nat
      /\ Names(statements) \subseteq (0 .. MaxStatements) \X Nat
  BY BoundsAssumption DEF Holds, Kept, Names
<1>7. ASSUME NEW d \in DOMAIN open
      PROVE  open[d] \in [kind : LoopKinds \cup {"subroutine", "bare", "arm"},
                    own : Seq(DOMAIN ir.blocks \cup {nullptr}),
                    variables : SUBSET ((0 .. MaxStatements) \X Nat),
                    outer : SUBSET ((0 .. MaxStatements) \X Nat),
                    containReturn : BOOLEAN, height : Nat, elseIfs : Nat,
                    hasElse : BOOLEAN, residual : DOMAIN ir.blocks \cup {nullptr}]
  <2>1. open[d] \in Scopes(Len(ir.blocks), statements)
    BY DEF Holds, Kept
  <2> QED  BY <2>1, <1>5, <1>6 DEF Scopes
<1> QED  BY <1>2, <1>3, <1>4, <1>5, <1>7 DEF TypeOK, Holds, Kept

\* The invariant implies that the live variables are the lexical ones.
LEMMA ImpliesLive ==
  ASSUME NEW want, NEW U, NEW r, Holds(want, U, r)
  PROVE  LiveIsLexical
<1> SUFFICES ASSUME NEW q \in ir.paths PROVE q = Lexical(open)
  BY DEF LiveIsLexical, Lexical
<1> QED  BY DEF Holds, SoFar, Emitted, At

\* The invariant implies that all ways into a block agree.
LEMMA ImpliesAgreement ==
  ASSUME NEW want, NEW U, NEW r, Holds(want, U, r)
  PROVE  PathsAgree
<1> SUFFICES ASSUME NEW b \in DOMAIN ir.blocks
             PROVE  Cardinality(ir.blocks[b].entry) <= 1
  BY DEF PathsAgree
<1> DEFINE E == ir.blocks[b].entry
<1>1. \E D, H, closed, P : Emitted(ir, D, H, U, want, closed, P)
  BY DEF Holds, SoFar
<1>2. E \subseteq want[b] /\ want \in Expectations /\ b \in Nat
  BY <1>1 DEF Emitted, Arranged, Function
<1>3. \A q1, q2 \in E : q1 = q2
  BY <1>2 DEF Expectations
<1> HIDE DEF E
<1>4. CASE E = {}
  BY <1>4, FS_EmptySet DEF E
<1>5. CASE E # {}
  <2>1. PICK q \in E : TRUE
    BY <1>5
  <2>2. E = {q}
    BY <1>3, <2>1
  <2>3. Cardinality({q}) = 1
    BY FS_Singleton
  <2> QED  BY <2>2, <2>3 DEF E
<1> QED  BY <1>4, <1>5

\* The invariant implies that there are no faults, and a finished function is well formed.
LEMMA ImpliesSound ==
  ASSUME NEW want, NEW U, NEW r, Holds(want, U, r)
  PROVE  EmittedCodeIsSound /\ FunctionIsWellFormed
<1>1. EmittedCodeIsSound
  BY DEF Holds, SoFar, Emitted, Arranged, EmittedCodeIsSound
<1>2. FunctionIsWellFormed
  <2> SUFFICES ASSUME open = <<>>, NEW b \in DOMAIN ir.blocks,
                      ir.blocks[b].placed > 0 \/ ir.blocks[b].targeted
               PROVE  ir.blocks[b].placed = 1 /\ ir.blocks[b].closed = 1
    BY DEF FunctionIsWellFormed
  <2>1. Emitted(ir, {}, {}, U, want, 1, {})
    BY DEF Holds, SoFar
  <2>2. b \notin U
    BY <2>1 DEF Emitted, Arranged
  <2>3. CASE b = ir.at
    BY <2>1, <2>3 DEF Emitted, Arranged
  <2>4. CASE b # ir.at
    BY <2>1, <2>2, <2>4 DEF Emitted, Arranged
  <2> QED  BY <2>3, <2>4
<1> QED  BY <1>1, <1>2

(***************************************************************************)
(* A scope is entered, left, or followed by the next one of a conditional. *)
(***************************************************************************)
LEMMA PushStep ==
  ASSUME NEW want, NEW U, NEW r, Holds(want, U, r), CompoundStatement,
         NEW y, Enter(y), NEW N, N = Len(ir.blocks), NEW N2 \in Nat, N2 = Len(ir'.blocks), N <= N2,
         y \in Scopes(N2, statements + 1), Shape(y),
         y.kind # "subroutine", y.variables = {}, y.containReturn = FALSE,
         y.kind # "iterator" => y.outer = {}, y.outer \cap Lexical(open).live = {},
         Owned(y) \cap (1 .. N) = {},
         NEW want2, NEW U2, Extended(want2, U2, want, U, N),
         NEW reached, reached = (ir.paths # {}),
         Expected(want2, Owned(y), At(reached, Base(open, y))),
         IsLoop(y) => Owned(y) \cap U2 = {}, IsLoop(y) /\ HasLoop(open) => Len(y.own) = 3,
         y.kind = "iterator" /\ reached => y.height = Lexical(open).height,
         Emitted(ir', Detached(open) \cup DetachedOf(y), Begun(open) \cup BegunOf(y), U2, want2, 0,
                 At(reached, Base(open, y))),
         blockStack' = IF IsLoop(y) THEN blockStack \o y.own ELSE blockStack
  PROVE  IInv'
<1> DEFINE S == Scopes(N, statements)
           S2 == Scopes(N2, statements')
           n == Len(open)
           r2 == IF reached THEN n + 1 ELSE IF r < n THEN r ELSE n
<1>1. /\ open # <<>> /\ ~Inner.containReturn /\ statements < MaxStatements
      /\ statements' = statements + 1
      /\ open' = Append(open, y) /\ hitReturnStat' = FALSE /\ jump' = NoJump
  BY DEF CompoundStatement, Statement, Enter
<1>2. /\ open \in Seq(S) /\ N \in Nat /\ n \in Nat /\ r \in Nat
      /\ statements \in 0 .. MaxStatements /\ MaxStatements \in Nat
      /\ Held(open) \subseteq 1 .. N
      /\ ~hitReturnStat
  BY <1>1, InnerFacts, BoundsAssumption DEF Holds, Kept
<1>3. statements' \in 0 .. MaxStatements
  BY <1>1, <1>2
<1>4. S \subseteq S2 /\ Seq(S) \subseteq Seq(S2) /\ y \in S2
  <2>1. y \in S2
    BY <1>1
  <2>2. statements \in Nat /\ statements' \in Nat /\ statements <= statements'
    BY <1>1, <1>2
  <2>3. N \in Nat /\ N2 \in Nat /\ N <= N2
    BY <1>2
  <2>4. S \subseteq S2 /\ Seq(S) \subseteq Seq(S2)
    BY ONLY <2>2, <2>3, ScopesGrow
  <2> QED  BY <2>1, <2>4
<1> HIDE DEF S, S2
<1>5. open' \in Seq(S2) /\ Len(open') = n + 1
  BY <1>1, <1>2, <1>4, AppendFacts
<1>6. reached => n <= r
  <2>1. ir.paths \subseteq At(n <= r, Lexical(open))
    BY <1>1, <1>2 DEF Holds, SoFar, Emitted
  <2> QED  BY <2>1 DEF At
<1>7. r2 \in Nat /\ (n < r2 <=> reached) /\ (n + 1 <= r2 <=> reached)
      /\ \A d \in 1 .. n : d <= r <=> d <= r2
  BY <1>2, <1>6
<1> HIDE DEF r2
<1>8. Well(open, want2, U2, r2)
  <2>1. Well(open, want, U, r)
    BY DEF Holds
  <2>2. open \in Seq(Scopes(N, statements)) /\ statements \in Nat /\ N \in Nat /\ r \in Nat /\ r2 \in Nat
    BY <1>2, <1>7 DEF S
  <2>3. /\ \A b \in 1 .. N : want2[b] = want[b] /\ (b \in U2 => b \in U)
        /\ \A d \in 1 .. Len(open) : d <= r <=> d <= r2
    BY <1>7 DEF Extended
  <2> QED  BY ONLY <2>1, <2>2, <2>3, WellGrows
<1>9. Fits(open, y, want2, U2, r2)
  <2>1. \A b \in Owned(y) : want2[b] = At(n < r2, Base(open, y))
    BY <1>7 DEF At, Expected
  <2>2. Owned(y) \cap Held(open) = {}
    BY <1>2
  <2>3. y.kind = "iterator" /\ n < r2 => y.height = Lexical(open).height
    BY <1>7
  <2> QED  BY <1>1, <2>1, <2>2, <2>3 DEF Fits
<1>10. Well(open', want2, U2, r2)
  <2>1. open \in Seq(S2) /\ y \in S2
    BY <1>2, <1>4
  <2>2. Well(Append(open, y), want2, U2, r2)
    BY ONLY <2>1, <1>8, <1>9, WellAppend
  <2> QED  BY <1>1, <2>2
<1>11. /\ Detached(open') = Detached(open) \cup DetachedOf(y)
       /\ Begun(open') = Begun(open) \cup BegunOf(y)
       /\ Lexical(open') = Base(open, y)
  <2>1. y.variables = {}
    OBVIOUS
  <2>2. Lexical(open') = [live |-> Base(open, y).live \cup y.variables, height |-> Base(open, y).height]
    <3>1. open \in Seq(S2) /\ y \in S2
      BY <1>2, <1>4
    <3>2. Lexical(Append(open, y))
            = [live |-> Base(open, y).live \cup y.variables, height |-> Base(open, y).height]
      BY ONLY <3>1, LexicalAppend
    <3> QED  BY <1>1, <3>2
  <2>3. Base(open, y) = [live |-> Base(open, y).live, height |-> Base(open, y).height]
    BY DEF Base
  <2>4. Lexical(open') = Base(open, y)
    BY <2>1, <2>2, <2>3
  <2>5. /\ Detached(Append(open, y)) = Detached(open) \cup DetachedOf(y)
        /\ Begun(Append(open, y)) = Begun(open) \cup BegunOf(y)
    <3>1. open \in Seq(S2) /\ y \in S2
      BY <1>2, <1>4
    <3> QED  BY ONLY <3>1, UnionsAppend
  <2> QED  BY <1>1, <2>4, <2>5
<1>12. SoFar(ir', open', hitReturnStat', want2, U2, r2)
  <2>1. open' # <<>>
    BY <1>2, <1>5
  <2>2. At(Len(open') <= r2, Lexical(open')) = At(reached, Base(open, y))
    BY <1>5, <1>7, <1>11 DEF At
  <2>3. /\ Emitted(ir', Detached(open'), Begun(open'), U2, want2, 0,
                   At(Len(open') <= r2, Lexical(open')))
        /\ ~hitReturnStat'
    BY <1>1, <1>11, <2>2
  <2> QED  BY <2>1, <2>3 DEF SoFar
<1>13. OnStack(open', blockStack') /\ blockStack' \in Seq(0 .. N2)
  <2>1. OnStack(open, blockStack) /\ blockStack \in Seq(0 .. N2)
    <3>1. blockStack \in Seq(0 .. N) /\ OnStack(open, blockStack)
      BY DEF Holds, Kept
    <3>2. 0 .. N \subseteq 0 .. N2
      BY <1>2
    <3> QED  BY <3>1, <3>2, SeqMonotonic
  <2>2. y.own \in Seq(0 .. N2) /\ \A d \in DOMAIN open : open[d].own \in Seq(0 .. N2)
    <3>1. \A d \in DOMAIN open : open[d] \in S2
      BY <1>2, <1>4
    <3> QED  BY <1>4, <3>1 DEF S2, Scopes
  <2>3. CASE IsLoop(y)
    <3>1. OnStack(Append(open, y), blockStack \o y.own)
      BY <1>2, <1>4, <2>1, <2>2, <2>3, OnStackPush
    <3>2. blockStack \o y.own \in Seq(0 .. N2)
      BY <2>1, <2>2, ConcatProperties
    <3> QED  BY <1>1, <2>3, <3>1, <3>2
  <2>4. CASE ~IsLoop(y)
    <3>1. OnStack(Append(open, y), blockStack)
      BY <1>2, <1>4, <2>1, <2>4, OnStackOther
    <3> QED  BY <1>1, <2>1, <2>4, <3>1
  <2> QED  BY <2>3, <2>4
<1>14. \A d \in DOMAIN open' : open'[d].containReturn <=> d = Len(open') /\ hitReturnStat'
  <2>1. \A d \in DOMAIN open : ~open[d].containReturn
    BY <1>2 DEF Holds, Kept
  <2>2. \A d \in DOMAIN Append(open, y) : d # Len(open) + 1 => d \in DOMAIN open /\ open'[d] = open[d]
    BY <1>1, <1>2, <1>4, AppendFacts
  <2>3. open'[Len(open) + 1] = y
    BY <1>1, <1>2, <1>4, AppendFacts
  <2> QED  BY <1>1, <2>1, <2>2, <2>3
<1>15. jump' \in [statement : {"none", "break", "continue"}, target : 0 .. N2]
       /\ JumpsStayInTheirLoop'
  BY <1>1 DEF NoJump, JumpsStayInTheirLoop, nullptr
<1>16. Kept'
  BY <1>1, <1>3, <1>5, <1>13, <1>14, <1>15 DEF Kept, S2
<1>17. r2 \in Nat
  BY <1>7
<1> QED  BY <1>10, <1>12, <1>16, <1>17, HoldsNext

\* The generator leaves the innermost scope, which is not the subroutine's.
LEMMA PopStep ==
  ASSUME NEW want, NEW U, NEW r, Holds(want, U, r), open # <<>>,
         NEW p, p = Front(open), NEW x, x = Inner, x.kind # "subroutine", Leave,
         NEW N, N = Len(ir.blocks), NEW N2 \in Nat, N2 = Len(ir'.blocks), N <= N2,
         NEW want2, NEW U2, Extended(want2, U2, want, U, N),
         NEW Q, Q = At(Len(open) <= r, Lexical(p)),
         Emitted(ir', Detached(p), Begun(p), U2, want2, 0, Q),
         blockStack' = IF IsLoop(x) THEN Popped(3) ELSE blockStack
  PROVE  IInv'
<1> DEFINE S == Scopes(N, statements)
           S2 == Scopes(N2, statements)
<1>1. open' = p /\ hitReturnStat' = FALSE /\ jump' = NoJump /\ statements' = statements
  BY DEF Leave
<1>2. /\ open = Append(p, x) /\ p \in Seq(S) /\ x \in S /\ Well(p, want, U, r) /\ Fits(p, x, want, U, r)
      /\ Len(p) \in Nat /\ Len(open) = Len(p) + 1 /\ N \in Nat /\ r \in Nat
      /\ statements \in 0 .. MaxStatements /\ MaxStatements \in Nat
  BY InnerFacts, BoundsAssumption DEF Holds, Kept
<1>3. S \subseteq S2 /\ Seq(S) \subseteq Seq(S2)
  <2>1. statements \in Nat /\ statements <= statements
    BY <1>2
  <2>2. N \in Nat /\ N2 \in Nat /\ N <= N2
    BY <1>2
  <2> QED  BY ONLY <2>1, <2>2, ScopesGrow
<1>4. Well(p, want2, U2, r)
  <2>1. p \in Seq(Scopes(N, statements)) /\ statements \in Nat /\ N \in Nat /\ r \in Nat
    BY <1>2
  <2>2. /\ \A b \in 1 .. N : want2[b] = want[b] /\ (b \in U2 => b \in U)
        /\ \A d \in 1 .. Len(p) : d <= r <=> d <= r
    BY DEF Extended
  <2> QED  BY ONLY <1>2, <2>1, <2>2, WellGrows
<1>5. p # <<>>
  BY <1>2 DEF Fits
<1>6. SoFar(ir', open', hitReturnStat', want2, U2, r)
  <2>1. ir'.paths \subseteq At(Len(p) <= r, Lexical(p))
    <3>1. ir'.paths \subseteq At(Len(open) <= r, Lexical(p))
      BY DEF Emitted
    <3> QED  BY <1>2, <3>1 DEF At
  <2>2. Emitted(ir', Detached(p), Begun(p), U2, want2, 0, At(Len(p) <= r, Lexical(p)))
    BY <2>1 DEF Emitted
  <2> QED  BY <1>1, <1>5, <2>2 DEF SoFar
<1>7. OnStack(p, blockStack') /\ blockStack' \in Seq(0 .. N2)
  <2>1. OnStack(Append(p, x), blockStack) /\ blockStack \in Seq(0 .. N2)
    <3>1. blockStack \in Seq(0 .. N) /\ OnStack(Append(p, x), blockStack)
      BY <1>2 DEF Holds, Kept
    <3>2. 0 .. N \subseteq 0 .. N2
      BY <1>2
    <3> QED  BY <3>1, <3>2, SeqMonotonic
  <2>2. x.own \in Seq(0 .. N2) /\ \A d \in DOMAIN p : p[d].own \in Seq(0 .. N2)
    <3>1. x \in S2 /\ \A d \in DOMAIN p : p[d] \in S2
      BY <1>2, <1>3
    <3> QED  BY <3>1 DEF Scopes
  <2>3. CASE IsLoop(x)
    <3>1. Len(x.own) >= 3
      <4>1. Shape(x)
        BY <1>2 DEF Fits
      <4>2. CASE x.kind = "iterator"
        <5>1. PICK m \in Nat : m # 0 /\ Len(x.own) = 3 * m
          BY <4>1, <4>2 DEF Shape
        <5>2. 3 * m >= 3
          BY <5>1
        <5> QED  BY <5>1, <5>2
      <4>3. CASE x.kind # "iterator"
        <5>1. Len(x.own) = 3
          BY <2>3, <4>1, <4>3 DEF Shape, IsLoop, LoopKinds
        <5> QED  BY <5>1
      <4> QED  BY <4>2, <4>3
    <3>2. /\ OnStack(p, SubSeq(blockStack, 1, Len(blockStack) - 3))
          /\ SubSeq(blockStack, 1, Len(blockStack) - 3) \in Seq(0 .. N2)
      BY ONLY <1>2, <2>1, <2>2, <2>3, <3>1, OnStackPop
    <3> QED  BY <2>3, <3>2 DEF Popped
  <2>4. CASE ~IsLoop(x)
    <3>1. OnStack(p, blockStack)
      BY <1>2, <2>1, <2>4, OnStackOther
    <3> QED  BY <2>1, <2>4, <3>1
  <2> QED  BY <2>3, <2>4
<1>8. \A d \in DOMAIN p : ~p[d].containReturn
  <2>1. /\ \A d \in DOMAIN p : open[d] = p[d] /\ d \in DOMAIN open
        /\ Len(open) \notin DOMAIN p
    BY <1>2, AppendFacts
  <2> QED  BY <2>1 DEF Holds, Kept
<1>9. p \in Seq(S2)
  BY <1>2, <1>3
<1>10. Kept'
  <2>1. \A d \in DOMAIN open' : open'[d].containReturn <=> d = Len(open') /\ hitReturnStat'
    BY <1>1, <1>8
  <2> QED  BY <1>1, <1>2, <1>7, <1>9, <2>1, KeptNext
<1> QED  BY <1>1, <1>2, <1>4, <1>6, <1>10, HoldsNext

\* The next branch of a conditional, y, takes the place of the one before, x.
LEMMA ChangeStep ==
  ASSUME NEW want, NEW U, NEW r, Holds(want, U, r), open # <<>>,
         NEW p, p = Front(open), NEW x, x = Inner, x.kind = "arm", NEW y, NextArm(y),
         NEW N, N = Len(ir.blocks), NEW N2 \in Nat, N2 = Len(ir'.blocks), N <= N2,
         NEW want2, NEW U2, Extended(want2, U2, want, U, N),
         y \in Scopes(N2, statements), Shape(y),
         y.kind = "arm", y.variables = {}, ~y.containReturn, y.outer = {},
         Owned(y) \cap Held(p) = {},
         NEW Q, Q = At(Len(open) <= r, Lexical(p)), Expected(want2, Owned(y), Q),
         Emitted(ir', Detached(p) \cup DetachedOf(y), Begun(p) \cup BegunOf(y), U2, want2, 0, Q)
  PROVE  IInv'
<1> DEFINE S == Scopes(N, statements)
           S2 == Scopes(N2, statements)
<1>1. /\ open = Append(p, x) /\ p \in Seq(S) /\ x \in S /\ Well(p, want, U, r) /\ Fits(p, x, want, U, r)
      /\ Len(p) \in Nat /\ Len(open) = Len(p) + 1 /\ N \in Nat /\ r \in Nat
      /\ statements \in 0 .. MaxStatements /\ MaxStatements \in Nat
  BY InnerFacts, BoundsAssumption DEF Holds, Kept
<1>2. /\ open' = Append(p, y) /\ hitReturnStat' = FALSE /\ jump' = NoJump
      /\ statements' = statements /\ blockStack' = blockStack
  <2>1. [Append(p, x) EXCEPT ![Len(p) + 1] = y] = Append(p, y)
    <3>1. p \in Seq(S \cup {y}) /\ x \in S \cup {y} /\ y \in S \cup {y}
      BY <1>1
    <3> HIDE DEF S
    <3> QED  BY ONLY <3>1, ReplaceLast
  <2> QED  BY <1>1, <2>1 DEF NextArm
<1>3. S \subseteq S2 /\ Seq(S) \subseteq Seq(S2)
  <2>1. statements \in Nat /\ statements <= statements
    BY <1>1
  <2>2. N \in Nat /\ N2 \in Nat /\ N <= N2
    BY <1>1
  <2> QED  BY ONLY <2>1, <2>2, ScopesGrow
<1>4. p \in Seq(S2) /\ y \in S2
  BY <1>1, <1>3
<1>5. Well(p, want2, U2, r)
  <2>1. p \in Seq(Scopes(N, statements)) /\ statements \in Nat /\ N \in Nat /\ r \in Nat
    BY <1>1
  <2>2. /\ \A b \in 1 .. N : want2[b] = want[b] /\ (b \in U2 => b \in U)
        /\ \A d \in 1 .. Len(p) : d <= r <=> d <= r
    BY DEF Extended
  <2> QED  BY ONLY <1>1, <2>1, <2>2, WellGrows
<1>6. ~IsLoop(x) /\ ~IsLoop(y)
  BY DEF IsLoop, LoopKinds
<1>7. Base(p, y) = Lexical(p)
  BY <1>4, LexicalAppend, SMTT(30) DEF Base, Lexical
<1>8. Fits(p, y, want2, U2, r)
  <2>1. \A b \in Owned(y) : want2[b] = At(Len(p) < r, Base(p, y))
    <3>1. Len(open) <= r <=> Len(p) < r
      BY ONLY <1>1
    <3> QED  BY <1>7, <3>1 DEF Expected
  <2> QED  BY <1>1, <1>6, <2>1 DEF Fits
<1>9. Well(Append(p, y), want2, U2, r)
  BY ONLY <1>4, <1>5, <1>8, WellAppend
<1>10. SoFar(ir', open', hitReturnStat', want2, U2, r)
  <2>1. Append(p, y) # <<>> /\ Len(Append(p, y)) = Len(open)
    BY <1>1
  <2>2. Lexical(Append(p, y)) = [live |-> Base(p, y).live \cup y.variables, height |-> Base(p, y).height]
    BY ONLY <1>4, LexicalAppend
  <2>3. Lexical(Append(p, y)) = Lexical(p)
    BY <1>7, <2>2 DEF Lexical
  <2>4. /\ Detached(Append(p, y)) = Detached(p) \cup DetachedOf(y)
        /\ Begun(Append(p, y)) = Begun(p) \cup BegunOf(y)
    BY ONLY <1>4, UnionsAppend
  <2> QED  BY <1>2, <2>1, <2>3, <2>4 DEF SoFar
<1>11. OnStack(Append(p, y), blockStack) /\ blockStack \in Seq(0 .. N2)
  <2>1. OnStack(Append(p, x), blockStack) /\ blockStack \in Seq(0 .. N)
    BY <1>1 DEF Holds, Kept
  <2>2. 0 .. N \subseteq 0 .. N2
    BY <1>1
  <2>3. blockStack \in Seq(0 .. N2)
    BY <2>1, <2>2, SeqMonotonic
  <2>4. OnStack(p, blockStack)
    BY ONLY <1>1, <1>6, <2>1, OnStackOther
  <2>5. OnStack(Append(p, y), blockStack)
    BY ONLY <1>4, <1>6, <2>4, OnStackOther
  <2> QED  BY <2>3, <2>5
<1>12. \A d \in DOMAIN Append(p, y) : ~Append(p, y)[d].containReturn
  <2>1. /\ \A d \in DOMAIN p : Append(p, x)[d] = p[d] /\ d \in DOMAIN Append(p, x)
        /\ Len(p) + 1 \notin DOMAIN p
    BY ONLY <1>1, AppendFacts
  <2>2. \A d \in DOMAIN p : ~p[d].containReturn
    BY <1>1, <2>1 DEF Holds, Kept
  <2>3. /\ DOMAIN Append(p, y) = DOMAIN p \cup {Len(p) + 1} /\ Append(p, y)[Len(p) + 1] = y
        /\ \A d \in DOMAIN p : Append(p, y)[d] = p[d]
    BY ONLY <1>4, AppendFacts
  <2> QED  BY <2>2, <2>3
<1>13. Append(p, y) \in Seq(S2)
  BY ONLY <1>4, AppendFacts
<1>14. Kept'
  <2>1. \A d \in DOMAIN open' : open'[d].containReturn <=> d = Len(open') /\ hitReturnStat'
    BY <1>2, <1>12
  <2> QED  BY <1>1, <1>2, <1>11, <1>13, <2>1, KeptNext
<1> QED  BY <1>1, <1>2, <1>9, <1>10, <1>14, HoldsNext

(***************************************************************************)
(* What the steps have in common.                                          *)
(***************************************************************************)
\* At the innermost point the code is in the state the scopes describe.
LEMMA HereEmitted ==
  ASSUME NEW want, NEW U, NEW r, Holds(want, U, r), open # <<>>, ~hitReturnStat
  PROVE  /\ Emitted(ir, Detached(open), Begun(open), U, want, 0, At(Len(open) <= r, Lexical(open)))
         /\ Emitted(ir, Detached(open), Begun(open), U, want, 0, At(ir.paths # {}, Lexical(open)))
         /\ ir.paths = At(ir.paths # {}, Lexical(open))
<1>1. Emitted(ir, Detached(open), Begun(open), U, want, 0, At(Len(open) <= r, Lexical(open)))
  BY DEF Holds, SoFar
<1>2. ir.paths = At(ir.paths # {}, Lexical(open))
  BY <1>1 DEF Emitted, At
<1>3. Emitted(ir, Detached(open), Begun(open), U, want, 0, At(ir.paths # {}, Lexical(open)))
  BY <1>1, <1>2 DEF Emitted
<1> QED  BY <1>1, <1>2, <1>3

\* The states Q expected at the new blocks B.
Expect(want, B, Q) == [b \in Nat |-> IF b \in B THEN Q ELSE want[b]]

\* Expecting the same states Q at the new blocks keeps what is expected elsewhere.
LEMMA ExpectMore ==
  ASSUME NEW want \in Expectations, NEW B, NEW Q \in SUBSET Paths, \A q1, q2 \in Q : q1 = q2
  PROVE  /\ Expect(want, B, Q) \in Expectations
         /\ \A b \in Nat : Expect(want, B, Q)[b] = IF b \in B THEN Q ELSE want[b]
<1> DEFINE w == [b \in Nat |-> IF b \in B THEN Q ELSE want[b]]
<1>1. \A b \in Nat : want[b] \in SUBSET Paths /\ \A q1, q2 \in want[b] : q1 = q2
  BY DEF Expectations
<1>2. w \in [Nat -> SUBSET Paths]
  BY <1>1
<1>3. \A b \in Nat : \A q1, q2 \in w[b] : q1 = q2
  BY <1>1
<1>4. w \in Expectations /\ \A b \in Nat : w[b] = IF b \in B THEN Q ELSE want[b]
  BY <1>2, <1>3 DEF Expectations
<1> QED  BY <1>4 DEF Expect

\* A place is reached in one state or not at all.
LEMMA AtMostOne ==
  ASSUME NEW reached, NEW s \in Paths
  PROVE  At(reached, s) \in SUBSET Paths /\ \A q1, q2 \in At(reached, s) : q1 = q2
BY DEF At

\* A block that waits to be put in the function, or is not going to be used.
LEMMA CreateEitherEffect ==
  ASSUME NEW i, NEW D, NEW H, NEW U, NEW want, NEW closed, NEW P,
         Emitted(i, D, H, U, want, closed, P), NEW used
  PROVE  /\ Emitted(CreateDetached(i), D \cup (IF used THEN {Len(i.blocks) + 1} ELSE {}), H,
                    U \cup (IF used THEN {} ELSE {Len(i.blocks) + 1}), want, closed, P)
         /\ Len(CreateDetached(i).blocks) = Len(i.blocks) + 1
         /\ CreateDetached(i).paths = i.paths
<1>1. /\ Emitted(CreateDetached(i), D \cup {Len(i.blocks) + 1}, H, U, want, closed, P)
      /\ Emitted(CreateDetached(i), D, H, U \cup {Len(i.blocks) + 1}, want, closed, P)
      /\ Len(CreateDetached(i).blocks) = Len(i.blocks) + 1
      /\ CreateDetached(i).paths = i.paths
  BY CreateDetachedEffect
<1>2. D \cup {} = D /\ U \cup {} = U
  OBVIOUS
<1>3. CASE used
  BY <1>1, <1>2, <1>3
<1>4. CASE ~used
  BY <1>1, <1>2, <1>4
<1> QED  BY <1>3, <1>4

\* The states around a scope and inside of it are records of what lives and the height.
LEMMA StatesAreRecords ==
  ASSUME NEW s, NEW x
  PROVE  /\ Base(s, x) = [live |-> Base(s, x).live, height |-> Base(s, x).height]
         /\ Lexical(s) = [live |-> Lexical(s).live, height |-> Lexical(s).height]
BY DEF Base, Lexical

(***************************************************************************)
(* The end of a body.                                                      *)
(***************************************************************************)
\* The variables of the scope are freed.
LEMMA EndBlockOpen ==
  ASSUME NEW want, NEW U, NEW r, Holds(want, U, r), open # <<>>, ~hitReturnStat,
         NEW p, p = Front(open), NEW x, x = Inner
  PROVE  /\ Emitted(EndBlock(x), Detached(open), Begun(open), U, want, 0,
                    At(Len(open) <= r, Base(p, x)))
         /\ Len(EndBlock(x).blocks) = Len(ir.blocks)
<1>1. /\ Lexical(open) = [live |-> Base(p, x).live \cup x.variables, height |-> Base(p, x).height]
      /\ Lexical(open) \in Paths /\ Fits(p, x, want, U, r) /\ (x.containReturn <=> hitReturnStat)
  BY InnerFacts
<1>2. EndBlock(x) = Free(ir, x.variables)
  BY <1>1 DEF EndBlock
<1>3. /\ Emitted(Free(ir, x.variables), Detached(open), Begun(open), U, want, 0,
                 At(Len(open) <= r, [live |-> Lexical(open).live \ x.variables,
                                     height |-> Lexical(open).height]))
      /\ Free(ir, x.variables).blocks = ir.blocks
  <2> DEFINE L == Lexical(open)
             reached == Len(open) <= r
             V == x.variables
  <2>1. /\ Emitted(ir, Detached(open), Begun(open), U, want, 0, At(reached, L))
        /\ L \in Paths /\ V \subseteq L.live
    <3>1. L.live = Base(p, x).live \cup V /\ L \in Paths
      BY ONLY <1>1
    <3>2. Emitted(ir, Detached(open), Begun(open), U, want, 0, At(reached, L))
      BY HereEmitted
    <3> QED  BY <3>1, <3>2
  <2> HIDE DEF L, reached, V
  <2>2. /\ Emitted(Free(ir, V), Detached(open), Begun(open), U, want, 0,
                   At(reached, [live |-> L.live \ V, height |-> L.height]))
        /\ Free(ir, V).blocks = ir.blocks
    BY ONLY <2>1, FreeEffect
  <2> QED  BY <2>2 DEF L, reached, V
<1>4. (Base(p, x).live \cup x.variables) \ x.variables = Base(p, x).live
  BY <1>1 DEF Fits
<1>5. [live |-> Lexical(open).live \ x.variables, height |-> Lexical(open).height] = Base(p, x)
  <2> DEFINE L == Lexical(open)
  <2>1. L.live \ x.variables = Base(p, x).live /\ L.height = Base(p, x).height
    BY <1>1, <1>4
  <2> HIDE DEF L
  <2>2. [live |-> L.live \ x.variables, height |-> L.height] = Base(p, x)
    BY <2>1, StatesAreRecords
  <2> QED  BY <2>2 DEF L
<1> QED  BY <1>2, <1>3, <1>5

\* A branch to a block of the scope, unless the body ends with a return.
LEMMA EndOfBody ==
  ASSUME NEW want, NEW U, NEW r, Holds(want, U, r), open # <<>>,
         NEW x, x = Inner, x.kind # "bare", NEW t \in Owned(x), t \notin U,
         NEW i, i = IF hitReturnStat THEN EndBlock(x) ELSE CreateBr(EndBlock(x), t)
  PROVE  /\ Emitted(i, Detached(open), Begun(open), U, want, 1, {})
         /\ Len(i.blocks) = Len(ir.blocks)
<1> DEFINE p == Front(open)
           e == EndBlock(x)
<1>1. /\ Fits(p, x, want, U, r) /\ Owned(x) \subseteq 1 .. Len(ir.blocks)
      /\ (x.containReturn <=> hitReturnStat) /\ Len(open) = Len(p) + 1 /\ Len(p) \in Nat /\ r \in Nat
  BY InnerFacts DEF Holds
<1>2. CASE hitReturnStat
  <2>1. i = ir
    BY <1>1, <1>2 DEF EndBlock
  <2> QED  BY <1>2, <2>1 DEF Holds, SoFar
<1>3. CASE ~hitReturnStat
  <2>1. /\ Emitted(e, Detached(open), Begun(open), U, want, 0, At(Len(open) <= r, Base(p, x)))
        /\ Len(e.blocks) = Len(ir.blocks)
    BY <1>3, EndBlockOpen
  <2>2. At(Len(open) <= r, Base(p, x)) \subseteq want[t]
    BY <1>1 DEF Fits, At
  <2>3. t \in DOMAIN e.blocks \ U
    BY <1>1, <2>1, EmittedType
  <2> HIDE DEF e, p
  <2>4. /\ Emitted(CreateBr(e, t), Detached(open), Begun(open), U, want, 1, {})
        /\ Len(CreateBr(e, t).blocks) = Len(e.blocks)
    BY <2>1, <2>2, <2>3, CreateBrEffect
  <2> QED  BY <1>3, <2>1, <2>4 DEF e
<1> QED  BY <1>2, <1>3

(***************************************************************************)
(* The start.                                                              *)
(***************************************************************************)
LEMMA NoScopes ==
  ASSUME NEW want, NEW U, NEW r, NEW B
  PROVE  /\ Lexical(<<>>) = [live |-> {Parameter}, height |-> 0]
         /\ Held(<<>>) = {} /\ Detached(<<>>) = {} /\ Begun(<<>>) = {} /\ ~HasLoop(<<>>)
         /\ Well(<<>>, want, U, r) /\ OnStack(<<>>, B)
<1>1. DOMAIN <<>> = {}
  OBVIOUS
<1>2. Cardinality({}) = 0
  BY FS_EmptySet
<1>3. {d \in DOMAIN <<>> : <<>>[d].kind = "iterator"} = {}
  BY <1>1
<1>4. UNION {<<>>[d].variables \cup <<>>[d].outer : d \in DOMAIN <<>>} = {}
  BY <1>1
<1>5. Lexical(<<>>) = [live |-> {Parameter}, height |-> 0]
  BY <1>2, <1>3, <1>4 DEF Lexical
<1>6. /\ Held(<<>>) = {} /\ Detached(<<>>) = {} /\ Begun(<<>>) = {} /\ ~HasLoop(<<>>)
      /\ Well(<<>>, want, U, r) /\ OnStack(<<>>, B)
  BY <1>1 DEF Held, Detached, Begun, HasLoop, Well, OnStack
<1> QED  BY <1>5, <1>6

\* The subroutine's own scope.
LEMMA SubroutineScope ==
  ASSUME NEW N \in Nat, NEW st \in Nat
  PROVE  LET x == Scope("subroutine", <<>>) IN
         /\ x \in Scopes(N, st) /\ Shape(x) /\ ~IsLoop(x)
         /\ Owned(x) = {} /\ DetachedOf(x) = {} /\ BegunOf(x) = {}
<1> DEFINE x == Scope("subroutine", <<>>)
<1>1. x \in Scopes(N, st)
  <2>1. /\ <<>> \in Seq(0 .. N) /\ {} \in SUBSET Names(st) /\ FALSE \in BOOLEAN
        /\ 0 \in Nat /\ nullptr \in 0 .. N /\ "subroutine" \in LoopKinds \cup {"subroutine", "bare", "arm"}
    BY DEF nullptr
  <2> QED  BY <2>1 DEF Scope, Scopes
<1>2. /\ x.kind = "subroutine" /\ x.own = <<>> /\ x.residual = nullptr
  BY DEF Scope
<1> HIDE DEF x
<1>3. DOMAIN x.own = {}
  BY <1>2
<1>4. Shape(x) /\ ~IsLoop(x) /\ Owned(x) = {} /\ DetachedOf(x) = {} /\ BegunOf(x) = {}
  BY <1>2, <1>3 DEF Shape, IsLoop, LoopKinds, Owned, DetachedOf, BegunOf
<1> QED  BY <1>1, <1>4 DEF x

\* A function of one block, the entry, where the builder is.
LEMMA InitHolds ==
  Init => IInv
<1> SUFFICES ASSUME Init PROVE IInv
  OBVIOUS
<1> DEFINE x == Scope("subroutine", <<>>)
           entry == [live |-> {Parameter}, height |-> 0]
           first == [Fresh EXCEPT !.placed = 1, !.entry = {entry}]
           want == [b \in Nat |-> IF b = 1 THEN {entry} ELSE {}]
<1>1. /\ ir = [blocks |-> <<first>>, at |-> 1, paths |-> {entry}, faults |-> {}]
      /\ blockStack = <<>> /\ hitReturnStat = FALSE /\ open = <<x>>
      /\ jump = NoJump /\ statements = 0
  BY DEF Init
<1>2. MaxStatements \in Nat /\ entry \in Paths
  BY BoundsAssumption DEF Paths, Parameter
<1>3. /\ first \in BlockRecord /\ first.placed = 1 /\ first.closed = 0 /\ first.entry = {entry}
  BY <1>2 DEF first, Fresh, BlockRecord
<1>4. want \in Expectations /\ want[1] = {entry}
  BY <1>2 DEF Expectations
<1>5. /\ x \in Scopes(1, 0) /\ Shape(x) /\ ~IsLoop(x)
      /\ Owned(x) = {} /\ DetachedOf(x) = {} /\ BegunOf(x) = {}
  BY SubroutineScope
<1>6. /\ x.kind = "subroutine" /\ x.variables = {} /\ x.outer = {} /\ x.containReturn = FALSE
  BY DEF Scope
<1> HIDE DEF x, entry, first, want
<1>7. Emitted(ir, {}, {}, {}, want, 0, {entry})
  <2>1. ir \in Function /\ DOMAIN ir.blocks = {1} /\ ir.blocks[1] = first
    BY <1>1, <1>2, <1>3 DEF Function
  <2> QED  BY <1>1, <1>3, <1>4, <2>1 DEF Emitted, Arranged
<1>8. <<>> \in Seq(Scopes(1, 0)) /\ <<x>> = Append(<<>>, x) /\ Len(<<x>>) = 1 /\ Len(<<>>) = 0
  OBVIOUS
<1>9. Base(<<>>, x) = entry
  <2>1. Lexical(<<>>) = [live |-> {Parameter}, height |-> 0]
    BY NoScopes
  <2>2. Lexical(<<>>).live \cup x.outer = {Parameter} /\ Lexical(<<>>).height + 0 = 0
    BY <1>6, <2>1
  <2> QED  BY <1>6, <2>2 DEF Base, entry
<1>10. Fits(<<>>, x, want, {}, 1)
  BY <1>5, <1>6, NoScopes DEF Fits
<1>11. Well(open, want, {}, 1)
  <2>1. Well(Append(<<>>, x), want, {}, 1)
    BY ONLY <1>5, <1>8, <1>10, NoScopes, WellAppend
  <2> QED  BY <1>1, <1>8, <2>1
<1>12. Lexical(open) = entry /\ Detached(open) = {} /\ Begun(open) = {}
  <2>1. Lexical(Append(<<>>, x)) = [live |-> Base(<<>>, x).live \cup x.variables,
                                    height |-> Base(<<>>, x).height]
    BY ONLY <1>5, <1>8, LexicalAppend
  <2>2. Lexical(Append(<<>>, x)) = entry
    BY <1>6, <1>9, <2>1 DEF entry
  <2>3. /\ Detached(Append(<<>>, x)) = Detached(<<>>) \cup DetachedOf(x)
        /\ Begun(Append(<<>>, x)) = Begun(<<>>) \cup BegunOf(x)
    BY ONLY <1>5, <1>8, UnionsAppend
  <2> QED  BY <1>1, <1>5, <1>8, <2>2, <2>3, NoScopes
<1>13. SoFar(ir, open, hitReturnStat, want, {}, 1)
  <2>1. open # <<>> /\ Len(open) <= 1 /\ ~hitReturnStat
    BY <1>1, <1>8
  <2>2. At(Len(open) <= 1, Lexical(open)) = {entry}
    BY <1>12, <2>1 DEF At
  <2> QED  BY <1>7, <1>12, <2>1, <2>2 DEF SoFar
<1>14. OnStack(open, blockStack)
  <2>1. OnStack(Append(<<>>, x), blockStack) <=> OnStack(<<>>, blockStack)
    BY ONLY <1>5, <1>8, OnStackOther
  <2> QED  BY <1>1, <1>8, <2>1, NoScopes
<1>15. Kept
  <2>1. Len(ir.blocks) = 1
    BY <1>1
  <2>2. open \in Seq(Scopes(1, 0)) /\ \A d \in DOMAIN open : open[d] = x
    BY <1>1, <1>5
  <2>3. jump \in [statement : {"none", "break", "continue"}, target : 0 .. 1] /\ JumpsStayInTheirLoop
    BY <1>1 DEF NoJump, JumpsStayInTheirLoop, nullptr
  <2>4. blockStack \in Seq(0 .. 1)
    BY <1>1
  <2>5. statements \in 0 .. MaxStatements /\ hitReturnStat \in BOOLEAN /\ ~hitReturnStat
    <3>1. statements \in 0 .. MaxStatements
      BY <1>1, <1>2
    <3>2. hitReturnStat = FALSE
      BY <1>1
    <3>3. hitReturnStat \in BOOLEAN /\ ~hitReturnStat
      BY <3>2
    <3> QED  BY <3>1, <3>3
  <2>6. open \in Seq(Scopes(Len(ir.blocks), statements))
    BY <1>1, <2>1, <2>2
  <2>7. \A d \in DOMAIN open : open[d].containReturn <=> d = Len(open) /\ hitReturnStat
    BY <1>6, <2>2, <2>5
  <2> QED  BY <1>14, <2>1, <2>3, <2>4, <2>5, <2>6, <2>7 DEF Kept
<1> QED  BY <1>11, <1>13, <1>15 DEF IInv, Holds

(***************************************************************************)
(* A scope that changes, in the variables it has declared and in whether   *)
(* it ends with a return, fits where it did.                               *)
(***************************************************************************)
Alike(x, y) ==
  /\ y.kind = x.kind /\ y.own = x.own /\ y.outer = x.outer /\ y.height = x.height
  /\ y.elseIfs = x.elseIfs /\ y.hasElse = x.hasElse /\ y.residual = x.residual

\* A scope that differs from another in its variables or its return alone fits where
\* the other one does.
LEMMA AlikeFacts ==
  ASSUME NEW S, NEW s \in Seq(S), NEW x \in S, NEW y \in S, Alike(x, y),
         NEW want, NEW U, NEW r, Fits(s, x, want, U, r), y.variables \cap Base(s, x).live = {},
         NEW B
  PROVE  /\ Fits(s, y, want, U, r) /\ Base(s, y) = Base(s, x)
         /\ Detached(Append(s, y)) = Detached(Append(s, x))
         /\ Begun(Append(s, y)) = Begun(Append(s, x))
         /\ OnStack(Append(s, x), B) => OnStack(Append(s, y), B)
<1>1. /\ Owned(y) = Owned(x) /\ DetachedOf(y) = DetachedOf(x) /\ BegunOf(y) = BegunOf(x)
      /\ (IsLoop(y) <=> IsLoop(x)) /\ Base(s, y) = Base(s, x)
  BY DEF Alike, Owned, DetachedOf, BegunOf, IsLoop, Base
<1>2. Shape(y)
  BY DEF Alike, Fits, Shape
<1>3. Fits(s, y, want, U, r)
  BY <1>1, <1>2 DEF Alike, Fits
<1>4. /\ Detached(Append(s, y)) = Detached(Append(s, x))
      /\ Begun(Append(s, y)) = Begun(Append(s, x))
  <2>1. /\ Detached(Append(s, y)) = Detached(s) \cup DetachedOf(y)
        /\ Begun(Append(s, y)) = Begun(s) \cup BegunOf(y)
    BY UnionsAppend
  <2>2. /\ Detached(Append(s, x)) = Detached(s) \cup DetachedOf(x)
        /\ Begun(Append(s, x)) = Begun(s) \cup BegunOf(x)
    BY UnionsAppend
  <2> QED  BY <1>1, <2>1, <2>2
<1>5. ASSUME OnStack(Append(s, x), B) PROVE OnStack(Append(s, y), B)
  <2> DEFINE t == Append(s, x)
             u == Append(s, y)
  <2>1. /\ DOMAIN t = DOMAIN s \cup {Len(s) + 1} /\ DOMAIN u = DOMAIN t
        /\ t[Len(s) + 1] = x /\ u[Len(s) + 1] = y
        /\ \A d \in DOMAIN s : t[d] = s[d] /\ u[d] = s[d]
    BY AppendFacts
  <2>2. \A d \in DOMAIN t : LoopsAfter(t, d) = LoopsAfter(u, d)
    <3>1. /\ \A d \in DOMAIN s : LoopsAfter(t, d) = LoopsAfter(s, d) + (IF IsLoop(x) THEN 1 ELSE 0)
          /\ LoopsAfter(t, Len(s) + 1) = 0
      BY LoopsAfterAppend
    <3>2. /\ \A d \in DOMAIN s : LoopsAfter(u, d) = LoopsAfter(s, d) + (IF IsLoop(y) THEN 1 ELSE 0)
          /\ LoopsAfter(u, Len(s) + 1) = 0
      BY LoopsAfterAppend
    <3> HIDE DEF t, u
    <3> QED  BY <1>1, <2>1, <3>1, <3>2
  <2> HIDE DEF t, u
  <2>3. \A d \in DOMAIN t : (IsLoop(t[d]) <=> IsLoop(u[d])) /\ t[d].own = u[d].own
    BY <1>1, <2>1 DEF Alike
  <2>4. OnStack(t, B)
    BY <1>5 DEF t
  <2>5. OnStack(u, B)
    BY <2>1, <2>2, <2>3, <2>4 DEF OnStack
  <2> QED  BY <2>5 DEF u
<1> QED  BY <1>1, <1>3, <1>4, <1>5

\* A statement that changes the innermost scope to one like it, and leaves the code
\* in the state that this scope has, keeps the invariant.
LEMMA AlikeStep ==
  ASSUME NEW want, NEW U, NEW r, Holds(want, U, r), Statement, open # <<>>,
         NEW p, p = Front(open), NEW x, x = Inner,
         NEW y \in Scopes(Len(ir.blocks), statements + 1), Alike(x, y),
         y.variables \cap Base(p, x).live = {}, y.containReturn <=> hitReturnStat',
         open' = [open EXCEPT ![Len(open)] = y], Len(ir'.blocks) = Len(ir.blocks),
         jump' = NoJump, blockStack' = blockStack, hitReturnStat' \in BOOLEAN,
         IF hitReturnStat'
         THEN Emitted(ir', Detached(open), Begun(open), U, want, 1, {})
         ELSE Emitted(ir', Detached(open), Begun(open), U, want, 0,
                      At(Len(open) <= r, [live |-> Base(p, x).live \cup y.variables,
                                          height |-> Base(p, x).height]))
  PROVE  IInv'
<1> DEFINE N == Len(ir.blocks)
           S == Scopes(N, statements)
           S2 == Scopes(N, statements')
           t == Append(p, y)
<1>1. /\ open = Append(p, x) /\ p \in Seq(S) /\ x \in S /\ Well(p, want, U, r) /\ Fits(p, x, want, U, r)
      /\ Len(p) \in Nat /\ Len(open) = Len(p) + 1 /\ N \in Nat /\ r \in Nat
      /\ statements \in 0 .. MaxStatements /\ MaxStatements \in Nat
  BY InnerFacts, BoundsAssumption DEF Holds, Kept
<1>2. statements' = statements + 1 /\ statements' \in 0 .. MaxStatements /\ ~hitReturnStat
  <2>1. statements' = statements + 1 /\ statements < MaxStatements /\ ~Inner.containReturn
    BY DEF Statement
  <2> QED  BY <1>1, <2>1, InnerFacts
<1>3. p \in Seq(S2) /\ x \in S2 /\ y \in S2
  <2>1. statements \in Nat /\ statements' \in Nat /\ statements <= statements' /\ N <= N
    BY <1>1, <1>2
  <2>2. S \subseteq S2 /\ Seq(S) \subseteq Seq(S2)
    BY ONLY <1>1, <2>1, ScopesGrow
  <2> QED  BY <1>1, <1>2, <2>2
<1>4. open' = t
  <2>1. [Append(p, x) EXCEPT ![Len(p) + 1] = y] = Append(p, y)
    BY ONLY <1>3, ReplaceLast
  <2> QED  BY <1>1, <2>1
<1>5. OnStack(Append(p, x), blockStack)
  BY <1>1 DEF Holds, Kept
<1> HIDE DEF S2, S
<1>6. /\ Fits(p, y, want, U, r) /\ Base(p, y) = Base(p, x)
      /\ Detached(t) = Detached(open) /\ Begun(t) = Begun(open) /\ OnStack(t, blockStack)
  <2>1. /\ Alike(x, y) /\ y.variables \cap Base(p, x).live = {}
    OBVIOUS
  <2>2. /\ Fits(p, y, want, U, r) /\ Base(p, y) = Base(p, x)
        /\ Detached(Append(p, y)) = Detached(Append(p, x))
        /\ Begun(Append(p, y)) = Begun(Append(p, x)) /\ OnStack(Append(p, y), blockStack)
    BY ONLY <1>1, <1>3, <1>5, <2>1, AlikeFacts
  <2> QED  BY <1>1, <2>2
<1>7. Well(t, want, U, r)
  BY ONLY <1>1, <1>3, <1>6, WellAppend
<1>8. t # <<>> /\ Len(t) = Len(open)
  BY <1>1, <1>3
<1>9. Lexical(t) = [live |-> Base(p, x).live \cup y.variables, height |-> Base(p, x).height]
  <2>1. Lexical(t) = [live |-> Base(p, y).live \cup y.variables, height |-> Base(p, y).height]
    BY ONLY <1>3, LexicalAppend
  <2> QED  BY <1>6, <2>1
<1>10. \A d \in DOMAIN t : t[d].containReturn <=> d = Len(t) /\ hitReturnStat'
  <2>1. /\ DOMAIN t = DOMAIN p \cup {Len(p) + 1} /\ t[Len(p) + 1] = y
        /\ Len(p) + 1 \notin DOMAIN p /\ \A d \in DOMAIN p : t[d] = p[d]
    BY ONLY <1>3, AppendFacts
  <2>2. \A d \in DOMAIN p : p[d] = open[d] /\ d \in DOMAIN open
    BY ONLY <1>1, AppendFacts
  <2>3. \A d \in DOMAIN p : ~p[d].containReturn
    BY <1>2, <2>2 DEF Holds, Kept
  <2> HIDE DEF t
  <2> QED  BY <1>1, <1>8, <2>1, <2>3
<1>11. t \in Seq(S2)
  BY ONLY <1>3, AppendFacts
<1> HIDE DEF t
<1>12. SoFar(ir', open', hitReturnStat', want, U, r)
  BY <1>4, <1>6, <1>8, <1>9 DEF SoFar
<1>13. Kept'
  <2>1. OnStack(open', blockStack') /\ blockStack' \in Seq(0 .. N)
    BY <1>4, <1>6 DEF Holds, Kept
  <2>2. N = Len(ir'.blocks) /\ open' \in Seq(Scopes(N, statements'))
    BY <1>4, <1>11 DEF S2
  <2>3. \A d \in DOMAIN open' : open'[d].containReturn <=> d = Len(open') /\ hitReturnStat'
    BY <1>4, <1>10
  <2> HIDE DEF N
  <2> QED  BY <1>1, <1>2, <2>1, <2>2, <2>3, KeptNext
<1>14. Well(open', want, U, r) /\ r \in Nat
  BY <1>1, <1>4, <1>7
<1> QED  BY ONLY <1>12, <1>13, <1>14, HoldsNext

\* Names of variables that are declared now are new.
LEMMA NewVariables ==
  ASSUME NEW want, NEW U, NEW r, Holds(want, U, r), open # <<>>, NEW V,
         \A v \in V : \E domain \in Nat : v = Variable(domain)
  PROVE  /\ V \in SUBSET Names(statements + 1) /\ V \cap Names(statements) = {}
         /\ V \cap Lexical(open).live = {} /\ V \cap Base(Front(open), Inner).live = {}
<1> DEFINE p == Front(open)
           x == Inner
<1>1. statements \in 0 .. MaxStatements /\ MaxStatements \in Nat
  BY BoundsAssumption DEF Holds, Kept
<1>2. V \subseteq Names(statements + 1) /\ V \cap Names(statements) = {}
  BY <1>1 DEF Variable, Names
<1>3. /\ p \in Seq(Scopes(Len(ir.blocks), statements)) /\ x \in Scopes(Len(ir.blocks), statements)
      /\ Len(ir.blocks) \in Nat /\ open \in Seq(Scopes(Len(ir.blocks), statements))
  BY InnerFacts
<1>4. Base(p, x).live \subseteq Names(statements)
  BY ONLY <1>1, <1>3, LexicalType
<1>5. Lexical(open).live \subseteq Names(statements)
  BY ONLY <1>1, <1>3, LexicalType
<1> QED  BY <1>2, <1>4, <1>5

(***************************************************************************)
(* Blocks.                                                                 *)
(***************************************************************************)
\* A declaration adds its variable to the scope and to what is live.
LEMMA DeclareHolds ==
  ASSUME IInv, Declare
  PROVE  IInv'
<1> PICK want, U, r : Holds(want, U, r)
  BY DEF IInv
<1> DEFINE p == Front(open)
           x == Inner
           V == {Variable(0)}
           y == [x EXCEPT !.variables = V]
           S2 == Scopes(Len(ir.blocks), statements + 1)
           L == Lexical(open)
           reached == Len(open) <= r
<1>1. /\ Statement /\ open # <<>> /\ x.variables = {} /\ ir' = Allocate(ir, V)
      /\ open' = [open EXCEPT ![Len(open)].variables = V]
      /\ jump' = NoJump /\ blockStack' = blockStack /\ hitReturnStat' = hitReturnStat
  BY DEF Declare, Statement, branch
<1>2. /\ x \in Scopes(Len(ir.blocks), statements) /\ Lexical(open) \in Paths
      /\ Lexical(open) = [live |-> Base(p, x).live \cup x.variables, height |-> Base(p, x).height]
      /\ (x.containReturn <=> hitReturnStat) /\ Len(ir.blocks) \in Nat
      /\ statements \in 0 .. MaxStatements /\ MaxStatements \in Nat
  BY <1>1, InnerFacts, BoundsAssumption DEF Holds, Kept
<1>3. ~hitReturnStat /\ statements < MaxStatements
  BY <1>1, <1>2 DEF Statement
<1>4. V \in SUBSET Names(statements + 1) /\ V \cap Base(p, x).live = {}
  <2>1. \A v \in V : \E domain \in Nat : v = Variable(domain)
    OBVIOUS
  <2> HIDE DEF V
  <2> QED  BY <1>1, <2>1, NewVariables
<1>5. V \in SUBSET ((0 .. MaxStatements) \X Nat)
  <2>1. 0 .. statements + 1 \subseteq 0 .. MaxStatements
    BY <1>2, <1>3
  <2> QED  BY <1>4, <2>1 DEF Names
<1> HIDE DEF V
<1>6. /\ Emitted(Allocate(ir, V), Detached(open), Begun(open), U, want, 0,
                 At(reached, [live |-> L.live \cup V, height |-> L.height]))
      /\ Allocate(ir, V).blocks = ir.blocks
  <2>1. Emitted(ir, Detached(open), Begun(open), U, want, 0, At(reached, L))
    BY <1>1, <1>3, HereEmitted
  <2>2. L \in Paths
    BY <1>2
  <2> HIDE DEF L, reached
  <2> QED  BY ONLY <1>5, <2>1, <2>2, AllocateEffect
<1>7. L.live \cup V = Base(p, x).live \cup V /\ L.height = Base(p, x).height
  BY <1>1, <1>2
<1>8. y \in S2 /\ Alike(x, y) /\ y.variables = V /\ y.containReturn = x.containReturn
  <2>1. x \in S2
    <3>1. statements \in Nat /\ statements + 1 \in Nat /\ statements <= statements + 1
      BY <1>2
    <3> QED  BY ONLY <1>2, <3>1, ScopesGrow
  <2> HIDE DEF x
  <2>2. y \in S2 /\ y.variables = V
    BY <1>4, <2>1 DEF Scopes
  <2>3. Alike(x, y) /\ y.containReturn = x.containReturn
    BY <2>1 DEF Scopes, Alike
  <2> QED  BY <2>2, <2>3
<1>9. open' = [open EXCEPT ![Len(open)] = y]
  BY <1>1 DEF Inner
<1> HIDE DEF y, x, p, L, reached
<1>10. Emitted(ir', Detached(open), Begun(open), U, want, 0,
               At(Len(open) <= r, [live |-> Base(p, x).live \cup y.variables,
                                   height |-> Base(p, x).height]))
  BY <1>1, <1>6, <1>7, <1>8 DEF reached
<1>11. hitReturnStat' \in BOOLEAN /\ ~hitReturnStat' /\ (y.containReturn <=> hitReturnStat')
  BY <1>1, <1>2, <1>3, <1>8 DEF Holds, Kept
<1>12. Len(ir'.blocks) = Len(ir.blocks)
  BY <1>1, <1>6
<1>13. /\ p = Front(open) /\ x = Inner /\ y.variables \cap Base(p, x).live = {}
       /\ y \in Scopes(Len(ir.blocks), statements + 1)
  BY <1>4, <1>8 DEF p, x
<1> QED  BY <1>1, <1>8, <1>9, <1>10, <1>11, <1>12, <1>13, AlikeStep

\* Nothing is emitted at the start of a block.
LEMMA EnterBlockHolds ==
  ASSUME IInv, EnterBlock
  PROVE  IInv'
<1> PICK want, U, r : Holds(want, U, r)
  BY DEF IInv
<1> DEFINE y == Scope("bare", <<>>)
           N == Len(ir.blocks)
           reached == ir.paths # {}
<1>1. /\ CompoundStatement /\ Statement /\ open # <<>> /\ Enter(y) /\ ir' = ir
      /\ blockStack' = blockStack /\ ~Inner.containReturn
  BY DEF EnterBlock, CompoundStatement, Statement
<1>2. /\ N \in Nat /\ statements \in Nat /\ ~hitReturnStat
  BY <1>1, InnerFacts, BoundsAssumption DEF Holds, Kept
<1>3. /\ y.kind = "bare" /\ y.own = <<>> /\ y.variables = {} /\ y.outer = {}
      /\ y.containReturn = FALSE /\ y.residual = nullptr
  BY DEF Scope
<1>4. y \in Scopes(N, statements + 1)
  <2>1. /\ <<>> \in Seq(0 .. N) /\ {} \in SUBSET Names(statements + 1) /\ FALSE \in BOOLEAN
        /\ 0 \in Nat /\ nullptr \in 0 .. N /\ "bare" \in LoopKinds \cup {"subroutine", "bare", "arm"}
    BY <1>2 DEF nullptr
  <2> HIDE DEF N
  <2> QED  BY <2>1 DEF Scope, Scopes
<1> HIDE DEF y
<1>5. DOMAIN y.own = {}
  BY <1>3
<1>6. Shape(y) /\ ~IsLoop(y) /\ Owned(y) = {} /\ DetachedOf(y) = {} /\ BegunOf(y) = {}
  BY <1>3, <1>5 DEF Shape, IsLoop, LoopKinds, Owned, DetachedOf, BegunOf
<1>7. Base(open, y) = Lexical(open)
  <2>1. Lexical(open).live \cup y.outer = Lexical(open).live /\ Lexical(open).height + 0 = Lexical(open).height
    <3>1. Lexical(open).height \in Nat
      <4>1. Lexical(open) \in Paths
        BY <1>1, InnerFacts
      <4> QED  BY <4>1 DEF Paths
    <3> QED  BY <1>3, <3>1
  <2> QED  BY <1>3, <2>1, StatesAreRecords DEF Base
<1>8. Emitted(ir', Detached(open) \cup DetachedOf(y), Begun(open) \cup BegunOf(y), U, want, 0,
              At(reached, Base(open, y)))
  <2>1. Emitted(ir, Detached(open), Begun(open), U, want, 0, At(reached, Lexical(open)))
    BY <1>1, <1>2, HereEmitted
  <2>2. Detached(open) \cup {} = Detached(open) /\ Begun(open) \cup {} = Begun(open)
    OBVIOUS
  <2> QED  BY <1>1, <1>6, <1>7, <2>1, <2>2
<1>9. /\ Expected(want, Owned(y), At(reached, Base(open, y)))
      /\ Owned(y) \cap (1 .. N) = {} /\ y.outer \cap Lexical(open).live = {}
      /\ N <= N /\ N = Len(ir'.blocks) /\ y.kind # "subroutine" /\ y.kind # "iterator"
      /\ blockStack' = IF IsLoop(y) THEN blockStack \o y.own ELSE blockStack
  BY <1>1, <1>2, <1>3, <1>6 DEF Expected
<1> QED
  <2>1. N = Len(ir.blocks) /\ reached = (ir.paths # {}) /\ Extended(want, U, want, U, N)
    BY DEF Extended
  <2> HIDE DEF N, reached
  <2> QED  BY <1>1, <1>2, <1>3, <1>4, <1>6, <1>8, <1>9, <2>1, PushStep

\* A block is left by freeing its variables; after a return, by an exit block
\* that nothing leads to.
LEMMA LeaveBlockHolds ==
  ASSUME IInv, LeaveBlock
  PROVE  IInv'
<1> PICK want, U, r : Holds(want, U, r)
  BY DEF IInv
<1> DEFINE p == Front(open)
           x == Inner
           N == Len(ir.blocks)
           D == Detached(open)
           H == Begun(open)
           Q == At(Len(open) <= r, Lexical(p))
<1>1. /\ open # <<>> /\ x.kind = "bare" /\ ir' = EndBlock(x) /\ Leave /\ blockStack' = blockStack
  BY DEF LeaveBlock
<1>2. /\ Fits(p, x, want, U, r) /\ D = Detached(p) \cup DetachedOf(x) /\ H = Begun(p) \cup BegunOf(x)
      /\ Held(open) \subseteq 1 .. N /\ (x.containReturn <=> hitReturnStat)
      /\ N \in Nat /\ Lexical(p) \in Paths
  BY <1>1, InnerFacts
<1>3. DetachedOf(x) = {} /\ BegunOf(x) = {} /\ ~IsLoop(x)
  BY <1>1 DEF DetachedOf, BegunOf, IsLoop, LoopKinds
<1>4. D = Detached(p) /\ H = Begun(p)
  BY <1>2, <1>3
<1>5. Base(p, x) = Lexical(p)
  <2>1. Lexical(p).live \cup x.outer = Lexical(p).live /\ Lexical(p).height + 0 = Lexical(p).height
    BY <1>1, <1>2 DEF Fits, Paths
  <2> QED  BY <1>1, <2>1, StatesAreRecords DEF Base
<1>6. CASE hitReturnStat
  <2> DEFINE want2 == Expect(want, {N + 1}, {})
             i == Create(ir)
  <2>1. Emitted(ir, D, H, U, want, 1, {})
    BY <1>1, <1>6 DEF Holds, SoFar
  <2>2. EndBlock(x) = SetInsertPoint(i, N + 1)
    BY <1>1, <1>2, <1>6 DEF EndBlock
  <2>3. /\ want \in Expectations /\ ir.paths \subseteq {} /\ DOMAIN ir.blocks = 1 .. N
        /\ H \subseteq DOMAIN ir.blocks
    BY <2>1 DEF Emitted, Arranged, Function
  <2>4. /\ want2 \in Expectations
        /\ \A b \in Nat : want2[b] = IF b \in {N + 1} THEN {} ELSE want[b]
    BY <2>3, ExpectMore
  <2> HIDE DEF want2
  <2>5. /\ \A b \in 1 .. N : want2[b] = want[b]
        /\ want2[N + 1] = {}
    <3>1. N + 1 \in Nat /\ \A b \in 1 .. N : b \in Nat /\ b # N + 1
      BY <1>2
    <3> QED  BY <2>4, <3>1
  <2> HIDE DEF i
  <2>6. Emitted(ir, D, H, U, want2, 1, {})
    BY ONLY <2>1, <2>3, <2>4, <2>5, Review
  <2>7. /\ Emitted(i, D, H \cup {N + 1}, U, want2, 1, {}) /\ Len(i.blocks) = N + 1
    BY <2>6, CreateEffect DEF i
  <2> DEFINE H1 == H \cup {N + 1}
  <2>8. N + 1 \in H1 /\ want2[N + 1] \subseteq Q /\ H1 \ {N + 1} = H
    BY <1>2, <2>3, <2>5
  <2>9. /\ Emitted(SetInsertPoint(i, N + 1), D, H, U, want2, 0, Q)
        /\ Len(SetInsertPoint(i, N + 1).blocks) = Len(i.blocks)
    <3>1. Emitted(i, D, H1, U, want2, 1, {})
      BY <2>7
    <3>2. N + 1 \in H1 /\ want2[N + 1] \subseteq Q
      BY <2>8
    <3> HIDE DEF Q, D, H1
    <3>3. /\ Emitted(SetInsertPoint(i, N + 1), D, H1 \ {N + 1}, U, want2, 0, Q)
          /\ Len(SetInsertPoint(i, N + 1).blocks) = Len(i.blocks)
      BY ONLY <3>1, <3>2, SetInsertPointEffect
    <3> QED  BY <2>8, <3>3
  <2>10. Emitted(ir', Detached(p), Begun(p), U, want2, 0, Q) /\ Len(ir'.blocks) = N + 1
    BY <1>1, <1>4, <2>2, <2>7, <2>9
  <2>11. /\ Extended(want2, U, want, U, N)
         /\ N + 1 \in Nat /\ N <= N + 1 /\ N = Len(ir.blocks)
    BY <1>2, <2>5 DEF Extended
  <2> HIDE DEF N
  <2> QED  BY <1>1, <1>3, <2>10, <2>11, PopStep
<1>7. CASE ~hitReturnStat
  <2>1. /\ Emitted(EndBlock(x), D, H, U, want, 0, At(Len(open) <= r, Base(p, x)))
        /\ Len(EndBlock(x).blocks) = N
    BY <1>1, <1>7, EndBlockOpen
  <2>2. Emitted(ir', Detached(p), Begun(p), U, want, 0, Q) /\ Len(ir'.blocks) = N
    BY <1>1, <1>4, <1>5, <2>1
  <2>3. /\ Extended(want, U, want, U, N)
        /\ N <= N /\ N = Len(ir.blocks)
    BY <1>2 DEF Extended
  <2> HIDE DEF N
  <2> QED  BY <1>1, <1>2, <1>3, <2>2, <2>3, PopStep
<1> QED  BY <1>6, <1>7

\* At the end of the subroutine only its parameter is left to free.
LEMMA LeaveSubroutineHolds ==
  ASSUME IInv, LeaveSubroutine
  PROVE  IInv'
<1> PICK want, U, r : Holds(want, U, r)
  BY DEF IInv
<1> DEFINE p == Front(open)
           x == Inner
           N == Len(ir.blocks)
           e == EndBlock(x)
           s == [live |-> {Parameter}, height |-> 0]
<1>1. /\ open # <<>> /\ x.kind = "subroutine"
      /\ ir' = IF x.containReturn THEN e ELSE CreateRet(Free(e, {Parameter}))
      /\ open' = <<>> /\ jump' = NoJump
      /\ blockStack' = blockStack /\ hitReturnStat' = hitReturnStat /\ statements' = statements
  BY DEF LeaveSubroutine, branch
<1>2. /\ Fits(p, x, want, U, r) /\ Detached(open) = Detached(p) \cup DetachedOf(x)
      /\ Begun(open) = Begun(p) \cup BegunOf(x)
      /\ (x.containReturn <=> hitReturnStat) /\ N \in Nat /\ r \in Nat
  BY <1>1, InnerFacts DEF Holds
<1>3. DetachedOf(x) = {} /\ BegunOf(x) = {} /\ p = <<>> /\ x.outer = {}
  BY <1>1, <1>2 DEF DetachedOf, BegunOf, IsLoop, LoopKinds, Fits
<1>4. Detached(open) = {} /\ Begun(open) = {} /\ Lexical(p) = s
  BY <1>2, <1>3, NoScopes
<1>5. Base(p, x) = s
  <2>1. Lexical(p).live \cup x.outer = {Parameter} /\ Lexical(p).height + 0 = 0
    BY <1>3, <1>4
  <2> QED  BY <1>1, <2>1 DEF Base
<1>6. Emitted(ir', {}, {}, U, want, 1, {}) /\ Len(ir'.blocks) = N
  <2>1. CASE hitReturnStat
    <3>1. e = ir
      BY <1>1, <1>2, <2>1 DEF EndBlock
    <3> QED  BY <1>1, <1>2, <1>4, <2>1, <3>1 DEF Holds, SoFar
  <2>2. CASE ~hitReturnStat
    <3> DEFINE reached == Len(open) <= r
               f == Free(e, {Parameter})
               after == [live |-> s.live \ {Parameter}, height |-> s.height]
    <3>1. Emitted(e, {}, {}, U, want, 0, At(reached, s)) /\ Len(e.blocks) = N
      <4>1. /\ Emitted(e, Detached(open), Begun(open), U, want, 0, At(reached, Base(p, x)))
            /\ Len(e.blocks) = N
        BY <1>1, <2>2, EndBlockOpen
      <4> HIDE DEF s, p, x, e, N, reached
      <4> QED  BY <1>4, <1>5, <4>1
    <3>2. s \in Paths /\ {Parameter} \subseteq s.live
      BY BoundsAssumption DEF Paths, Parameter
    <3>3. after.live = {} /\ after.height = 0
      OBVIOUS
    <3> HIDE DEF e, reached, s
    <3>4. Emitted(f, {}, {}, U, want, 0, At(reached, after)) /\ f.blocks = e.blocks
      BY ONLY <3>1, <3>2, FreeEffect
    <3> HIDE DEF after, f
    <3>5. Emitted(CreateRet(f), {}, {}, U, want, 1, {}) /\ Len(CreateRet(f).blocks) = Len(f.blocks)
      BY ONLY <3>3, <3>4, CreateRetEffect
    <3> QED  BY <1>1, <1>2, <2>2, <3>1, <3>4, <3>5 DEF f
  <2> QED  BY <2>1, <2>2
<1>7. SoFar(ir', open', hitReturnStat', want, U, r)
  BY <1>1, <1>6 DEF SoFar
<1>8. Well(open', want, U, r) /\ OnStack(open', blockStack')
  BY <1>1, NoScopes
<1>9. Kept'
  <2>1. open' \in Seq(Scopes(N, statements')) /\ DOMAIN open' = {}
    BY <1>1
  <2>2. /\ statements' \in 0 .. MaxStatements /\ hitReturnStat' \in BOOLEAN
        /\ blockStack' \in Seq(0 .. N)
    BY <1>1 DEF Holds, Kept
  <2> HIDE DEF N
  <2> QED  BY <1>1, <1>2, <1>6, <1>8, <2>1, <2>2, KeptNext
<1> QED  BY ONLY <1>2, <1>7, <1>8, <1>9, HoldsNext

(***************************************************************************)
(* A return.                                                               *)
(***************************************************************************)
\* The parameter is live all along, so no variable is the parameter.
LEMMA ParameterIsNoVariable ==
  ASSUME NEW want, NEW U, NEW r, Holds(want, U, r), open # <<>>
  PROVE  Parameter \notin AllVariables
<1> SUFFICES ASSUME NEW d \in DOMAIN open
             PROVE  Parameter \notin open[d].variables \cup open[d].outer
  BY DEF AllVariables
<1> DEFINE s == SubSeq(open, 1, d - 1)
<1>1. Fits(s, open[d], want, U, r)
  BY DEF Holds, Well
<1> HIDE DEF s
<1>2. Parameter \in Lexical(s).live /\ Parameter \in Base(s, open[d]).live
  BY DEF Lexical, Base
<1> QED  BY <1>1, <1>2 DEF Fits

\* Whatever is live is freed, and the runtime stack goes back to where the
\* subroutine found it.
LEMMA ReturnHolds ==
  ASSUME IInv, Return
  PROVE  IInv'
<1> PICK want, U, r : Holds(want, U, r)
  BY DEF IInv
<1> DEFINE p == Front(open)
           x == Inner
           N == Len(ir.blocks)
           D == Detached(open)
           H == Begun(open)
           A == AllVariables
           L == Lexical(open)
           reached == Len(open) <= r
           i1 == Free(ir, {Parameter})
           s1 == [live |-> L.live \ {Parameter}, height |-> L.height]
           i2 == Free(i1, A)
           s2 == [live |-> s1.live \ A, height |-> s1.height]
           i3 == StackRestore(i2, 0)
           s3 == [live |-> s2.live, height |-> 0]
           i4 == CreateRet(i3)
           y == [x EXCEPT !.containReturn = TRUE]
<1>1. /\ Statement /\ open # <<>> /\ ir' = i4 /\ hitReturnStat' = TRUE
      /\ open' = [open EXCEPT ![Len(open)].containReturn = TRUE]
      /\ jump' = NoJump /\ blockStack' = blockStack
  BY DEF Return, Statement
<1>2. /\ x \in Scopes(N, statements) /\ L \in Paths /\ (x.containReturn <=> hitReturnStat)
      /\ Fits(p, x, want, U, r) /\ N \in Nat /\ statements \in 0 .. MaxStatements /\ MaxStatements \in Nat
  BY <1>1, InnerFacts, BoundsAssumption DEF Holds, Kept
<1>3. Emitted(ir, D, H, U, want, 0, At(reached, L))
  <2>1. ~hitReturnStat
    BY <1>1, <1>2 DEF Statement
  <2> QED  BY <1>1, <2>1, HereEmitted
<1>4. L.live = {Parameter} \cup A /\ Parameter \notin A /\ L.height \in Nat
  BY <1>1, <1>2, ParameterIsNoVariable DEF Lexical, AllVariables, Paths
<1>5. /\ {Parameter} \subseteq L.live /\ s1 \in Paths /\ A \subseteq s1.live /\ s2 \in Paths
      /\ s3.live = {} /\ s3.height = 0 /\ s2.height \in Nat /\ 0 <= s2.height
  <2> HIDE DEF A, L
  <2> QED  BY <1>2, <1>4 DEF Paths
<1> HIDE DEF D, H, A, L, reached
<1>6. Emitted(i1, D, H, U, want, 0, At(reached, s1)) /\ i1.blocks = ir.blocks
  BY ONLY <1>2, <1>3, <1>5, FreeEffect
<1> HIDE DEF i1, s1
<1>7. Emitted(i2, D, H, U, want, 0, At(reached, s2)) /\ i2.blocks = i1.blocks
  BY ONLY <1>5, <1>6, FreeEffect
<1> HIDE DEF i2, s2
<1>8. Emitted(i3, D, H, U, want, 0, At(reached, s3)) /\ i3.blocks = i2.blocks
  <2>1. 0 \in Nat /\ (reached => 0 = 0 /\ 0 <= s2.height) /\ s2 \in Paths
    BY <1>5
  <2> QED  BY ONLY <1>7, <2>1, StackRestoreEffect
<1> HIDE DEF i3, s3
<1>9. Emitted(i4, D, H, U, want, 1, {}) /\ Len(i4.blocks) = Len(i3.blocks)
  BY ONLY <1>5, <1>8, CreateRetEffect
<1> HIDE DEF i4
<1>10. Len(ir'.blocks) = Len(ir.blocks)
  BY <1>1, <1>6, <1>7, <1>8, <1>9
<1>11. y \in Scopes(N, statements + 1) /\ Alike(x, y) /\ y.variables = x.variables /\ y.containReturn
  <2>1. x \in Scopes(N, statements + 1)
    <3>1. statements \in Nat /\ statements + 1 \in Nat /\ statements <= statements + 1 /\ N <= N
      BY <1>2
    <3> QED  BY ONLY <1>2, <3>1, ScopesGrow
  <2> HIDE DEF x, N
  <2>2. y \in Scopes(N, statements + 1) /\ y.containReturn
    BY <2>1 DEF Scopes
  <2>3. Alike(x, y) /\ y.variables = x.variables
    BY <2>1 DEF Scopes, Alike
  <2> QED  BY <2>2, <2>3
<1>12. open' = [open EXCEPT ![Len(open)] = y]
  BY <1>1 DEF Inner
<1>13. y.variables \cap Base(p, x).live = {}
  BY <1>2, <1>11 DEF Fits
<1>14. /\ hitReturnStat' \in BOOLEAN /\ hitReturnStat' /\ (y.containReturn <=> hitReturnStat')
       /\ Emitted(ir', Detached(open), Begun(open), U, want, 1, {})
  BY <1>1, <1>9, <1>11 DEF D, H
<1> HIDE DEF y
<1> QED  BY <1>1, <1>10, <1>11, <1>12, <1>13, <1>14, AlikeStep

(***************************************************************************)
(* The blocks of the innermost scope.                                      *)
(***************************************************************************)
\* The body of a scope other than an iterator loop begins in the state around it.
LEMMA SameBase ==
  ASSUME NEW s, NEW x, x.kind # "iterator", x.outer = {}, Lexical(s) \in Paths
  PROVE  Base(s, x) = Lexical(s)
<1>1. Lexical(s).live \cup x.outer = Lexical(s).live /\ Lexical(s).height + 0 = Lexical(s).height
  BY DEF Paths
<1> QED  BY <1>1, StatesAreRecords DEF Base

\* The blocks of the innermost scope expect the states around it, and wait in no
\* other scope.
LEMMA OwnedFacts ==
  ASSUME NEW want, NEW U, NEW r, Holds(want, U, r), open # <<>>,
         NEW p, p = Front(open), NEW x, x = Inner, NEW b \in Owned(x)
  PROVE  /\ want[b] = At(Len(open) <= r, Base(p, x)) /\ b \in 1 .. Len(ir.blocks)
         /\ b \notin Detached(p) /\ b \notin Begun(p) /\ b # nullptr
         /\ b \in DetachedOf(x) \cup BegunOf(x) => b \notin U
         /\ IsLoop(x) => b \notin U
         /\ x.kind # "iterator" => want[b] = At(Len(open) <= r, Lexical(p))
<1>1. /\ Fits(p, x, want, U, r) /\ Owned(x) \subseteq 1 .. Len(ir.blocks)
      /\ Detached(p) \subseteq Held(p) /\ Begun(p) \subseteq Held(p)
      /\ Len(open) = Len(p) + 1 /\ Len(p) \in Nat /\ r \in Nat /\ Lexical(p) \in Paths
      /\ Detached(open) = Detached(p) \cup DetachedOf(x) /\ Begun(open) = Begun(p) \cup BegunOf(x)
  BY InnerFacts DEF Holds
<1>2. want[b] = At(Len(open) <= r, Base(p, x))
  <2>1. want[b] = At(Len(p) < r, Base(p, x))
    BY <1>1 DEF Fits
  <2>2. Len(p) < r <=> Len(open) <= r
    BY ONLY <1>1
  <2> QED  BY <2>1, <2>2 DEF At
<1>3. b \notin Held(p) /\ (IsLoop(x) => b \notin U)
  BY <1>1 DEF Fits
<1>4. b \in DetachedOf(x) \cup BegunOf(x) => b \notin U
  <2>1. \E closed, P : Emitted(ir, Detached(open), Begun(open), U, want, closed, P)
    BY DEF Holds, SoFar
  <2> QED  BY <1>1, <2>1 DEF Emitted, Arranged
<1>5. x.kind # "iterator" => want[b] = At(Len(open) <= r, Lexical(p))
  <2> SUFFICES ASSUME x.kind # "iterator" PROVE want[b] = At(Len(open) <= r, Lexical(p))
    OBVIOUS
  <2>1. Base(p, x) = Lexical(p)
    BY <1>1, SameBase DEF Fits
  <2> QED  BY <1>2, <2>1
<1> QED  BY <1>1, <1>2, <1>3, <1>4, <1>5 DEF nullptr

\* The three blocks of an arm or of a loop without domains differ from each other.
LEMMA ThreeBlocks ==
  ASSUME NEW N, NEW st, NEW x \in Scopes(N, st), Shape(x),
         x.kind \in {"arm", "infinite", "prepred", "postpred"}
  PROVE  /\ x.own[1] \in Owned(x) /\ x.own[3] \in Owned(x)
         /\ x.kind # "infinite" => x.own[2] \in Owned(x)
         /\ x.own[1] # x.own[2] /\ x.own[1] # x.own[3] /\ x.own[2] # x.own[3]
         /\ Len(x.own) = 3 /\ DOMAIN x.own = 1 .. 3
<1>1. x.own \in Seq(0 .. N) /\ Len(x.own) = 3
  BY DEF Scopes, Shape
<1>2. DOMAIN x.own = 1 .. 3 /\ 1 \in DOMAIN x.own /\ 2 \in DOMAIN x.own /\ 3 \in DOMAIN x.own
  BY <1>1
<1>3. x.own[1] # nullptr /\ x.own[3] # nullptr /\ (x.kind # "infinite" => x.own[2] # nullptr)
  BY <1>2 DEF Shape
<1>4. x.own[1] # x.own[2] /\ x.own[1] # x.own[3] /\ x.own[2] # x.own[3]
  BY <1>2 DEF Shape
<1> QED  BY <1>1, <1>2, <1>3, <1>4 DEF Owned

(***************************************************************************)
(* Conditionals.                                                           *)
(***************************************************************************)
\* The end of a branch leads to the merge block.
LEMMA EndArmEffect ==
  ASSUME NEW want, NEW U, NEW r, Holds(want, U, r), open # <<>>, Inner.kind = "arm"
  PROVE  /\ Emitted(EndArm, Detached(open), Begun(open), U, want, 1, {})
         /\ Len(EndArm.blocks) = Len(ir.blocks)
<1> DEFINE x == Inner
<1>1. Fits(Front(open), x, want, U, r) /\ x \in Scopes(Len(ir.blocks), statements)
  BY InnerFacts
<1>2. x.own[3] \in Owned(x)
  BY <1>1, ThreeBlocks DEF Fits
<1>3. x.own[3] \in DetachedOf(x)
  BY DEF DetachedOf
<1>4. x.own[3] \notin U
  BY <1>2, <1>3, OwnedFacts
<1>5. EndArm = IF hitReturnStat THEN EndBlock(x) ELSE CreateBr(EndBlock(x), x.own[3])
  BY DEF EndArm
<1> HIDE DEF x
<1> QED  BY <1>2, <1>4, <1>5, EndOfBody DEF x

\* After the last branch the merge block is where the code goes on.
LEMMA LeaveConditionalHolds ==
  ASSUME IInv, LeaveConditional
  PROVE  IInv'
<1> PICK want, U, r : Holds(want, U, r)
  BY DEF IInv
<1> DEFINE p == Front(open)
           x == Inner
           N == Len(ir.blocks)
           D == Detached(open)
           H == Begun(open)
           Q == At(Len(open) <= r, Lexical(p))
           merge == x.own[3]
           i == EndArm
           j == SetInsertPoint(Place(i, merge), merge)
<1>1. /\ open # <<>> /\ x.kind = "arm" /\ x.elseIfs = 0 /\ ~x.hasElse
      /\ ir' = j /\ Leave /\ blockStack' = blockStack
  BY DEF LeaveConditional
<1>2. /\ Fits(p, x, want, U, r) /\ D = Detached(p) \cup DetachedOf(x) /\ H = Begun(p) \cup BegunOf(x)
      /\ x \in Scopes(N, statements) /\ N \in Nat /\ Lexical(p) \in Paths
  BY <1>1, InnerFacts
<1>3. DetachedOf(x) = {merge} /\ BegunOf(x) = {} /\ ~IsLoop(x)
  BY <1>1 DEF DetachedOf, BegunOf, IsLoop, LoopKinds
<1>4. merge \in Owned(x)
  BY <1>1, <1>2, ThreeBlocks DEF Fits
<1>5. merge \notin Detached(p) /\ want[merge] \subseteq Q
  BY <1>1, <1>4, OwnedFacts
<1>6. merge \in D /\ D \ {merge} = Detached(p) /\ H = Begun(p)
  BY <1>2, <1>3, <1>5
<1>7. Emitted(i, D, H, U, want, 1, {}) /\ Len(i.blocks) = N
  BY <1>1, EndArmEffect
<1> HIDE DEF merge, D, H, Q, i
<1>8. Emitted(j, D \ {merge}, H, U, want, 0, Q) /\ Len(j.blocks) = Len(i.blocks)
  BY ONLY <1>5, <1>6, <1>7, PlaceAndGoEffect
<1> HIDE DEF j
<1>9. Emitted(ir', Detached(p), Begun(p), U, want, 0, Q) /\ Len(ir'.blocks) = N
  BY <1>1, <1>6, <1>7, <1>8
<1>10. /\ Extended(want, U, want, U, N)
       /\ N <= N /\ N = Len(ir.blocks)
  BY <1>2 DEF Extended
<1> HIDE DEF N
<1> QED  BY <1>1, <1>2, <1>3, <1>9, <1>10, PopStep DEF Q

\* The scope of a branch that has the blocks of the one before.
LEMMA NextBranch ==
  ASSUME NEW x, Shape(x), x.kind = "arm", NEW y, y.kind = "arm", y.own = x.own,
         y.residual # nullptr => y.residual \notin Owned(x) \/ y.residual = x.residual
  PROVE  Shape(y) /\ Owned(y) \subseteq Owned(x) \cup ({y.residual} \ {nullptr})
<1>1. Owned(y) \subseteq Owned(x) \cup ({y.residual} \ {nullptr})
  BY DEF Owned
<1>2. \A k \in DOMAIN x.own : x.own[k] # nullptr /\ x.own[k] \in Owned(x)
  BY DEF Shape, Owned
<1>3. y.residual # nullptr => \A k \in DOMAIN x.own : x.own[k] # y.residual
  BY <1>2 DEF Shape
<1>4. Shape(y)
  BY <1>3 DEF Shape
<1> QED  BY <1>1, <1>4

\* The else branch is put in the function and filled.
LEMMA ElseHolds ==
  ASSUME IInv, Else
  PROVE  IInv'
<1> PICK want, U, r : Holds(want, U, r)
  BY DEF IInv
<1> DEFINE p == Front(open)
           x == Inner
           N == Len(ir.blocks)
           D == Detached(open)
           H == Begun(open)
           Q == At(Len(open) <= r, Lexical(p))
           otherwise == x.own[2]
           y == Scope("arm", x.own)
           i == EndArm
           j == SetInsertPoint(Place(i, otherwise), otherwise)
<1>1. /\ open # <<>> /\ x.kind = "arm" /\ x.elseIfs = 0 /\ x.hasElse /\ ir' = j /\ NextArm(y)
  BY DEF Else
<1>2. /\ Fits(p, x, want, U, r) /\ D = Detached(p) \cup DetachedOf(x) /\ H = Begun(p) \cup BegunOf(x)
      /\ x \in Scopes(N, statements) /\ N \in Nat /\ statements \in Nat
  BY <1>1, InnerFacts, BoundsAssumption DEF Holds, Kept
<1>3. DetachedOf(x) = {otherwise, x.own[3]} /\ BegunOf(x) = {}
  BY <1>1 DEF DetachedOf, BegunOf
<1>4. /\ otherwise \in Owned(x) /\ otherwise # x.own[3]
  BY <1>1, <1>2, ThreeBlocks DEF Fits
<1>5. otherwise \notin Detached(p) /\ want[otherwise] \subseteq Q
  BY <1>1, <1>4, OwnedFacts
<1>6. otherwise \in D /\ D \ {otherwise} = Detached(p) \cup {x.own[3]} /\ H = Begun(p)
  BY <1>2, <1>3, <1>4, <1>5
<1>7. Emitted(i, D, H, U, want, 1, {}) /\ Len(i.blocks) = N
  BY <1>1, EndArmEffect
<1> HIDE DEF otherwise, D, H, Q, i
<1>8. Emitted(j, D \ {otherwise}, H, U, want, 0, Q) /\ Len(j.blocks) = Len(i.blocks)
  BY ONLY <1>5, <1>6, <1>7, PlaceAndGoEffect
<1> HIDE DEF j
<1>9. /\ y.kind = "arm" /\ y.variables = {} /\ y.containReturn = FALSE /\ y.outer = {}
      /\ y.own = x.own /\ y.elseIfs = 0 /\ y.hasElse = FALSE /\ y.residual = nullptr
  BY DEF Scope
<1>10. y \in Scopes(N, statements) /\ Shape(y) /\ Owned(y) \subseteq Owned(x)
  <2>1. y \in Scopes(N, statements)
    <3>1. /\ {} \in SUBSET Names(statements) /\ FALSE \in BOOLEAN /\ 0 \in Nat /\ x.own \in Seq(0 .. N)
          /\ "arm" \in LoopKinds \cup {"subroutine", "bare", "arm"} /\ nullptr \in 0 .. N
      BY <1>2 DEF Scopes, nullptr
    <3> HIDE DEF N, x
    <3> QED  BY <3>1 DEF Scope, Scopes
  <2>2. Shape(x)
    BY <1>2 DEF Fits
  <2> HIDE DEF x, y
  <2> QED  BY <1>1, <1>9, <2>1, <2>2, NextBranch
<1> HIDE DEF y
<1>11. DetachedOf(y) = {x.own[3]} /\ BegunOf(y) = {}
  BY <1>9 DEF DetachedOf, BegunOf
<1>12. Emitted(ir', Detached(p) \cup DetachedOf(y), Begun(p) \cup BegunOf(y), U, want, 0, Q)
  <2>1. Begun(p) \cup {} = Begun(p)
    OBVIOUS
  <2> QED  BY <1>1, <1>6, <1>8, <1>11, <2>1
<1>13. /\ Owned(y) \cap Held(p) = {}
       /\ Expected(want, Owned(y), Q)
  <2>1. Owned(y) \subseteq Owned(x)
    BY <1>10
  <2>2. \A b \in Owned(x) : want[b] = At(Len(open) <= r, Lexical(p))
    BY <1>1, OwnedFacts
  <2> QED  BY <1>2, <2>1, <2>2 DEF Fits, Q, Expected
<1>14. /\ Extended(want, U, want, U, N)
       /\ N <= N /\ N = Len(ir.blocks) /\ N = Len(ir'.blocks)
  BY <1>1, <1>2, <1>7, <1>8 DEF Extended
<1> USE DEF Q
<1>15. p = Front(open) /\ x = Inner /\ Q = At(Len(open) <= r, Lexical(p))
  OBVIOUS
<1> HIDE DEF N, p, x, Q
<1> QED  BY ONLY Holds(want, U, r), <1>1, <1>2, <1>9, <1>10, <1>12, <1>13, <1>14, <1>15, ChangeStep

\* The header of an else-if tests its condition, and leads to its body or on
\* to what follows: the next header, the else branch or the merge block.
LEMMA ElseIfHolds ==
  ASSUME IInv, ElseIf
  PROVE  IInv'
<1> PICK want, U, r : Holds(want, U, r)
  BY DEF IInv
<1> DEFINE p == Front(open)
           x == Inner
           N == Len(ir.blocks)
           D == Detached(open)
           H == Begun(open)
           Q == At(Len(open) <= r, Lexical(p))
           first == x.residual = nullptr
           header == IF first THEN x.own[1] ELSE x.residual
           last == x.elseIfs = 1
           i == EndArm
           placed == IF first THEN Place(i, header) ELSE i
           started == SetInsertPoint(placed, header)
           bodied == Create(started)
           body == Len(bodied.blocks)
           created == IF last THEN bodied ELSE Create(bodied)
           next == IF ~last THEN body + 1
                   ELSE IF x.hasElse THEN x.own[2] ELSE x.own[3]
           tested == CreateCondBr(created, body, next)
           j == SetInsertPoint(tested, body)
           residual == IF last THEN x.residual ELSE next
           y == [Scope("arm", x.own) EXCEPT !.elseIfs = x.elseIfs - 1, !.hasElse = x.hasElse,
                                            !.residual = residual]
           D1 == Detached(p) \cup {x.own[3]} \cup (IF x.hasElse THEN {x.own[2]} ELSE {})
           H1 == Begun(p) \cup {N + 1}
           H2 == IF last THEN H1 ELSE H1 \cup {N + 2}
           N2 == IF last THEN N + 1 ELSE N + 2
           want2 == Expect(want, {N + 1, N + 2}, Q)
<1>1. /\ open # <<>> /\ x.kind = "arm" /\ x.elseIfs > 0 /\ ir' = j /\ NextArm(y)
  BY DEF ElseIf
<1>2. /\ Fits(p, x, want, U, r) /\ D = Detached(p) \cup DetachedOf(x) /\ H = Begun(p) \cup BegunOf(x)
      /\ x \in Scopes(N, statements) /\ N \in Nat /\ statements \in Nat /\ Lexical(p) \in Paths
      /\ Detached(p) \subseteq Held(p) /\ Begun(p) \subseteq Held(p) /\ Held(p) \subseteq 1 .. N
      /\ Owned(x) \subseteq 1 .. N
  BY <1>1, InnerFacts, BoundsAssumption DEF Holds, Kept
<1>3. /\ x.residual \in 0 .. N /\ x.elseIfs \in Nat /\ x.hasElse \in BOOLEAN /\ x.own \in Seq(0 .. N)
      /\ Shape(x)
  BY <1>2 DEF Scopes, Fits
<1>4. /\ x.own[1] \in Owned(x) /\ x.own[2] \in Owned(x) /\ x.own[3] \in Owned(x)
      /\ x.own[1] # x.own[2] /\ x.own[1] # x.own[3]
  BY <1>1, <1>2, <1>3, ThreeBlocks
<1>5. header \in Owned(x)
  BY <1>4 DEF Owned
<1>6. \A b \in Owned(x) : want[b] = Q /\ b \in 1 .. N /\ b \notin Detached(p) /\ b \notin Begun(p)
  BY <1>1, OwnedFacts
<1>7. header \notin {x.own[3], x.own[2]}
  <2>1. CASE first
    BY <1>4, <2>1
  <2>2. CASE ~first
    <3>1. DOMAIN x.own = 1 .. 3
      BY <1>1, <1>2, <1>3, ThreeBlocks
    <3>2. 2 \in DOMAIN x.own /\ 3 \in DOMAIN x.own
      BY <3>1
    <3> QED  BY <1>3, <2>2, <3>2 DEF Shape
  <2> QED  BY <2>1, <2>2
<1>8. Emitted(i, D, H, U, want, 1, {}) /\ Len(i.blocks) = N
  BY <1>1, EndArmEffect
<1>9. Emitted(started, D1, Begun(p), U, want, 0, Q) /\ Len(started.blocks) = N
  <2>1. want[header] \subseteq Q
    BY <1>5, <1>6
  <2>2. CASE first
    <3>1. DetachedOf(x) = {x.own[3]} \cup (IF x.hasElse THEN {x.own[2]} ELSE {}) \cup {x.own[1]}
      BY <1>1, <2>2 DEF DetachedOf
    <3>2. BegunOf(x) = {}
      BY <1>1, <2>2 DEF BegunOf
    <3>3. header \in D /\ D \ {header} = D1 /\ H = Begun(p)
      BY <1>2, <1>5, <1>6, <1>7, <2>2, <3>1, <3>2
    <3>4. started = SetInsertPoint(Place(i, header), header)
      BY <2>2
    <3> HIDE DEF header, D, H, Q, D1, i, started
    <3>5. Emitted(started, D \ {header}, H, U, want, 0, Q) /\ Len(started.blocks) = Len(i.blocks)
      BY ONLY <1>8, <2>1, <3>3, <3>4, PlaceAndGoEffect
    <3> QED  BY <1>8, <3>3, <3>5
  <2>3. CASE ~first
    <3>1. DetachedOf(x) = {x.own[3]} \cup (IF x.hasElse THEN {x.own[2]} ELSE {})
      BY <1>1, <2>3 DEF DetachedOf
    <3>2. BegunOf(x) = {header}
      BY <1>1, <2>3 DEF BegunOf
    <3>3. header \in H /\ H \ {header} = Begun(p) /\ D = D1
      BY <1>2, <1>5, <1>6, <3>1, <3>2
    <3>4. started = SetInsertPoint(i, header)
      BY <2>3
    <3> HIDE DEF header, D, H, Q, D1, i, started
    <3>5. Emitted(started, D, H \ {header}, U, want, 0, Q) /\ Len(started.blocks) = Len(i.blocks)
      BY ONLY <1>8, <2>1, <3>3, <3>4, SetInsertPointEffect
    <3> QED  BY <1>8, <3>3, <3>5
  <2> QED  BY <2>2, <2>3
<1>10. Q \in SUBSET Paths /\ \A q1, q2 \in Q : q1 = q2
  BY <1>2, AtMostOne
<1> HIDE DEF started, i, Q, want2, D1
<1>11. /\ want \in Expectations /\ DOMAIN started.blocks = 1 .. N /\ started.paths \subseteq Q
       /\ U \subseteq 1 .. N /\ D1 \cap U = {}
  BY <1>9, EmittedType DEF Emitted, Arranged
<1>12. /\ want2 \in Expectations
       /\ \A b \in Nat : want2[b] = IF b \in {N + 1, N + 2} THEN Q ELSE want[b]
  BY <1>10, <1>11, ExpectMore DEF want2
<1>13. want2[N + 1] = Q /\ want2[N + 2] = Q /\ \A b \in 1 .. N : want2[b] = want[b]
  <2>1. N + 1 \in Nat /\ N + 2 \in Nat /\ \A b \in 1 .. N : b \in Nat /\ b # N + 1 /\ b # N + 2
    BY <1>2
  <2> QED  BY <1>12, <2>1
<1>14. Emitted(started, D1, Begun(p), U, want2, 0, Q)
  BY ONLY <1>9, <1>11, <1>12, <1>13, Review
<1>15. Emitted(bodied, D1, H1, U, want2, 0, Q) /\ body = N + 1
  BY <1>9, <1>14, CreateEffect
<1> HIDE DEF bodied
<1>16. Emitted(created, D1, H2, U, want2, 0, Q) /\ Len(created.blocks) = N2
  <2>1. CASE last
    BY <1>15, <2>1
  <2>2. CASE ~last
    <3>1. /\ Emitted(Create(bodied), D1, H1 \cup {Len(bodied.blocks) + 1}, U, want2, 0, Q)
          /\ Len(Create(bodied).blocks) = Len(bodied.blocks) + 1
      BY <1>15, CreateEffect
    <3>2. N + 1 + 1 = N + 2
      BY <1>2
    <3> QED  BY <1>15, <2>2, <3>1, <3>2
  <2> QED  BY <2>1, <2>2
<1> HIDE DEF created
<1>17. /\ body \in DOMAIN created.blocks \ U /\ next \in DOMAIN created.blocks \ U
       /\ Q \subseteq want2[body] /\ Q \subseteq want2[next]
  <2>1. DOMAIN created.blocks = 1 .. N2 /\ N2 \in Nat /\ N + 1 \in 1 .. N2 /\ 1 .. N \subseteq 1 .. N2
    BY <1>2, <1>16, EmittedType
  <2>2. body \notin U /\ body \in 1 .. N2 /\ want2[body] = Q
    BY <1>2, <1>11, <1>13, <1>15, <2>1
  <2>3. next \in 1 .. N2 /\ next \notin U /\ want2[next] = Q
    <3>1. CASE last
      <4>1. next \in Owned(x) /\ next \in D1
        BY <1>4, <3>1 DEF D1
      <4> QED  BY <1>6, <1>11, <1>13, <2>1, <4>1
    <3>2. CASE ~last
      <4>1. next = N + 2 /\ N2 = N + 2
        BY <1>2, <1>15, <3>2
      <4> QED  BY <1>2, <1>11, <1>13, <4>1
    <3> QED  BY <3>1, <3>2
  <2> QED  BY <2>1, <2>2, <2>3
<1> HIDE DEF next, H2
<1>18. Emitted(tested, D1, H2, U, want2, 1, {}) /\ Len(tested.blocks) = N2
  BY <1>16, <1>17, CreateCondBrEffect
<1> HIDE DEF tested
<1>19. Emitted(j, D1, H2 \ {body}, U, want2, 0, Q) /\ Len(j.blocks) = N2
  <2>1. body \in H2 /\ want2[body] \subseteq Q
    BY <1>13, <1>15 DEF H2
  <2> HIDE DEF body, N2
  <2> QED  BY <1>18, <2>1, SetInsertPointEffect
<1> HIDE DEF j
<1>20. H2 \ {body} = Begun(p) \cup (IF last THEN {} ELSE {N + 2})
  <2>1. N + 1 \notin Begun(p) /\ N + 2 # N + 1
    BY <1>2
  <2> QED  BY <1>15, <2>1 DEF H2
<1>21. /\ y.kind = "arm" /\ y.variables = {} /\ y.containReturn = FALSE /\ y.outer = {} /\ y.height = 0
       /\ y.own = x.own /\ y.elseIfs = x.elseIfs - 1 /\ y.hasElse = x.hasElse /\ y.residual = residual
  BY DEF Scope
<1>22. N2 \in Nat /\ N <= N2 /\ residual \in 0 .. N2 /\ (~last => residual = N + 2)
       /\ (last => residual = x.residual) /\ x.elseIfs - 1 \in Nat
  BY <1>1, <1>2, <1>3, <1>15 DEF next
<1>23. y \in Scopes(N2, statements)
  <2>1. x.own \in Seq(0 .. N2)
    <3>1. 0 .. N \subseteq 0 .. N2
      BY <1>2, <1>22
    <3> QED  BY <1>3, <3>1, SeqMonotonic
  <2>2. /\ {} \in SUBSET Names(statements) /\ FALSE \in BOOLEAN /\ 0 \in Nat
        /\ "arm" \in LoopKinds \cup {"subroutine", "bare", "arm"}
    OBVIOUS
  <2> HIDE DEF x, N2, residual
  <2> QED  BY <1>3, <1>22, <2>1, <2>2 DEF Scope, Scopes
<1> HIDE DEF y, residual
<1>24. Shape(y) /\ Owned(y) \subseteq Owned(x) \cup ({residual} \ {nullptr})
  <2>1. y.residual # nullptr => y.residual \notin Owned(x) \/ y.residual = x.residual
    BY <1>2, <1>21, <1>22
  <2> HIDE DEF x
  <2> QED  BY <1>1, <1>3, <1>21, <2>1, NextBranch
<1>25. /\ DetachedOf(y) = {x.own[3]} \cup (IF x.hasElse THEN {x.own[2]} ELSE {})
       /\ BegunOf(y) = IF last THEN {} ELSE {N + 2}
  <2>1. CASE last
    <3>1. ~(y.elseIfs > 0)
      BY <1>21, <2>1
    <3> QED  BY <1>21, <2>1, <3>1 DEF DetachedOf, BegunOf
  <2>2. CASE ~last
    <3>1. y.elseIfs > 0 /\ y.residual = N + 2 /\ y.residual # nullptr
      BY <1>1, <1>2, <1>3, <1>21, <1>22, <2>2 DEF nullptr
    <3> QED  BY <1>21, <2>2, <3>1 DEF DetachedOf, BegunOf
  <2> QED  BY <2>1, <2>2
<1>26. Emitted(ir', Detached(p) \cup DetachedOf(y), Begun(p) \cup BegunOf(y), U, want2, 0, Q)
  <2>1. D1 = Detached(p) \cup DetachedOf(y)
    BY <1>25 DEF D1
  <2> QED  BY <1>1, <1>19, <1>20, <1>25, <2>1
<1>27. Owned(y) \cap Held(p) = {} /\ Expected(want2, Owned(y), Q)
  <2>1. Owned(x) \cap Held(p) = {}
    BY <1>2 DEF Fits
  <2>2. \A b \in Owned(x) : want2[b] = Q
    BY <1>6, <1>13
  <2>3. residual # nullptr => residual \in Owned(x) \/ (residual \notin 1 .. N /\ want2[residual] = Q)
    <3>1. CASE last
      BY <1>22, <3>1 DEF Owned
    <3>2. CASE ~last
      BY <1>2, <1>13, <1>22, <3>2
    <3> QED  BY <3>1, <3>2
  <2> QED  BY <1>2, <1>24, <2>1, <2>2, <2>3 DEF Expected
<1>28. Extended(want2, U, want, U, N) /\ N = Len(ir.blocks) /\ N2 = Len(ir'.blocks)
  BY <1>1, <1>13, <1>19 DEF Extended
<1>29. p = Front(open) /\ x = Inner /\ Q = At(Len(open) <= r, Lexical(p))
  BY DEF Q
<1> HIDE DEF N, N2, p, x, Q
<1> QED  BY ONLY Holds(want, U, r), <1>1, <1>2, <1>21, <1>22, <1>23, <1>24, <1>26, <1>27, <1>28, <1>29,
                 ChangeStep

\* A new scope with three blocks.
LEMMA NewThreeBlocks ==
  ASSUME NEW N \in Nat, NEW y, NEW a \in 1 .. N, NEW b \in 0 .. N, NEW c \in 1 .. N,
         y.own = <<a, b, c>>, a # b, a # c, b # c, y.residual = nullptr,
         y.kind \in {"arm", "infinite", "prepred", "postpred"}, b = nullptr <=> y.kind = "infinite"
  PROVE  /\ Shape(y) /\ y.own \in Seq(0 .. N) /\ Owned(y) = {a, b, c} \ {nullptr} /\ Len(y.own) = 3
         /\ y.own[1] = a /\ y.own[2] = b /\ y.own[3] = c
<1>1. /\ y.own \in Seq(0 .. N) /\ Len(y.own) = 3 /\ DOMAIN y.own = {1, 2, 3}
      /\ y.own[1] = a /\ y.own[2] = b /\ y.own[3] = c
  OBVIOUS
<1>2. a # nullptr /\ c # nullptr
  BY DEF nullptr
<1>3. Shape(y)
  BY <1>1, <1>2 DEF Shape
<1>4. Owned(y) = {a, b, c} \ {nullptr}
  BY <1>1, <1>2 DEF Owned
<1> QED  BY <1>1, <1>3, <1>4

\* The condition is tested in the header; the body of the first branch is
\* visited next.
LEMMA EnterConditionalHolds ==
  ASSUME IInv, NEW elseIfs \in ElseIfs, NEW hasElse \in BOOLEAN, EnterConditional(elseIfs, hasElse)
  PROVE  IInv'
<1> PICK want, U, r : Holds(want, U, r)
  BY DEF IInv
<1> DEFINE N == Len(ir.blocks)
           header == N + 1
           body == N + 2
           elseIf == N + 3
           otherwise == N + 4
           merge == N + 5
           c1 == Create(ir)
           c2 == Create(c1)
           c3 == CreateDetached(c2)
           c4 == CreateDetached(c3)
           c5 == CreateDetached(c4)
           entered == CreateBr(c5, header)
           started == SetInsertPoint(entered, header)
           next == IF elseIfs > 0 THEN elseIf ELSE IF hasElse THEN otherwise ELSE merge
           tested == CreateCondBr(started, body, next)
           j == SetInsertPoint(tested, body)
           y == [Scope("arm", <<elseIf, otherwise, merge>>) EXCEPT
                   !.elseIfs = elseIfs, !.hasElse = hasElse]
           D == Detached(open)
           H == Begun(open)
           D3 == D \cup (IF elseIfs > 0 THEN {elseIf} ELSE {})
           U3 == U \cup (IF elseIfs > 0 THEN {} ELSE {elseIf})
           D4 == D3 \cup (IF hasElse THEN {otherwise} ELSE {})
           U2 == U3 \cup (IF hasElse THEN {} ELSE {otherwise})
           D2 == D4 \cup {merge}
           L == Lexical(open)
           reached == ir.paths # {}
           Q == At(reached, L)
           H2 == (H \cup {header}) \cup {body}
           want2 == Expect(want, {header, body, elseIf, otherwise, merge}, Q)
<1>1. /\ CompoundStatement /\ Statement /\ open # <<>> /\ ~Inner.containReturn
      /\ ir' = j /\ Enter(y) /\ blockStack' = blockStack
  BY DEF EnterConditional, CompoundStatement, Statement
<1>2. /\ N \in Nat /\ statements \in Nat /\ ~hitReturnStat /\ L \in Paths /\ elseIfs \in Nat
      /\ Held(open) \subseteq 1 .. N
  BY <1>1, InnerFacts, BoundsAssumption, ElseIfsAssumption DEF Holds, Kept
<1>3. Emitted(ir, D, H, U, want, 0, Q)
  BY <1>1, <1>2, HereEmitted
<1>4. /\ want \in Expectations /\ DOMAIN ir.blocks = 1 .. N /\ ir.paths \subseteq Q
      /\ U \subseteq 1 .. N /\ D \subseteq 1 .. N /\ H \subseteq 1 .. N
  <2> HIDE DEF N, D, H, Q
  <2>1. want \in Expectations /\ DOMAIN ir.blocks = 1 .. Len(ir.blocks)
    BY ONLY <1>3, EmittedType
  <2>2. /\ ir.paths \subseteq Q /\ U \subseteq DOMAIN ir.blocks
        /\ D \subseteq DOMAIN ir.blocks /\ H \subseteq DOMAIN ir.blocks
    BY <1>3 DEF Emitted, Arranged
  <2> QED  BY <2>1, <2>2 DEF N
<1>5. Q \in SUBSET Paths /\ \A q1, q2 \in Q : q1 = q2
  BY <1>2, AtMostOne
<1> HIDE DEF Q, want2
<1>6. /\ want2 \in Expectations
      /\ \A b \in Nat : want2[b] = IF b \in {header, body, elseIf, otherwise, merge} THEN Q ELSE want[b]
  BY <1>4, <1>5, ExpectMore DEF want2
<1>7. /\ \A b \in {header, body, elseIf, otherwise, merge} : want2[b] = Q
      /\ \A b \in 1 .. N : want2[b] = want[b]
  <2>1. /\ \A b \in {header, body, elseIf, otherwise, merge} : b \in Nat
        /\ \A b \in 1 .. N : b \in Nat /\ b \notin {header, body, elseIf, otherwise, merge}
    BY <1>2
  <2> QED  BY <1>6, <2>1
<1> HIDE DEF D, H
<1>8. Emitted(ir, D, H, U, want2, 0, Q)
  BY ONLY <1>3, <1>4, <1>6, <1>7, Review
<1>9. Emitted(c1, D, H \cup {header}, U, want2, 0, Q) /\ Len(c1.blocks) = N + 1
  BY <1>8, CreateEffect
<1> HIDE DEF c1
<1>10. Emitted(c2, D, H2, U, want2, 0, Q) /\ Len(c2.blocks) = N + 2
  <2>1. /\ Emitted(c2, D, (H \cup {header}) \cup {Len(c1.blocks) + 1}, U, want2, 0, Q)
        /\ Len(c2.blocks) = Len(c1.blocks) + 1
    BY ONLY <1>9, CreateEffect DEF c2
  <2>2. N + 1 + 1 = N + 2
    BY <1>2
  <2> QED  BY <1>9, <2>1, <2>2
<1> HIDE DEF c2, H2
<1>11. Emitted(c3, D3, H2, U3, want2, 0, Q) /\ Len(c3.blocks) = N + 3
  <2>1. /\ Emitted(c3, D \cup (IF elseIfs > 0 THEN {Len(c2.blocks) + 1} ELSE {}), H2,
                   U \cup (IF elseIfs > 0 THEN {} ELSE {Len(c2.blocks) + 1}), want2, 0, Q)
        /\ Len(c3.blocks) = Len(c2.blocks) + 1
    BY <1>10, CreateEitherEffect
  <2>2. N + 2 + 1 = N + 3
    BY <1>2
  <2> QED  BY <1>10, <2>1, <2>2
<1> HIDE DEF c3
<1>12. Emitted(c4, D4, H2, U2, want2, 0, Q) /\ Len(c4.blocks) = N + 4
  <2> HIDE DEF D3, U3
  <2>1. /\ Emitted(c4, D3 \cup (IF hasElse THEN {Len(c3.blocks) + 1} ELSE {}), H2,
                   U3 \cup (IF hasElse THEN {} ELSE {Len(c3.blocks) + 1}), want2, 0, Q)
        /\ Len(c4.blocks) = Len(c3.blocks) + 1
    BY <1>11, CreateEitherEffect
  <2>2. N + 3 + 1 = N + 4
    BY <1>2
  <2> QED  BY <1>11, <2>1, <2>2
<1> HIDE DEF c4
<1>13. Emitted(c5, D2, H2, U2, want2, 0, Q) /\ Len(c5.blocks) = N + 5
  <2> HIDE DEF D4, U2
  <2>1. /\ Emitted(c5, D4 \cup {Len(c4.blocks) + 1}, H2, U2, want2, 0, Q)
        /\ Len(c5.blocks) = Len(c4.blocks) + 1
    BY <1>12, CreateDetachedEffect
  <2>2. N + 4 + 1 = N + 5
    BY <1>2
  <2> QED  BY <1>12, <2>1, <2>2
<1> HIDE DEF c5
<1>14. header \notin U2 /\ body \notin U2 /\ next \notin U2
  <2>1. header \notin U /\ body \notin U /\ elseIf \notin U /\ otherwise \notin U /\ merge \notin U
    BY <1>2, <1>4
  <2>2. header # elseIf /\ header # otherwise /\ body # elseIf /\ body # otherwise
        /\ elseIf # otherwise /\ merge # elseIf /\ merge # otherwise
    BY <1>2
  <2> HIDE DEF header, body, elseIf, otherwise, merge
  <2> QED  BY <2>1, <2>2
<1>15. {header, body, next} \subseteq 1 .. N + 5 /\ want2[next] = Q /\ want2[header] = Q /\ want2[body] = Q
  BY <1>2, <1>7
<1>16. (H2 \ {header}) \ {body} = H /\ header \in H2 /\ body \in H2 \ {header}
  <2>1. header \notin H /\ body \notin H /\ header # body
    BY <1>2, <1>4
  <2> QED  BY <2>1 DEF H2
<1> HIDE DEF header, body, next, D2, U2
<1>17. Emitted(entered, D2, H2, U2, want2, 1, {}) /\ Len(entered.blocks) = N + 5
  <2>1. header \in DOMAIN c5.blocks \ U2 /\ Q \subseteq want2[header]
    BY <1>13, <1>14, <1>15, EmittedType
  <2> QED  BY <1>13, <2>1, CreateBrEffect
<1> HIDE DEF entered
<1>18. Emitted(started, D2, H2 \ {header}, U2, want2, 0, Q) /\ Len(started.blocks) = N + 5
  <2>1. want2[header] \subseteq Q
    BY <1>15
  <2> HIDE DEF N
  <2> QED  BY <1>16, <1>17, <2>1, SetInsertPointEffect
<1> HIDE DEF started
<1>19. Emitted(tested, D2, H2 \ {header}, U2, want2, 1, {}) /\ Len(tested.blocks) = N + 5
  <2>1. /\ body \in DOMAIN started.blocks \ U2 /\ next \in DOMAIN started.blocks \ U2
        /\ Q \subseteq want2[body] /\ Q \subseteq want2[next]
    BY <1>14, <1>15, <1>18, EmittedType
  <2> QED  BY <1>18, <2>1, CreateCondBrEffect
<1> HIDE DEF tested
<1>20. Emitted(j, D2, H, U2, want2, 0, Q) /\ Len(j.blocks) = N + 5
  <2>1. want2[body] \subseteq Q
    BY <1>15
  <2>2. /\ Emitted(j, D2, (H2 \ {header}) \ {body}, U2, want2, 0, Q)
        /\ Len(j.blocks) = Len(tested.blocks)
    BY ONLY <1>16, <1>19, <2>1, SetInsertPointEffect DEF j
  <2> QED  BY <1>16, <1>19, <2>2
<1> HIDE DEF j
<1>21. /\ y.kind = "arm" /\ y.variables = {} /\ y.containReturn = FALSE /\ y.outer = {} /\ y.height = 0
       /\ y.own = <<elseIf, otherwise, merge>>
       /\ y.elseIfs = elseIfs /\ y.hasElse = hasElse /\ y.residual = nullptr
  BY DEF Scope
<1>22. /\ N + 5 \in Nat /\ elseIf \in 1 .. N + 5 /\ otherwise \in 0 .. N + 5 /\ merge \in 1 .. N + 5
       /\ elseIf # otherwise /\ elseIf # merge /\ otherwise # merge /\ otherwise # nullptr
       /\ {elseIf, otherwise, merge} \cap (1 .. N) = {} /\ N <= N + 5 /\ N = Len(ir.blocks)
  BY <1>2 DEF nullptr
<1>23. y \in Scopes(N + 5, statements + 1)
  <2> HIDE DEF elseIf, otherwise, merge
  <2>1. <<elseIf, otherwise, merge>> \in Seq(0 .. N + 5)
    BY <1>22
  <2>2. /\ {} \in SUBSET Names(statements + 1) /\ FALSE \in BOOLEAN /\ 0 \in Nat
        /\ "arm" \in LoopKinds \cup {"subroutine", "bare", "arm"} /\ nullptr \in 0 .. N + 5
    BY <1>2, <1>22 DEF nullptr
  <2> HIDE DEF N
  <2> QED  BY <1>2, <2>1, <2>2 DEF Scope, Scopes
<1> HIDE DEF y, elseIf, otherwise, merge, N
<1>24. /\ Shape(y) /\ Owned(y) = {elseIf, otherwise, merge} \ {nullptr}
       /\ y.own[1] = elseIf /\ y.own[2] = otherwise /\ y.own[3] = merge
  <2> DEFINE M == N + 5
  <2>1. y.kind \in {"arm", "infinite", "prepred", "postpred"} /\ (otherwise = nullptr <=> y.kind = "infinite")
    BY <1>21, <1>22
  <2>2. /\ M \in Nat /\ elseIf \in 1 .. M /\ otherwise \in 0 .. M /\ merge \in 1 .. M
        /\ elseIf # otherwise /\ elseIf # merge /\ otherwise # merge
    BY <1>22
  <2> HIDE DEF M
  <2> QED  BY ONLY <1>21, <2>1, <2>2, NewThreeBlocks
<1>25. /\ DetachedOf(y) = {merge} \cup (IF hasElse THEN {otherwise} ELSE {})
                            \cup (IF elseIfs > 0 THEN {elseIf} ELSE {})
       /\ BegunOf(y) = {} /\ ~IsLoop(y)
  BY <1>21, <1>24 DEF DetachedOf, BegunOf, IsLoop, LoopKinds
<1>26. Base(open, y) = L
  BY <1>2, <1>21, SameBase
<1>27. Emitted(ir', Detached(open) \cup DetachedOf(y), Begun(open) \cup BegunOf(y), U2, want2, 0,
               At(reached, Base(open, y)))
  <2>1. D2 = Detached(open) \cup DetachedOf(y) /\ H = Begun(open) \cup BegunOf(y)
    BY <1>25 DEF D2, D, H
  <2> QED  BY <1>1, <1>20, <1>26, <2>1 DEF Q
<1>28. Expected(want2, Owned(y), At(reached, Base(open, y)))
  BY <1>7, <1>24, <1>26 DEF Expected, Q
<1>29. Extended(want2, U2, want, U, N) /\ Owned(y) \cap (1 .. N) = {} /\ N + 5 = Len(ir'.blocks)
  <2>1. \A b \in 1 .. N : b \in U2 => b \in U
    BY <1>22 DEF U2
  <2> QED  BY <1>1, <1>7, <1>20, <1>22, <1>24, <2>1 DEF Extended
<1>30. /\ y.outer \cap Lexical(open).live = {} /\ reached = (ir.paths # {})
       /\ y.kind # "subroutine" /\ y.kind # "iterator"
       /\ blockStack' = IF IsLoop(y) THEN blockStack \o y.own ELSE blockStack
  BY <1>1, <1>21, <1>25
<1> HIDE DEF reached
<1> QED  BY ONLY Holds(want, U, r), <1>1, <1>21, <1>22, <1>23, <1>24, <1>25, <1>27, <1>28, <1>29, <1>30,
                 PushStep

(***************************************************************************)
(* Loops.                                                                  *)
(***************************************************************************)
\* What is expected of the blocks B that are about to be created does not
\* change what holds of the function so far.
AboutToCreate(B, want, want2, N, D, H, Q) ==
  /\ open # <<>> /\ ~hitReturnStat
  /\ N = Len(ir.blocks) /\ D = Detached(open) /\ H = Begun(open)
  /\ Q = At(ir.paths # {}, Lexical(open))
  /\ B \in SUBSET Nat /\ B \cap (1 .. N) = {} /\ want2 = Expect(want, B, Q)

\* So it is for every state that the function is in.
LEMMA NewBlocks ==
  ASSUME NEW want, NEW U, NEW r, Holds(want, U, r), NEW B, NEW want2, NEW N, NEW D, NEW H, NEW Q,
         AboutToCreate(B, want, want2, N, D, H, Q)
  PROVE  /\ Emitted(ir, D, H, U, want2, 0, Q) /\ N \in Nat
         /\ U \subseteq 1 .. N /\ D \subseteq 1 .. N /\ H \subseteq 1 .. N
         /\ Extended(want2, U, want, U, N) /\ Expected(want2, B, Q)
<1> USE DEF AboutToCreate
<1>1. Emitted(ir, D, H, U, want, 0, Q)
  BY HereEmitted
<1>2. /\ want \in Expectations /\ DOMAIN ir.blocks = 1 .. N /\ N \in Nat
      /\ ir.paths \subseteq Q
      /\ U \subseteq 1 .. N /\ D \subseteq 1 .. N /\ H \subseteq 1 .. N
  <2>1. want \in Expectations /\ DOMAIN ir.blocks = 1 .. Len(ir.blocks) /\ Len(ir.blocks) \in Nat
    BY ONLY <1>1, EmittedType
  <2>2. /\ ir.paths \subseteq Q /\ U \subseteq DOMAIN ir.blocks
        /\ D \subseteq DOMAIN ir.blocks /\ H \subseteq DOMAIN ir.blocks
    BY <1>1 DEF Emitted, Arranged
  <2> QED  BY <2>1, <2>2
<1>3. Q \in SUBSET Paths /\ \A q1, q2 \in Q : q1 = q2
  <2>1. Lexical(open) \in Paths
    BY InnerFacts
  <2> QED  BY <2>1, AtMostOne
<1>4. /\ want2 \in Expectations
      /\ \A b \in Nat : want2[b] = IF b \in B THEN Q ELSE want[b]
  BY <1>2, <1>3, ExpectMore
<1>5. \A b \in 1 .. N : b \in Nat /\ b \notin B
  BY <1>2
<1>6. Extended(want2, U, want, U, N) /\ Expected(want2, B, Q)
  BY <1>4, <1>5 DEF Extended, Expected
<1>7. Emitted(ir, D, H, U, want2, 0, Q)
  <2>1. \A b \in DOMAIN ir.blocks : want2[b] = want[b]
    BY <1>2, <1>4, <1>5
  <2> QED  BY ONLY <1>1, <1>2, <1>4, <2>1, Review
<1> QED  BY <1>2, <1>6, <1>7

\* The blocks of the innermost loop are on top of the block stack.
LEMMA TopBlocks ==
  ASSUME NEW want, NEW U, NEW r, Holds(want, U, r), open # <<>>,
         NEW x, x = Inner, IsLoop(x), NEW n, n = Len(x.own)
  PROVE  /\ n \in Nat /\ n >= 3
         /\ \A k \in 1 .. n : FromTop(n - k + 1) = x.own[k]
<1> DEFINE p == Front(open)
           S == Scopes(Len(ir.blocks), statements)
           B == blockStack
           M == 0 .. Len(ir.blocks)
<1>1. /\ open = Append(p, x) /\ p \in Seq(S) /\ x \in S /\ Fits(p, x, want, U, r)
  BY InnerFacts
<1>2. B \in Seq(M) /\ OnStack(Append(p, x), B)
  BY <1>1 DEF Holds, Kept
<1>3. x.own \in Seq(M) /\ \A d \in DOMAIN p : p[d].own \in Seq(M)
  <2>1. \A d \in DOMAIN p : p[d] \in S
    BY <1>1
  <2> QED  BY <1>1, <2>1 DEF Scopes
<1>4. n \in Nat /\ n >= 3
  <2>1. Shape(x) /\ n \in Nat
    BY <1>1, <1>3 DEF Fits
  <2>2. CASE x.kind = "iterator"
    <3>1. PICK m \in Nat : m # 0 /\ n = 3 * m
      BY <2>1, <2>2 DEF Shape
    <3> QED  BY <3>1
  <2>3. CASE x.kind # "iterator"
    <3>1. n = 3
      BY <2>1, <2>3 DEF Shape, IsLoop, LoopKinds
    <3> QED  BY <3>1
  <2> QED  BY <2>2, <2>3
<1> HIDE DEF p, S, B, M
<1>5. Under(B, 0, x.own)
  <2>1. /\ Append(p, x)[Len(p) + 1] = x /\ Len(p) + 1 \in DOMAIN Append(p, x)
        /\ LoopsAfter(Append(p, x), Len(p) + 1) = 0 /\ 3 * 0 = 0
    BY <1>1, AppendFacts, LoopsAfterAppend
  <2> QED  BY <1>2, <2>1 DEF OnStack
<1>6. ASSUME NEW k \in 1 .. n PROVE FromTop(n - k + 1) = x.own[k]
  <2>1. Len(B) \in Nat /\ Len(B) - (n - k + 1) + 1 = Len(B) - 0 - n + k
    BY <1>2, <1>4
  <2>2. B[Len(B) - 0 - n + k] = x.own[k]
    BY <1>5 DEF Under
  <2> QED  BY <2>1, <2>2 DEF FromTop, B
<1> QED  BY <1>4, <1>6

\* A loop with the blocks a, b and c is entered: c waits to be put in the
\* function, and the b of a post predicated loop waits to be filled.
LoopEntered(want, U, want2, a, b, c, y) ==
  LET N == Len(ir.blocks)
      N2 == Len(ir'.blocks)
      B == {a, b, c} \ {nullptr}
      Q == At(ir.paths # {}, Lexical(open))
  IN  /\ CompoundStatement /\ Enter(y) /\ blockStack' = blockStack \o <<a, b, c>>
      /\ N2 \in Nat /\ N <= N2 /\ a \in 1 .. N2 /\ b \in 0 .. N2 /\ c \in 1 .. N2
      /\ a # b /\ a # c /\ b # c /\ B \cap (1 .. N) = {}
      /\ y \in Scopes(N2, statements + 1) /\ IsLoop(y) /\ y.own = <<a, b, c>>
      /\ y.kind \in {"infinite", "prepred", "postpred"} /\ (b = nullptr <=> y.kind = "infinite")
      /\ y.variables = {} /\ y.outer = {} /\ y.containReturn = FALSE /\ y.residual = nullptr
      /\ Extended(want2, U, want, U, N) /\ Expected(want2, B, Q)
      /\ Emitted(ir', Detached(open) \cup {c},
                 Begun(open) \cup (IF y.kind = "postpred" THEN {b} ELSE {}), U, want2, 0, Q)

\* Entering such a loop keeps the invariant.
LEMMA EnterLoop ==
  ASSUME NEW want, NEW U, NEW r, Holds(want, U, r),
         NEW want2, NEW a, NEW b, NEW c, NEW y, LoopEntered(want, U, want2, a, b, c, y)
  PROVE  IInv'
<1> DEFINE N == Len(ir.blocks)
           N2 == Len(ir'.blocks)
           B == {a, b, c} \ {nullptr}
           Q == At(ir.paths # {}, Lexical(open))
           D == Detached(open) \cup {c}
           H == Begun(open) \cup (IF y.kind = "postpred" THEN {b} ELSE {})
<1>a. /\ CompoundStatement /\ Enter(y) /\ blockStack' = blockStack \o <<a, b, c>>
      /\ N2 \in Nat /\ N <= N2 /\ a \in 1 .. N2 /\ b \in 0 .. N2 /\ c \in 1 .. N2
      /\ a # b /\ a # c /\ b # c /\ B \cap (1 .. N) = {}
      /\ y \in Scopes(N2, statements + 1) /\ IsLoop(y) /\ y.own = <<a, b, c>>
      /\ y.kind \in {"infinite", "prepred", "postpred"} /\ (b = nullptr <=> y.kind = "infinite")
      /\ y.variables = {} /\ y.outer = {} /\ y.containReturn = FALSE /\ y.residual = nullptr
      /\ Extended(want2, U, want, U, N) /\ Expected(want2, B, Q)
      /\ Emitted(ir', D, H, U, want2, 0, Q)
  BY DEF LoopEntered
<1> DEFINE reached == ir.paths # {}
<1>1. open # <<>> /\ ~Inner.containReturn
  BY <1>a DEF CompoundStatement, Statement
<1>2. /\ Lexical(open) \in Paths /\ N \in Nat /\ ~hitReturnStat
  BY <1>1, InnerFacts
<1>3. /\ Shape(y) /\ Owned(y) = B /\ Len(y.own) = 3
      /\ y.own[1] = a /\ y.own[2] = b /\ y.own[3] = c
  <2>1. /\ y.kind \in {"arm", "infinite", "prepred", "postpred"}
        /\ N2 \in Nat /\ a \in 1 .. N2 /\ b \in 0 .. N2 /\ c \in 1 .. N2
        /\ y.own = <<a, b, c>> /\ a # b /\ a # c /\ b # c /\ y.residual = nullptr
        /\ (b = nullptr <=> y.kind = "infinite")
    BY <1>a
  <2> HIDE DEF N2
  <2>2. /\ Shape(y) /\ Owned(y) = {a, b, c} \ {nullptr}
        /\ y.own[1] = a /\ y.own[2] = b /\ y.own[3] = c
    BY ONLY <2>1, NewThreeBlocks
  <2> QED  BY <2>1, <2>2
<1>4. Base(open, y) = Lexical(open)
  <2>1. y.kind # "iterator" /\ y.outer = {}
    BY <1>a
  <2> QED  BY <1>2, <2>1, SameBase
<1>5. DetachedOf(y) = {c} /\ BegunOf(y) = IF y.kind = "postpred" THEN {b} ELSE {}
  BY <1>a, <1>3 DEF DetachedOf, BegunOf
<1>6. U \subseteq 1 .. N
  <2>1. /\ Emitted(ir, Detached(open), Begun(open), U, want, 0, At(ir.paths # {}, Lexical(open)))
        /\ DOMAIN ir.blocks = 1 .. N
    BY <1>1, <1>2, HereEmitted, InnerFacts
  <2> QED  BY <2>1 DEF Emitted, Arranged
<1>7. Owned(y) \cap U = {} /\ Owned(y) \cap (1 .. N) = {}
  BY <1>a, <1>3, <1>6
<1>8. Emitted(ir', Detached(open) \cup DetachedOf(y), Begun(open) \cup BegunOf(y), U, want2, 0,
              At(reached, Base(open, y)))
  <2>1. Detached(open) \cup DetachedOf(y) = D /\ Begun(open) \cup BegunOf(y) = H
    BY <1>5
  <2> HIDE DEF D, H
  <2> QED  BY <1>a, <1>4, <2>1
<1>9. Expected(want2, Owned(y), At(reached, Base(open, y)))
  <2> HIDE DEF B
  <2> QED  BY <1>a, <1>3, <1>4
<1>10. /\ y.kind # "subroutine" /\ y.kind # "iterator" /\ y.variables = {} /\ y.containReturn = FALSE
       /\ y.outer = {} /\ y.outer \cap Lexical(open).live = {} /\ y \in Scopes(N2, statements + 1)
       /\ blockStack' = IF IsLoop(y) THEN blockStack \o y.own ELSE blockStack
       /\ reached = (ir.paths # {})
  BY <1>a
<1>11. /\ Holds(want, U, r) /\ CompoundStatement /\ Enter(y)
       /\ N = Len(ir.blocks) /\ N2 \in Nat /\ N2 = Len(ir'.blocks) /\ N <= N2
       /\ Extended(want2, U, want, U, N)
  BY <1>a
<1> HIDE DEF reached, N, N2, B
<1> QED  BY ONLY <1>3, <1>7, <1>8, <1>9, <1>10, <1>11, PushStep

\* The body comes next; the merge block waits for a break.
LEMMA EnterInfiniteLoopHolds ==
  ASSUME IInv, EnterInfiniteLoop
  PROVE  IInv'
<1> PICK want, U, r : Holds(want, U, r)
  BY DEF IInv
<1> DEFINE N == Len(ir.blocks)
           N2 == N + 2
           body == N + 1
           none == nullptr
           merge == N + 2
           own == <<body, none, merge>>
           y == Scope("infinite", own)
           B == {body, none, merge} \ {nullptr}
           c1 == Create(ir)
           c2 == CreateDetached(c1)
           entered == CreateBr(c2, body)
           j == SetInsertPoint(entered, body)
           D == Detached(open)
           H == Begun(open)
           D2 == D \cup {merge}
           Q == At(ir.paths # {}, Lexical(open))
           want2 == Expect(want, B, Q)
<1>1. /\ CompoundStatement /\ open # <<>> /\ ~Inner.containReturn
      /\ ir' = j /\ Enter(y) /\ blockStack' = blockStack \o own
  <2>1. N + 1 + 1 = N + 2
    BY InnerFacts DEF EnterInfiniteLoop, CompoundStatement, Statement
  <2> QED  BY <2>1 DEF EnterInfiniteLoop, CompoundStatement, Statement
<1>2. N \in Nat /\ ~hitReturnStat /\ statements + 1 \in Nat
  <2>1. N \in Nat /\ (Inner.containReturn <=> hitReturnStat)
    BY <1>1, InnerFacts
  <2>2. statements \in 0 .. MaxStatements
    BY DEF Holds, Kept
  <2>3. ~hitReturnStat
    BY <1>1, <2>1
  <2>4. statements + 1 \in Nat
    BY ONLY <2>2, BoundsAssumption
  <2> QED  BY <2>1, <2>3, <2>4
<1>3. /\ N2 \in Nat /\ N <= N2 /\ body \in 1 .. N2 /\ merge \in 1 .. N2 /\ none \in 0 .. N2
      /\ body # none /\ body # merge /\ none # merge
      /\ B = {body, merge} /\ B \in SUBSET Nat /\ B \cap (1 .. N) = {}
  BY <1>2 DEF nullptr
<1> HIDE DEF want2, Q, B, D, H
<1>4. /\ Emitted(ir, D, H, U, want2, 0, Q)
      /\ U \subseteq 1 .. N /\ D \subseteq 1 .. N /\ H \subseteq 1 .. N
      /\ Extended(want2, U, want, U, N) /\ Expected(want2, B, Q)
  <2>1. /\ N = Len(ir.blocks) /\ D = Detached(open) /\ H = Begun(open)
        /\ Q = At(ir.paths # {}, Lexical(open)) /\ want2 = Expect(want, B, Q)
    BY DEF D, H, Q, want2
  <2>2. open # <<>> /\ ~hitReturnStat /\ B \in SUBSET Nat /\ B \cap (1 .. N) = {}
    BY <1>1, <1>2, <1>3
  <2>3. AboutToCreate(B, want, want2, N, D, H, Q)
    BY <2>1, <2>2 DEF AboutToCreate
  <2> HIDE DEF N
  <2> QED  BY ONLY Holds(want, U, r), <2>3, NewBlocks
<1>5. body \notin H /\ body \notin U /\ want2[body] = Q
  BY <1>2, <1>3, <1>4 DEF Expected
<1>6. Emitted(c1, D, H \cup {body}, U, want2, 0, Q) /\ Len(c1.blocks) = N + 1
  BY ONLY <1>4, CreateEffect
<1> HIDE DEF c1
<1>7. Emitted(c2, D2, H \cup {body}, U, want2, 0, Q) /\ Len(c2.blocks) = N2
  <2>1. /\ Emitted(c2, D \cup {Len(c1.blocks) + 1}, H \cup {body}, U, want2, 0, Q)
        /\ Len(c2.blocks) = Len(c1.blocks) + 1
    BY ONLY <1>6, CreateDetachedEffect
  <2>2. N + 1 + 1 = N + 2
    BY <1>2
  <2> QED  BY <1>6, <2>1, <2>2
<1> HIDE DEF c2, D2, N2, body, merge
<1>8. Emitted(entered, D2, H \cup {body}, U, want2, 1, {}) /\ Len(entered.blocks) = N2
  <2>1. body \in DOMAIN c2.blocks \ U /\ Q \subseteq want2[body]
    BY <1>3, <1>5, <1>7, EmittedType
  <2> QED  BY <1>7, <2>1, CreateBrEffect
<1> HIDE DEF entered
<1>9. Emitted(j, D2, H, U, want2, 0, Q) /\ Len(j.blocks) = N2
  <2>1. want2[body] \subseteq Q /\ body \in H \cup {body} /\ (H \cup {body}) \ {body} = H
    BY <1>5
  <2>2. /\ Emitted(j, D2, (H \cup {body}) \ {body}, U, want2, 0, Q)
        /\ Len(j.blocks) = Len(entered.blocks)
    BY ONLY <1>8, <2>1, SetInsertPointEffect
  <2> QED  BY <1>8, <2>1, <2>2
<1> HIDE DEF j
<1>10. /\ y.kind = "infinite" /\ y.variables = {} /\ y.containReturn = FALSE /\ y.outer = {}
       /\ y.own = own /\ y.residual = nullptr /\ y \in Scopes(N2, statements + 1)
  <2>1. own \in Seq(0 .. N2)
    BY <1>3
  <2>2. /\ {} \in SUBSET Names(statements + 1) /\ FALSE \in BOOLEAN /\ 0 \in Nat
        /\ "infinite" \in LoopKinds \cup {"subroutine", "bare", "arm"} /\ nullptr \in 0 .. N2
    BY <1>2, <1>3 DEF nullptr, LoopKinds
  <2> HIDE DEF own
  <2>3. y \in Scopes(N2, statements + 1)
    BY <2>1, <2>2 DEF Scope, Scopes
  <2> QED  BY <2>3 DEF Scope
<1> HIDE DEF y
<1>11. LoopEntered(want, U, want2, body, none, merge, y)
  <2>1. /\ y.kind \in {"infinite", "prepred", "postpred"} /\ (none = nullptr <=> y.kind = "infinite")
        /\ y.own = <<body, none, merge>> /\ blockStack' = blockStack \o <<body, none, merge>>
        /\ y.kind # "postpred" /\ IsLoop(y)
    BY <1>1, <1>10 DEF IsLoop, LoopKinds
  <2>2. /\ Emitted(ir', Detached(open) \cup {merge}, Begun(open), U, want2, 0,
                   At(ir.paths # {}, Lexical(open)))
        /\ N2 = Len(ir'.blocks) /\ N = Len(ir.blocks)
    BY <1>1, <1>9 DEF D2, D, H, Q
  <2>3. /\ {body, none, merge} \ {nullptr} = B
        /\ Expected(want2, B, At(ir.paths # {}, Lexical(open)))
    BY <1>4 DEF B, Q
  <2> HIDE DEF own, N, none
  <2> QED  BY <1>1, <1>3, <1>4, <1>10, <2>1, <2>2, <2>3 DEF LoopEntered
<1> QED  BY <1>11, EnterLoop

\* The condition is tested before the body.
LEMMA EnterPrePredicatedLoopHolds ==
  ASSUME IInv, EnterPrePredicatedLoop
  PROVE  IInv'
<1> PICK want, U, r : Holds(want, U, r)
  BY DEF IInv
<1> DEFINE N == Len(ir.blocks)
           N2 == N + 3
           condition == N + 1
           body == N + 2
           merge == N + 3
           own == <<condition, body, merge>>
           y == Scope("prepred", own)
           B == {condition, body, merge} \ {nullptr}
           c1 == Create(ir)
           c2 == Create(c1)
           c3 == CreateDetached(c2)
           entered == CreateBr(c3, condition)
           started == SetInsertPoint(entered, condition)
           tested == CreateCondBr(started, body, merge)
           j == SetInsertPoint(tested, body)
           D == Detached(open)
           H == Begun(open)
           H2 == (H \cup {condition}) \cup {body}
           D2 == D \cup {merge}
           Q == At(ir.paths # {}, Lexical(open))
           want2 == Expect(want, B, Q)
<1>1. /\ CompoundStatement /\ open # <<>> /\ ~Inner.containReturn
      /\ ir' = j /\ Enter(y) /\ blockStack' = blockStack \o own
  <2>1. N + 1 + 1 = N + 2 /\ N + 1 + 2 = N + 3
    BY InnerFacts DEF EnterPrePredicatedLoop, CompoundStatement, Statement
  <2>2. own[2] = body /\ own[3] = merge
    OBVIOUS
  <2> QED  BY <2>1, <2>2 DEF EnterPrePredicatedLoop, CompoundStatement, Statement
<1>2. N \in Nat /\ ~hitReturnStat /\ statements + 1 \in Nat
  <2>1. N \in Nat /\ (Inner.containReturn <=> hitReturnStat)
    BY <1>1, InnerFacts
  <2>2. statements \in 0 .. MaxStatements
    BY DEF Holds, Kept
  <2>3. ~hitReturnStat
    BY <1>1, <2>1
  <2>4. statements + 1 \in Nat
    BY ONLY <2>2, BoundsAssumption
  <2> QED  BY <2>1, <2>3, <2>4
<1>3. /\ N2 \in Nat /\ N <= N2 /\ condition \in 1 .. N2 /\ merge \in 1 .. N2 /\ body \in 0 .. N2
      /\ body \in 1 .. N2 /\ condition # body /\ condition # merge /\ body # merge /\ body # nullptr
      /\ B = {condition, body, merge} /\ B \in SUBSET Nat /\ B \cap (1 .. N) = {}
  BY <1>2 DEF nullptr
<1> HIDE DEF want2, Q, B, D, H
<1>4. /\ Emitted(ir, D, H, U, want2, 0, Q)
      /\ U \subseteq 1 .. N /\ D \subseteq 1 .. N /\ H \subseteq 1 .. N
      /\ Extended(want2, U, want, U, N) /\ Expected(want2, B, Q)
  <2>1. /\ N = Len(ir.blocks) /\ D = Detached(open) /\ H = Begun(open)
        /\ Q = At(ir.paths # {}, Lexical(open)) /\ want2 = Expect(want, B, Q)
    BY DEF D, H, Q, want2
  <2>2. open # <<>> /\ ~hitReturnStat /\ B \in SUBSET Nat /\ B \cap (1 .. N) = {}
    BY <1>1, <1>2, <1>3
  <2>3. AboutToCreate(B, want, want2, N, D, H, Q)
    BY <2>1, <2>2 DEF AboutToCreate
  <2> HIDE DEF N
  <2> QED  BY ONLY Holds(want, U, r), <2>3, NewBlocks
<1>5. /\ condition \notin H \cup U /\ body \notin H \cup U /\ merge \notin H \cup U
      /\ want2[condition] = Q /\ want2[body] = Q /\ want2[merge] = Q
  BY <1>2, <1>3, <1>4 DEF Expected
<1>6. Emitted(c1, D, H \cup {condition}, U, want2, 0, Q) /\ Len(c1.blocks) = N + 1
  BY ONLY <1>4, CreateEffect
<1> HIDE DEF c1
<1>7. Emitted(c2, D, H2, U, want2, 0, Q) /\ Len(c2.blocks) = N + 2
  <2>1. /\ Emitted(c2, D, (H \cup {condition}) \cup {Len(c1.blocks) + 1}, U, want2, 0, Q)
        /\ Len(c2.blocks) = Len(c1.blocks) + 1
    BY ONLY <1>6, CreateEffect
  <2>2. N + 1 + 1 = N + 2
    BY <1>2
  <2> QED  BY <1>6, <2>1, <2>2
<1> HIDE DEF c2
<1>8. Emitted(c3, D2, H2, U, want2, 0, Q) /\ Len(c3.blocks) = N2
  <2> HIDE DEF H2
  <2>1. /\ Emitted(c3, D \cup {Len(c2.blocks) + 1}, H2, U, want2, 0, Q)
        /\ Len(c3.blocks) = Len(c2.blocks) + 1
    BY ONLY <1>7, CreateDetachedEffect
  <2>2. N + 2 + 1 = N + 3
    BY <1>2
  <2> QED  BY <1>7, <2>1, <2>2
<1> HIDE DEF c3, D2, N2, condition, body, merge, H2
<1>9. Emitted(entered, D2, H2, U, want2, 1, {}) /\ Len(entered.blocks) = N2
  <2>1. condition \in DOMAIN c3.blocks \ U /\ Q \subseteq want2[condition]
    BY <1>3, <1>5, <1>8, EmittedType
  <2> QED  BY <1>8, <2>1, CreateBrEffect
<1> HIDE DEF entered
<1>10. Emitted(started, D2, H \cup {body}, U, want2, 0, Q) /\ Len(started.blocks) = N2
  <2>1. want2[condition] \subseteq Q /\ condition \in H2 /\ H2 \ {condition} = H \cup {body}
    BY <1>3, <1>5 DEF H2
  <2>2. /\ Emitted(started, D2, H2 \ {condition}, U, want2, 0, Q)
        /\ Len(started.blocks) = Len(entered.blocks)
    BY ONLY <1>9, <2>1, SetInsertPointEffect
  <2> QED  BY <1>9, <2>1, <2>2
<1> HIDE DEF started
<1>11. Emitted(tested, D2, H \cup {body}, U, want2, 1, {}) /\ Len(tested.blocks) = N2
  <2>1. /\ body \in DOMAIN started.blocks \ U /\ merge \in DOMAIN started.blocks \ U
        /\ Q \subseteq want2[body] /\ Q \subseteq want2[merge]
    BY <1>3, <1>5, <1>10, EmittedType
  <2> QED  BY <1>10, <2>1, CreateCondBrEffect
<1> HIDE DEF tested
<1>12. Emitted(j, D2, H, U, want2, 0, Q) /\ Len(j.blocks) = N2
  <2>1. want2[body] \subseteq Q /\ body \in H \cup {body} /\ (H \cup {body}) \ {body} = H
    BY <1>5
  <2>2. /\ Emitted(j, D2, (H \cup {body}) \ {body}, U, want2, 0, Q)
        /\ Len(j.blocks) = Len(tested.blocks)
    BY ONLY <1>11, <2>1, SetInsertPointEffect
  <2> QED  BY <1>11, <2>1, <2>2
<1> HIDE DEF j
<1>13. /\ y.kind = "prepred" /\ y.variables = {} /\ y.containReturn = FALSE /\ y.outer = {}
       /\ y.own = own /\ y.residual = nullptr /\ y \in Scopes(N2, statements + 1)
  <2>1. own \in Seq(0 .. N2)
    BY <1>3
  <2>2. /\ {} \in SUBSET Names(statements + 1) /\ FALSE \in BOOLEAN /\ 0 \in Nat
        /\ "prepred" \in LoopKinds \cup {"subroutine", "bare", "arm"} /\ nullptr \in 0 .. N2
    BY <1>2, <1>3 DEF nullptr, LoopKinds
  <2> HIDE DEF own
  <2>3. y \in Scopes(N2, statements + 1)
    BY <2>1, <2>2 DEF Scope, Scopes
  <2> QED  BY <2>3 DEF Scope
<1> HIDE DEF y
<1>14. LoopEntered(want, U, want2, condition, body, merge, y)
  <2>1. /\ y.kind \in {"infinite", "prepred", "postpred"} /\ (body = nullptr <=> y.kind = "infinite")
        /\ y.own = <<condition, body, merge>> /\ blockStack' = blockStack \o <<condition, body, merge>>
        /\ y.kind # "postpred" /\ IsLoop(y)
    BY <1>1, <1>3, <1>13 DEF IsLoop, LoopKinds
  <2>2. /\ Emitted(ir', Detached(open) \cup {merge}, Begun(open), U, want2, 0,
                   At(ir.paths # {}, Lexical(open)))
        /\ N2 = Len(ir'.blocks) /\ N = Len(ir.blocks)
    BY <1>1, <1>12 DEF D2, D, H, Q
  <2>3. /\ {condition, body, merge} \ {nullptr} = B
        /\ Expected(want2, B, At(ir.paths # {}, Lexical(open)))
    BY <1>4 DEF B, Q
  <2> HIDE DEF own, N
  <2> QED  BY <1>1, <1>3, <1>4, <1>13, <2>1, <2>2, <2>3 DEF LoopEntered
<1> QED  BY <1>14, EnterLoop

\* The body comes first; the block of its condition is filled after it.
LEMMA EnterPostPredicatedLoopHolds ==
  ASSUME IInv, EnterPostPredicatedLoop
  PROVE  IInv'
<1> PICK want, U, r : Holds(want, U, r)
  BY DEF IInv
<1> DEFINE N == Len(ir.blocks)
           N2 == N + 3
           body == N + 1
           condition == N + 2
           merge == N + 3
           own == <<body, condition, merge>>
           y == Scope("postpred", own)
           B == {body, condition, merge} \ {nullptr}
           c1 == Create(ir)
           c2 == Create(c1)
           c3 == CreateDetached(c2)
           entered == CreateBr(c3, body)
           j == SetInsertPoint(entered, body)
           D == Detached(open)
           H == Begun(open)
           H2 == (H \cup {body}) \cup {condition}
           H3 == H \cup {condition}
           D2 == D \cup {merge}
           Q == At(ir.paths # {}, Lexical(open))
           want2 == Expect(want, B, Q)
<1>1. /\ CompoundStatement /\ open # <<>> /\ ~Inner.containReturn
      /\ ir' = j /\ Enter(y) /\ blockStack' = blockStack \o own
  <2>1. N + 1 + 1 = N + 2 /\ N + 1 + 2 = N + 3
    BY InnerFacts DEF EnterPostPredicatedLoop, CompoundStatement, Statement
  <2>2. own[2] = condition /\ own[3] = merge
    OBVIOUS
  <2> QED  BY <2>1, <2>2 DEF EnterPostPredicatedLoop, CompoundStatement, Statement
<1>2. N \in Nat /\ ~hitReturnStat /\ statements + 1 \in Nat
  <2>1. N \in Nat /\ (Inner.containReturn <=> hitReturnStat)
    BY <1>1, InnerFacts
  <2>2. statements \in 0 .. MaxStatements
    BY DEF Holds, Kept
  <2>3. ~hitReturnStat
    BY <1>1, <2>1
  <2>4. statements + 1 \in Nat
    BY ONLY <2>2, BoundsAssumption
  <2> QED  BY <2>1, <2>3, <2>4
<1>3. /\ N2 \in Nat /\ N <= N2 /\ body \in 1 .. N2 /\ merge \in 1 .. N2 /\ condition \in 0 .. N2
      /\ condition \in 1 .. N2 /\ body # condition /\ body # merge /\ condition # merge /\ condition # nullptr
      /\ B = {body, condition, merge} /\ B \in SUBSET Nat /\ B \cap (1 .. N) = {}
  BY <1>2 DEF nullptr
<1> HIDE DEF want2, Q, B, D, H
<1>4. /\ Emitted(ir, D, H, U, want2, 0, Q)
      /\ U \subseteq 1 .. N /\ D \subseteq 1 .. N /\ H \subseteq 1 .. N
      /\ Extended(want2, U, want, U, N) /\ Expected(want2, B, Q)
  <2>1. /\ N = Len(ir.blocks) /\ D = Detached(open) /\ H = Begun(open)
        /\ Q = At(ir.paths # {}, Lexical(open)) /\ want2 = Expect(want, B, Q)
    BY DEF D, H, Q, want2
  <2>2. open # <<>> /\ ~hitReturnStat /\ B \in SUBSET Nat /\ B \cap (1 .. N) = {}
    BY <1>1, <1>2, <1>3
  <2>3. AboutToCreate(B, want, want2, N, D, H, Q)
    BY <2>1, <2>2 DEF AboutToCreate
  <2> HIDE DEF N
  <2> QED  BY ONLY Holds(want, U, r), <2>3, NewBlocks
<1>5. /\ condition \notin H \cup U /\ body \notin H \cup U /\ merge \notin H \cup U
      /\ want2[condition] = Q /\ want2[body] = Q /\ want2[merge] = Q
  BY <1>2, <1>3, <1>4 DEF Expected
<1>6. Emitted(c1, D, H \cup {body}, U, want2, 0, Q) /\ Len(c1.blocks) = N + 1
  BY ONLY <1>4, CreateEffect
<1> HIDE DEF c1
<1>7. Emitted(c2, D, H2, U, want2, 0, Q) /\ Len(c2.blocks) = N + 2
  <2>1. /\ Emitted(c2, D, (H \cup {body}) \cup {Len(c1.blocks) + 1}, U, want2, 0, Q)
        /\ Len(c2.blocks) = Len(c1.blocks) + 1
    BY ONLY <1>6, CreateEffect
  <2>2. N + 1 + 1 = N + 2
    BY <1>2
  <2> QED  BY <1>6, <2>1, <2>2
<1> HIDE DEF c2
<1>8. Emitted(c3, D2, H2, U, want2, 0, Q) /\ Len(c3.blocks) = N2
  <2> HIDE DEF H2
  <2>1. /\ Emitted(c3, D \cup {Len(c2.blocks) + 1}, H2, U, want2, 0, Q)
        /\ Len(c3.blocks) = Len(c2.blocks) + 1
    BY ONLY <1>7, CreateDetachedEffect
  <2>2. N + 2 + 1 = N + 3
    BY <1>2
  <2> QED  BY <1>7, <2>1, <2>2
<1> HIDE DEF c3, D2, N2, condition, body, merge, H2
<1>9. Emitted(entered, D2, H2, U, want2, 1, {}) /\ Len(entered.blocks) = N2
  <2>1. body \in DOMAIN c3.blocks \ U /\ Q \subseteq want2[body]
    BY <1>3, <1>5, <1>8, EmittedType
  <2> QED  BY <1>8, <2>1, CreateBrEffect
<1> HIDE DEF entered
<1>12. Emitted(j, D2, H3, U, want2, 0, Q) /\ Len(j.blocks) = N2
  <2>1. want2[body] \subseteq Q /\ body \in H2 /\ H2 \ {body} = H3
    BY <1>3, <1>5 DEF H2
  <2>2. /\ Emitted(j, D2, H2 \ {body}, U, want2, 0, Q)
        /\ Len(j.blocks) = Len(entered.blocks)
    BY ONLY <1>9, <2>1, SetInsertPointEffect
  <2> QED  BY <1>9, <2>1, <2>2
<1> HIDE DEF j
<1>13. /\ y.kind = "postpred" /\ y.variables = {} /\ y.containReturn = FALSE /\ y.outer = {}
       /\ y.own = own /\ y.residual = nullptr /\ y \in Scopes(N2, statements + 1)
  <2>1. own \in Seq(0 .. N2)
    BY <1>3
  <2>2. /\ {} \in SUBSET Names(statements + 1) /\ FALSE \in BOOLEAN /\ 0 \in Nat
        /\ "postpred" \in LoopKinds \cup {"subroutine", "bare", "arm"} /\ nullptr \in 0 .. N2
    BY <1>2, <1>3 DEF nullptr, LoopKinds
  <2> HIDE DEF own
  <2>3. y \in Scopes(N2, statements + 1)
    BY <2>1, <2>2 DEF Scope, Scopes
  <2> QED  BY <2>3 DEF Scope
<1> HIDE DEF y
<1>14. LoopEntered(want, U, want2, body, condition, merge, y)
  <2>1. /\ y.kind \in {"infinite", "prepred", "postpred"} /\ (condition = nullptr <=> y.kind = "infinite")
        /\ y.own = <<body, condition, merge>> /\ blockStack' = blockStack \o <<body, condition, merge>>
        /\ y.kind = "postpred" /\ IsLoop(y)
    BY <1>1, <1>3, <1>13 DEF IsLoop, LoopKinds
  <2>2. /\ Emitted(ir', Detached(open) \cup {merge}, Begun(open) \cup {condition}, U, want2, 0,
                   At(ir.paths # {}, Lexical(open)))
        /\ N2 = Len(ir'.blocks) /\ N = Len(ir.blocks)
    BY <1>1, <1>12 DEF D2, D, H, Q
  <2>3. /\ {body, condition, merge} \ {nullptr} = B
        /\ Expected(want2, B, At(ir.paths # {}, Lexical(open)))
    BY <1>4 DEF B, Q
  <2> HIDE DEF own, N
  <2> QED  BY <1>1, <1>3, <1>4, <1>13, <2>1, <2>2, <2>3 DEF LoopEntered
<1> QED  BY <1>14, EnterLoop

\* Once the body is closed, in i, the merge block is where the code goes on.
LEMMA LeaveLoop ==
  ASSUME NEW want, NEW U, NEW r, Holds(want, U, r), open # <<>>,
         NEW x, x = Inner, x.kind \in {"infinite", "prepred", "postpred"},
         NEW i, Emitted(i, Detached(open), Begun(Front(open)), U, want, 1, {}),
         Len(i.blocks) = Len(ir.blocks), NEW merge, merge = x.own[3],
         ir' = SetInsertPoint(Place(i, merge), merge), blockStack' = Popped(3), Leave
  PROVE  IInv'
<1> DEFINE p == Front(open)
           N == Len(ir.blocks)
           D == Detached(open)
           H == Begun(p)
           Q == At(Len(open) <= r, Lexical(p))
           j == SetInsertPoint(Place(i, merge), merge)
<1>1. /\ Fits(p, x, want, U, r) /\ D = Detached(p) \cup DetachedOf(x)
      /\ x \in Scopes(N, statements) /\ N \in Nat /\ Lexical(p) \in Paths
  BY InnerFacts
<1>2. DetachedOf(x) = {merge} /\ IsLoop(x) /\ x.kind # "subroutine" /\ x.kind # "iterator"
  BY DEF DetachedOf, IsLoop, LoopKinds
<1>3. merge \in Owned(x)
  BY <1>1, ThreeBlocks DEF Fits
<1>4. merge \notin Detached(p) /\ want[merge] \subseteq Q
  BY <1>2, <1>3, OwnedFacts
<1>5. merge \in D /\ D \ {merge} = Detached(p)
  BY <1>1, <1>2, <1>4
<1>6. Emitted(i, D, H, U, want, 1, {})
  OBVIOUS
<1> HIDE DEF D, H, Q
<1>7. Emitted(j, D \ {merge}, H, U, want, 0, Q) /\ Len(j.blocks) = Len(i.blocks)
  BY ONLY <1>4, <1>5, <1>6, PlaceAndGoEffect
<1>8. /\ Emitted(ir', Detached(p), Begun(p), U, want, 0, Q) /\ Len(ir'.blocks) = N
      /\ N <= N /\ N = Len(ir.blocks) /\ N \in Nat
  <2>1. ir' = j /\ Len(i.blocks) = N /\ N = Len(ir.blocks) /\ H = Begun(p)
    BY DEF H
  <2> HIDE DEF j, N, p
  <2>2. N \in Nat /\ N <= N
    BY <1>1
  <2>3. Emitted(ir', Detached(p), Begun(p), U, want, 0, Q)
    BY ONLY <1>5, <1>7, <2>1
  <2> QED  BY ONLY <1>7, <2>1, <2>2, <2>3
<1>9. Extended(want, U, want, U, N) /\ blockStack' = IF IsLoop(x) THEN Popped(3) ELSE blockStack
  BY <1>2 DEF Extended
<1>10. /\ Holds(want, U, r) /\ open # <<>> /\ x = Inner /\ Leave /\ p = Front(open)
       /\ Q = At(Len(open) <= r, Lexical(p))
  BY DEF Q
<1> HIDE DEF N, p, j
<1> QED  BY ONLY <1>2, <1>8, <1>9, <1>10, PopStep

\* The body of an infinite loop leads back to where it begins.
LEMMA LeaveInfiniteLoopHolds ==
  ASSUME IInv, LeaveInfiniteLoop
  PROVE  IInv'
<1> PICK want, U, r : Holds(want, U, r)
  BY DEF IInv
<1> DEFINE x == Inner
           merge == x.own[3]
           i == IF hitReturnStat THEN EndBlock(x) ELSE CreateBr(EndBlock(x), x.own[1])
<1>1. /\ open # <<>> /\ x.kind = "infinite" /\ Leave /\ blockStack' = Popped(3)
      /\ ir' = SetInsertPoint(Place(i, merge), merge)
  BY DEF LeaveInfiniteLoop
<1>2. /\ Fits(Front(open), x, want, U, r) /\ Begun(open) = Begun(Front(open)) \cup BegunOf(x)
      /\ x \in Scopes(Len(ir.blocks), statements)
  BY <1>1, InnerFacts
<1>3. x.own[1] \in Owned(x) /\ IsLoop(x) /\ BegunOf(x) = {}
  BY <1>1, <1>2, ThreeBlocks DEF Fits, IsLoop, LoopKinds, BegunOf
<1>4. x.own[1] \notin U
  BY <1>1, <1>3, OwnedFacts
<1>5. Emitted(i, Detached(open), Begun(open), U, want, 1, {}) /\ Len(i.blocks) = Len(ir.blocks)
  <2> HIDE DEF x
  <2>1. x.kind # "bare" /\ x = Inner
    BY <1>1 DEF x
  <2> QED  BY <1>1, <1>3, <1>4, <2>1, EndOfBody
<1>6. Begun(open) = Begun(Front(open))
  BY <1>2, <1>3
<1> HIDE DEF i
<1> QED  BY <1>1, <1>5, <1>6, LeaveLoop

\* The body of a pre predicated loop leads back to its condition.
LEMMA LeavePrePredicatedLoopHolds ==
  ASSUME IInv, LeavePrePredicatedLoop
  PROVE  IInv'
<1> PICK want, U, r : Holds(want, U, r)
  BY DEF IInv
<1> DEFINE x == Inner
           merge == x.own[3]
           i == IF hitReturnStat THEN EndBlock(x) ELSE CreateBr(EndBlock(x), x.own[1])
<1>1. open # <<>> /\ x.kind = "prepred" /\ Leave /\ blockStack' = Popped(3)
  BY DEF LeavePrePredicatedLoop
<1>2. /\ Fits(Front(open), x, want, U, r) /\ Begun(open) = Begun(Front(open)) \cup BegunOf(x)
      /\ x \in Scopes(Len(ir.blocks), statements)
  BY <1>1, InnerFacts
<1>3. x.own[1] \in Owned(x) /\ IsLoop(x) /\ BegunOf(x) = {} /\ Len(x.own) = 3
  BY <1>1, <1>2, ThreeBlocks DEF Fits, IsLoop, LoopKinds, BegunOf
<1>4. FromTop(1) = x.own[3] /\ FromTop(3) = x.own[1]
  <2>1. \A k \in 1 .. 3 : FromTop(3 - k + 1) = x.own[k]
    BY <1>1, <1>3, TopBlocks
  <2> QED  BY <2>1
<1>5. ir' = SetInsertPoint(Place(i, merge), merge)
  BY <1>4 DEF LeavePrePredicatedLoop
<1>6. x.own[1] \notin U
  BY <1>1, <1>3, OwnedFacts
<1>7. Emitted(i, Detached(open), Begun(open), U, want, 1, {}) /\ Len(i.blocks) = Len(ir.blocks)
  <2> HIDE DEF x
  <2>1. x.kind # "bare" /\ x = Inner
    BY <1>1 DEF x
  <2> QED  BY <1>1, <1>3, <1>6, <2>1, EndOfBody
<1>8. Begun(open) = Begun(Front(open))
  BY <1>2, <1>3
<1> HIDE DEF i
<1> QED  BY <1>1, <1>5, <1>7, <1>8, LeaveLoop

\* The condition of a post predicated loop is tested after its body.
LEMMA LeavePostPredicatedLoopHolds ==
  ASSUME IInv, LeavePostPredicatedLoop
  PROVE  IInv'
<1> PICK want, U, r : Holds(want, U, r)
  BY DEF IInv
<1> DEFINE x == Inner
           p == Front(open)
           N == Len(ir.blocks)
           D == Detached(open)
           H == Begun(open)
           body == x.own[1]
           condition == x.own[2]
           merge == x.own[3]
           Q == At(Len(open) <= r, Lexical(p))
           i == IF hitReturnStat THEN EndBlock(x) ELSE CreateBr(EndBlock(x), condition)
           started == SetInsertPoint(i, condition)
           tested == CreateCondBr(started, body, merge)
<1>1. open # <<>> /\ x.kind = "postpred" /\ Leave /\ blockStack' = Popped(3)
  BY DEF LeavePostPredicatedLoop
<1>2. /\ Fits(p, x, want, U, r) /\ H = Begun(p) \cup BegunOf(x)
      /\ x \in Scopes(N, statements) /\ N \in Nat
  BY <1>1, InnerFacts
<1>3. /\ body \in Owned(x) /\ condition \in Owned(x) /\ merge \in Owned(x)
      /\ IsLoop(x) /\ BegunOf(x) = {condition} /\ Len(x.own) = 3
  BY <1>1, <1>2, ThreeBlocks DEF Fits, IsLoop, LoopKinds, BegunOf
<1>4. FromTop(1) = merge /\ FromTop(2) = condition /\ FromTop(3) = body
  <2>1. \A k \in 1 .. 3 : FromTop(3 - k + 1) = x.own[k]
    BY <1>1, <1>3, TopBlocks
  <2> QED  BY <2>1
<1>5. ir' = SetInsertPoint(Place(tested, merge), merge)
  BY <1>4 DEF LeavePostPredicatedLoop
<1>6. /\ \A b \in {body, condition, merge} : b \notin U /\ want[b] = Q /\ b \in 1 .. N
      /\ condition \notin Begun(p)
  <2>1. ASSUME NEW b \in Owned(x) PROVE b \notin U /\ want[b] = Q /\ b \in 1 .. N /\ b \notin Begun(p)
    BY <1>1, <1>3, OwnedFacts
  <2> QED  BY <1>3, <2>1
<1>7. Emitted(i, D, H, U, want, 1, {}) /\ Len(i.blocks) = N
  <2> HIDE DEF x
  <2>1. x.kind # "bare" /\ x = Inner /\ condition \notin U
    BY <1>1, <1>6 DEF x
  <2> QED  BY <1>1, <1>3, <2>1, EndOfBody
<1> HIDE DEF i, D, H, Q, condition, body, merge
<1>8. Emitted(started, D, Begun(p), U, want, 0, Q) /\ Len(started.blocks) = N
  <2>1. want[condition] \subseteq Q /\ condition \in H /\ H \ {condition} = Begun(p)
    BY <1>2, <1>3, <1>6
  <2>2. /\ Emitted(started, D, H \ {condition}, U, want, 0, Q)
        /\ Len(started.blocks) = Len(i.blocks)
    BY ONLY <1>7, <2>1, SetInsertPointEffect
  <2> QED  BY <1>7, <2>1, <2>2
<1> HIDE DEF started
<1>9. Emitted(tested, D, Begun(p), U, want, 1, {}) /\ Len(tested.blocks) = N
  <2>1. /\ body \in DOMAIN started.blocks \ U /\ merge \in DOMAIN started.blocks \ U
        /\ Q \subseteq want[body] /\ Q \subseteq want[merge]
    BY <1>6, <1>8, EmittedType
  <2> QED  BY <1>8, <2>1, CreateCondBrEffect
<1> HIDE DEF tested
<1>10. /\ x = Inner /\ x.kind \in {"infinite", "prepred", "postpred"} /\ merge = x.own[3]
       /\ Emitted(tested, Detached(open), Begun(Front(open)), U, want, 1, {})
       /\ Len(tested.blocks) = Len(ir.blocks)
  BY <1>1, <1>9 DEF D, merge
<1> HIDE DEF x
<1> QED  BY ONLY Holds(want, U, r), <1>1, <1>5, <1>10, LeaveLoop

(***************************************************************************)
(* The iterator loop.                                                      *)
(***************************************************************************)
\* The blocks of a loop with m domains: its body is in the function already
\* while the generator is in it, and so are all the headers.
IteratorScope(x, own, m) ==
  /\ x.kind = "iterator" /\ x.residual = nullptr /\ x.own = own
  /\ m # 0 /\ DOMAIN own = 1 .. 3 * m /\ Len(own) = 3 * m
  /\ \A k \in 1 .. 3 * m : own[k] # nullptr
  /\ \A k, l \in 1 .. 3 * m : own[k] = own[l] => k = l

\* Which blocks an iterator loop owns, which of them wait to be placed, and how they differ.
LEMMA IteratorBlocks ==
  ASSUME NEW x, NEW m \in Nat, NEW own, IteratorScope(x, own, m)
  PROVE  /\ Shape(x) /\ IsLoop(x) /\ Owned(x) = {own[k] : k \in 1 .. 3 * m}
         /\ DetachedOf(x) = Others(own, 1, m - 1) \cup {own[3 * m]} /\ BegunOf(x) = {}
         /\ own[3 * m - 1] \notin DetachedOf(x) /\ own[3 * m] \notin Others(own, 1, m - 1)
         /\ own[3 * m - 2] \in Owned(x)
         /\ Others(own, 1, m) = DetachedOf(x) \cup {own[3 * m - 1]}
         /\ own[3 * m - 1] \in Owned(x) /\ own[3 * m] \in Owned(x)
         /\ Headers(own, 1, m) \subseteq Owned(x) /\ Others(own, 1, m) \subseteq Owned(x)
         /\ Headers(own, 1, m) \cap Others(own, 1, m) = {}
<1>0. /\ x.kind = "iterator" /\ x.residual = nullptr /\ x.own = own
      /\ m # 0 /\ DOMAIN own = 1 .. 3 * m /\ Len(own) = 3 * m
      /\ \A k \in 1 .. 3 * m : own[k] # nullptr
      /\ \A k, l \in 1 .. 3 * m : own[k] = own[l] => k = l
  BY DEF IteratorScope
<1>1. Shape(x) /\ IsLoop(x)
  <2>1. x.kind \notin {"subroutine", "bare", "arm", "infinite", "prepred", "postpred"}
    BY <1>0
  <2>2. \A k \in DOMAIN x.own : x.own[k] # nullptr
    BY <1>0
  <2>3. \A k, l \in DOMAIN x.own : x.own[k] = x.own[l] => k = l
    BY <1>0
  <2>4. Shape(x)
    BY <1>0, <2>1, <2>2, <2>3 DEF Shape
  <2> QED  BY <1>0, <2>4 DEF IsLoop, LoopKinds
<1>2. Owned(x) = {own[k] : k \in 1 .. 3 * m}
  <2>1. \A k \in 1 .. 3 * m : own[k] # nullptr
    BY <1>0
  <2>2. x.residual = nullptr /\ x.own = own /\ DOMAIN own = 1 .. 3 * m
    BY <1>0
  <2> QED  BY ONLY <2>1, <2>2 DEF Owned
<1>3. DetachedOf(x) = Others(own, 1, m - 1) \cup {own[3 * m]} /\ BegunOf(x) = {}
  <2>1. Len(x.own) \div 3 = m
    BY <1>0, DomainsOfBlocks
  <2> QED  BY <1>0, <2>1 DEF DetachedOf, BegunOf
<1>4. Others(own, 1, m) = Others(own, 1, m - 1) \cup {own[3 * m - 1], own[3 * m]}
  <2>1. m - 1 \in Nat /\ 1 \in Nat /\ 1 <= m - 1 + 1 /\ m - 1 + 1 = m
    BY <1>0
  <2>2. Others(own, 1, m - 1 + 1)
          = Others(own, 1, m - 1) \cup {own[3 * (m - 1 + 1) - 1], own[3 * (m - 1 + 1)]}
    <3> DEFINE k == m - 1
    <3>1. k \in Nat /\ 1 \in Nat /\ 1 <= k + 1
      BY <2>1
    <3> HIDE DEF k
    <3>2. Others(own, 1, k + 1) = Others(own, 1, k) \cup {own[3 * (k + 1) - 1], own[3 * (k + 1)]}
      BY ONLY <3>1, OneMoreDomain
    <3> QED  BY <3>2 DEF k
  <2> QED  BY <2>1, <2>2
<1>5. /\ \A d \in 1 .. m : 3 * d \in 1 .. 3 * m /\ 3 * d - 1 \in 1 .. 3 * m /\ 3 * d - 2 \in 1 .. 3 * m
      /\ \A d \in 1 .. m, e \in 1 .. m : 3 * d - 2 # 3 * e /\ 3 * d - 2 # 3 * e - 1 /\ 3 * d - 1 # 3 * e
      /\ \A d \in 1 .. m - 1 : 3 * d # 3 * m - 1 /\ 3 * d - 1 # 3 * m - 1 /\ d \in 1 .. m
      /\ \A d \in 1 .. m - 1 : 3 * d # 3 * m /\ 3 * d - 1 # 3 * m
      /\ m \in 1 .. m
  BY <1>0
<1>6. /\ \A d \in 1 .. m : own[3 * d] \in Owned(x) /\ own[3 * d - 1] \in Owned(x) /\ own[3 * d - 2] \in Owned(x)
      /\ \A d \in 1 .. m, e \in 1 .. m : own[3 * d - 2] # own[3 * e] /\ own[3 * d - 2] # own[3 * e - 1]
      /\ own[3 * m - 1] # own[3 * m]
      /\ \A d \in 1 .. m - 1 : own[3 * d] # own[3 * m - 1] /\ own[3 * d - 1] # own[3 * m - 1]
      /\ \A d \in 1 .. m - 1 : own[3 * d] # own[3 * m] /\ own[3 * d - 1] # own[3 * m]
      /\ own[3 * m - 2] \in Owned(x)
  BY <1>0, <1>2, <1>5
<1>7. /\ own[3 * m - 1] \notin Others(own, 1, m - 1) /\ own[3 * m] \notin Others(own, 1, m - 1)
      /\ Headers(own, 1, m) \subseteq Owned(x) /\ Others(own, 1, m) \subseteq Owned(x)
      /\ Headers(own, 1, m) \cap Others(own, 1, m) = {}
      /\ own[3 * m - 1] \in Owned(x) /\ own[3 * m] \in Owned(x)
  BY <1>5, <1>6 DEF Headers, Others
<1> QED  BY <1>1, <1>2, <1>3, <1>4, <1>6, <1>7

\* In the pre header the runtime stack is saved, the domain variables are
\* allocated and so is what the domains keep on the runtime stack.
PreHeader(V, N, start, i, L, T, Q) ==
  /\ \A v \in V : \E domain \in Nat : v = Variable(domain)
  /\ open # <<>> /\ ~hitReturnStat /\ statements < MaxStatements
  /\ N = Len(ir.blocks) /\ L = Lexical(open)
  /\ start = SetInsertPoint(CreateBr(Create(ir), N + 1), N + 1)
  /\ i = Allocate(StackAllocate(start), V)
  /\ T = [live |-> L.live \cup V, height |-> L.height + 1]
  /\ Q = At(ir.paths # {}, T)

\* The pre-header is reached in the state of the code before the loop, with the
\* loop's variables created and the runtime stack saved.
LEMMA PreHeaderEffect ==
  ASSUME NEW want, NEW U, NEW r, Holds(want, U, r), NEW V, NEW N, NEW start, NEW i, NEW L, NEW T,
         NEW Q, PreHeader(V, N, start, i, L, T, Q)
  PROVE  \E want1 :
           /\ Emitted(i, Detached(open), Begun(open), U, want1, 0, Q) /\ Len(i.blocks) = N + 1
           /\ Extended(want1, U, want, U, N) /\ T \in Paths /\ StackSave(start) \in Nat
           /\ ir.paths # {} => StackSave(start) = L.height
           /\ U \subseteq 1 .. N /\ Detached(open) \subseteq 1 .. N /\ Begun(open) \subseteq 1 .. N
<1> DEFINE preHeader == N + 1
           B == {preHeader}
           reached == ir.paths # {}
           QL == At(reached, L)
           D == Detached(open)
           H == Begun(open)
           want1 == Expect(want, B, QL)
           c == Create(ir)
           entered == CreateBr(c, preHeader)
           s1 == [live |-> L.live, height |-> L.height + 1]
           a == StackAllocate(start)
<1>0. /\ \A v \in V : \E domain \in Nat : v = Variable(domain)
      /\ open # <<>> /\ ~hitReturnStat /\ statements < MaxStatements
      /\ N = Len(ir.blocks) /\ L = Lexical(open)
      /\ start = SetInsertPoint(CreateBr(Create(ir), N + 1), N + 1)
      /\ i = Allocate(StackAllocate(start), V)
      /\ T = [live |-> L.live \cup V, height |-> L.height + 1]
      /\ Q = At(reached, T)
  BY DEF PreHeader
<1>1. N \in Nat /\ L \in Paths /\ L.height \in Nat /\ MaxStatements \in Nat
      /\ statements \in 0 .. MaxStatements
  BY <1>0, InnerFacts, BoundsAssumption DEF Paths, Holds, Kept
<1>2. B \in SUBSET Nat /\ B \cap (1 .. N) = {} /\ preHeader \in Nat
  BY <1>1
<1> HIDE DEF B, want1, QL
<1>3. /\ Emitted(ir, D, H, U, want1, 0, QL)
      /\ U \subseteq 1 .. N /\ D \subseteq 1 .. N /\ H \subseteq 1 .. N
      /\ Extended(want1, U, want, U, N) /\ Expected(want1, B, QL)
  <2>1. /\ N = Len(ir.blocks) /\ D = Detached(open) /\ H = Begun(open)
        /\ QL = At(ir.paths # {}, Lexical(open)) /\ want1 = Expect(want, B, QL)
    BY <1>0 DEF QL, want1
  <2>2. open # <<>> /\ ~hitReturnStat /\ B \in SUBSET Nat /\ B \cap (1 .. N) = {}
    BY <1>0, <1>2
  <2>3. AboutToCreate(B, want, want1, N, D, H, QL)
    BY <2>1, <2>2 DEF AboutToCreate
  <2> HIDE DEF D, H
  <2> QED  BY ONLY Holds(want, U, r), <2>3, NewBlocks
<1> HIDE DEF D, H, reached
<1>4. preHeader \notin H /\ preHeader \notin U /\ want1[preHeader] = QL
  BY <1>1, <1>3 DEF Expected, B
<1>5. Emitted(c, D, H \cup {preHeader}, U, want1, 0, QL) /\ Len(c.blocks) = N + 1 /\ c.paths = ir.paths
  BY <1>0, <1>3, CreateEffect
<1> HIDE DEF c
<1>6. /\ Emitted(entered, D, H \cup {preHeader}, U, want1, 1, {}) /\ Len(entered.blocks) = N + 1
      /\ entered.blocks[preHeader].entry = c.blocks[preHeader].entry \cup c.paths
  <2>1. preHeader \in DOMAIN c.blocks \ U /\ QL \subseteq want1[preHeader]
    BY <1>1, <1>4, <1>5, EmittedType
  <2> HIDE DEF preHeader
  <2>2. /\ Emitted(CreateBr(c, preHeader), D, H \cup {preHeader}, U, want1, 1, {})
        /\ Len(CreateBr(c, preHeader).blocks) = Len(c.blocks)
        /\ CreateBr(c, preHeader).blocks[preHeader].entry = c.blocks[preHeader].entry \cup c.paths
    BY ONLY <1>5, <2>1, CreateBrEffect
  <2> QED  BY <1>5, <2>2
<1>7. start = SetInsertPoint(entered, preHeader)
  BY <1>0 DEF c
<1> HIDE DEF entered, preHeader
<1>8. /\ Emitted(start, D, H, U, want1, 0, QL) /\ Len(start.blocks) = N + 1
      /\ start.paths = entered.blocks[preHeader].entry
  <2> DEFINE H1 == H \cup {preHeader}
  <2>1. preHeader \in H1 /\ want1[preHeader] \subseteq QL /\ H1 \ {preHeader} = H
    BY <1>4
  <2>2. Emitted(entered, D, H1, U, want1, 1, {})
    BY <1>6
  <2> HIDE DEF H1
  <2>3. preHeader \in H1 /\ want1[preHeader] \subseteq QL
    BY <2>1
  <2>4. /\ Emitted(SetInsertPoint(entered, preHeader), D, H1 \ {preHeader}, U, want1, 0, QL)
        /\ Len(SetInsertPoint(entered, preHeader).blocks) = Len(entered.blocks)
        /\ SetInsertPoint(entered, preHeader).paths = entered.blocks[preHeader].entry
    BY ONLY <2>2, <2>3, SetInsertPointEffect
  <2> QED  BY <1>6, <1>7, <2>1, <2>4
<1>9. StackSave(start) \in Nat /\ (reached => StackSave(start) = L.height)
  <2>1. start.paths \subseteq QL /\ ir.paths \subseteq start.paths
    BY <1>5, <1>6, <1>8 DEF Emitted
  <2>2. CASE start.paths = {}
    BY <2>1, <2>2 DEF StackSave, reached
  <2>3. CASE start.paths # {}
    <3>1. start.paths = {L}
      BY <2>1, <2>3 DEF QL, At
    <3>2. (CHOOSE p \in start.paths : TRUE) = L
      BY <3>1
    <3> QED  BY <1>1, <2>3, <3>2 DEF StackSave
  <2>4. reached => start.paths # {}
    BY <2>1 DEF reached
  <2> QED  BY <2>2, <2>3, <2>4
<1>10. s1 \in Paths
  BY <1>1 DEF Paths
<1>11. Emitted(a, D, H, U, want1, 0, At(reached, s1)) /\ a.blocks = start.blocks
  <2>1. Emitted(start, D, H, U, want1, 0, At(reached, L)) /\ L \in Paths
    BY <1>1, <1>8 DEF QL
  <2> HIDE DEF a
  <2> QED  BY ONLY <2>1, StackAllocateEffect DEF a, s1
<1>12. V \in SUBSET ((0 .. MaxStatements) \X Nat)
  <2>1. V \in SUBSET Names(statements + 1)
    BY <1>0, NewVariables
  <2>2. 0 .. statements + 1 \subseteq 0 .. MaxStatements
    BY <1>0, <1>1
  <2> QED  BY <2>1, <2>2 DEF Names
<1>13. T \in Paths /\ T = [live |-> s1.live \cup V, height |-> s1.height]
  BY <1>0, <1>1, <1>12 DEF Paths
<1> HIDE DEF s1, a
<1>14. Emitted(i, D, H, U, want1, 0, At(reached, T)) /\ i.blocks = a.blocks
  <2>1. i = Allocate(a, V)
    BY <1>0 DEF a
  <2>2. /\ Emitted(Allocate(a, V), D, H, U, want1, 0,
                   At(reached, [live |-> s1.live \cup V, height |-> s1.height]))
        /\ Allocate(a, V).blocks = a.blocks
    BY ONLY <1>10, <1>11, <1>12, AllocateEffect
  <2> QED  BY <1>13, <2>1, <2>2
<1> QED  BY <1>0, <1>1, <1>3, <1>8, <1>9, <1>11, <1>13, <1>14 DEF D, H, reached

\* The blocks of a loop are numbered on from the pre header's, N.
NumberedOn(N, m) == [k \in 1 .. 3 * m |-> N + k]

\* The blocks that a loop creates one after the other are new and differ from each other.
LEMMA NumberedBlocks ==
  ASSUME NEW N \in Nat, NEW m \in Nat
  PROVE  LET own == NumberedOn(N, m)
         IN  /\ own \in Seq(0 .. N + 3 * m) /\ Len(own) = 3 * m /\ DOMAIN own = 1 .. 3 * m
             /\ Numbered(own, N, m)
             /\ \A k \in 1 .. 3 * m : own[k] \in N + 1 .. N + 3 * m /\ own[k] # nullptr
             /\ \A k, l \in 1 .. 3 * m : own[k] = own[l] => k = l
<1> DEFINE own == NumberedOn(N, m)
           n == 3 * m
           S == 0 .. N + n
<1>1. n \in Nat /\ N + n \in Nat
  OBVIOUS
<1>2. DOMAIN own = 1 .. n /\ \A k \in 1 .. n : own[k] = N + k
  BY DEF NumberedOn
<1>3. Numbered(own, N, m)
  BY <1>2 DEF Numbered
<1> HIDE DEF n, own
<1>4. \A k \in 1 .. n : /\ N + k \in 0 .. N + n /\ N + k \in N + 1 .. N + n /\ N + k # nullptr
                       /\ \A l \in 1 .. n : N + k = N + l => k = l
  BY <1>1 DEF nullptr
<1>5. own \in [1 .. n -> S]
  <2>1. own = [k \in 1 .. n |-> N + k]
    BY DEF own, n, NumberedOn
  <2> QED  BY <1>4, <2>1
<1>6. own \in Seq(S) /\ Len(own) = n
  <2> HIDE DEF S
  <2>1. own \in Seq(S)
    BY ONLY <1>1, <1>5
  <2>2. Len(own) = n
    BY ONLY <1>1, <1>2, <2>1, LenProperties
  <2> QED  BY <2>1, <2>2
<1>7. \A k \in 1 .. n : own[k] \in N + 1 .. N + n /\ own[k] # nullptr
  BY <1>2, <1>4
<1>8. \A k, l \in 1 .. n : own[k] = own[l] => k = l
  BY <1>2, <1>4
<1> QED  BY <1>2, <1>3, <1>6, <1>7, <1>8 DEF n, own

\* Every header tests its index, the innermost one leads to the body.
LEMMA EnterIteratorLoopHolds ==
  ASSUME IInv, NestedDomains = FALSE, NEW domains \in Domains, EnterIteratorLoop(domains)
  PROVE  IInv'
<1> PICK want, U, r : Holds(want, U, r)
  BY DEF IInv
<1>0. /\ domains \in Nat /\ domains # 0 /\ Len(ir.blocks) \in Nat /\ open # <<>>
      /\ ~hitReturnStat /\ statements + 1 \in Nat /\ Held(open) \subseteq 1 .. Len(ir.blocks)
  <2>1. open # <<>> /\ statements \in Nat
    BY BoundsAssumption DEF EnterIteratorLoop, CompoundStatement, Statement, Holds, Kept
  <2>2. domains \in Nat /\ domains # 0
    BY DomainsAssumption
  <2>3. ~Inner.containReturn
    BY DEF EnterIteratorLoop, CompoundStatement, Statement
  <2> QED  BY <2>1, <2>2, <2>3, InnerFacts DEF Holds, Kept
<1>m. PICK m \in Nat : m = domains
  BY <1>0
<1>n. PICK N \in Nat : N = Len(ir.blocks)
  BY <1>0
<1>o. PICK N1 \in Nat : N1 = N + 1
  OBVIOUS
<1>p. PICK N2 \in Nat : N2 = N1 + 3 * m
  <2>1. N1 + 3 * m \in Nat
    OBVIOUS
  <2> QED  BY <2>1
<1>q. PICK reached \in BOOLEAN : reached = (ir.paths # {})
  OBVIOUS
<1> DEFINE own == NumberedOn(N1, m)
           start == SetInsertPoint(CreateBr(Create(ir), N1), N1)
           V == {Variable(d) : d \in 1 .. m}
           allocated == Allocate(StackAllocate(start), V)
           created == CreateDomains(allocated, m)
           entered == CreateBr(created, own[1])
           tested == TestDomains(entered, own, m)
           body == own[3 * m - 1]
           j == SetInsertPoint(Place(tested, body), body)
           y == [Scope("iterator", own) EXCEPT !.outer = V, !.height = StackSave(start)]
           D == Detached(open)
           H == Begun(open)
           L == Lexical(open)
           T == [live |-> L.live \cup V, height |-> L.height + 1]
           Q == At(reached, T)
           B == Owned(y)
           D2 == D \cup Others(own, 1, m)
           H2 == H \cup Headers(own, 1, m)
<1>1. /\ CompoundStatement /\ open # <<>> /\ ~Inner.containReturn /\ statements < MaxStatements
      /\ ir' = j /\ Enter(y) /\ blockStack' = blockStack \o own /\ (HasLoop(open) => m = 1)
  BY <1>m, <1>n, <1>o DEF EnterIteratorLoop, CompoundStatement, Statement, HasLoop, InLoop, NumberedOn
<1>2. m # 0 /\ ~hitReturnStat /\ statements + 1 \in Nat /\ N <= N2 /\ Held(open) \subseteq 1 .. N
  <2>1. N <= N2
    BY <1>o, <1>p
  <2> QED  BY <1>0, <1>m, <1>n, <2>1
<1>3. \A v \in V : \E domain \in Nat : v = Variable(domain)
  OBVIOUS
<1>4. /\ own \in Seq(0 .. N2) /\ Len(own) = 3 * m /\ DOMAIN own = 1 .. 3 * m
      /\ \A k \in 1 .. 3 * m : own[k] \in N1 + 1 .. N2 /\ own[k] # nullptr
      /\ \A k, l \in 1 .. 3 * m : own[k] = own[l] => k = l
      /\ Numbered(own, N1, m)
  BY <1>p, NumberedBlocks
<1> HIDE DEF V, own, allocated, start, j, D, H, L, T, Q
<1>5. /\ y.kind = "iterator" /\ y.variables = {} /\ y.containReturn = FALSE /\ y.outer = V
      /\ y.own = own /\ y.residual = nullptr /\ y.height = StackSave(start)
      /\ y.elseIfs = 0 /\ y.hasElse = FALSE
  BY DEF Scope
<1> HIDE DEF y
<1>6. PICK want1 :
        /\ Emitted(allocated, D, H, U, want1, 0, Q) /\ Len(allocated.blocks) = N1
        /\ Extended(want1, U, want, U, N) /\ T \in Paths /\ StackSave(start) \in Nat
        /\ reached => StackSave(start) = L.height
        /\ U \subseteq 1 .. N /\ D \subseteq 1 .. N /\ H \subseteq 1 .. N
  <2>1. PreHeader(V, N, start, allocated, L, T, Q)
    BY <1>1, <1>2, <1>3, <1>n, <1>o, <1>q DEF PreHeader, L, start, allocated, T, Q
  <2>2. \E want1 :
           /\ Emitted(allocated, Detached(open), Begun(open), U, want1, 0, Q)
           /\ Len(allocated.blocks) = N + 1
           /\ Extended(want1, U, want, U, N) /\ T \in Paths /\ StackSave(start) \in Nat
           /\ ir.paths # {} => StackSave(start) = L.height
           /\ U \subseteq 1 .. N /\ Detached(open) \subseteq 1 .. N /\ Begun(open) \subseteq 1 .. N
    BY ONLY Holds(want, U, r), <2>1, PreHeaderEffect
  <2> QED  BY <1>o, <1>q, <2>2 DEF D, H
<1>7. /\ Shape(y) /\ IsLoop(y) /\ B = {own[k] : k \in 1 .. 3 * m}
      /\ DetachedOf(y) = Others(own, 1, m - 1) \cup {own[3 * m]} /\ BegunOf(y) = {}
      /\ own[3 * m - 1] \notin DetachedOf(y)
      /\ Others(own, 1, m) = DetachedOf(y) \cup {own[3 * m - 1]}
      /\ own[3 * m - 1] \in B /\ own[3 * m] \in B
      /\ Headers(own, 1, m) \subseteq B /\ Others(own, 1, m) \subseteq B
      /\ Headers(own, 1, m) \cap Others(own, 1, m) = {}
  <2>1. IteratorScope(y, own, m)
    BY <1>2, <1>4, <1>5 DEF IteratorScope
  <2> QED  BY ONLY <2>1, IteratorBlocks
<1> DEFINE want2 == Expect(want1, B, Q)
<1>8. /\ B \subseteq N1 + 1 .. N2 /\ B \cap (1 .. N1) = {} /\ B \cap (1 .. N) = {}
      /\ B \cap U = {} /\ B \cap H = {} /\ B \cap D = {}
  <2>1. B \subseteq N1 + 1 .. N2
    BY <1>4, <1>7
  <2> HIDE DEF B
  <2>3. \A b \in N1 + 1 .. N2 : b \notin 1 .. N1 /\ b \notin 1 .. N
    BY <1>o
  <2> QED  BY <1>6, <2>1, <2>3
<1> HIDE DEF B, want2
<1>9. Q \in SUBSET Paths /\ \A q1, q2 \in Q : q1 = q2
  BY <1>6, AtMostOne DEF Q
<1>10. /\ want2 \in Expectations /\ \A b \in Nat : want2[b] = IF b \in B THEN Q ELSE want1[b]
       /\ allocated.paths \subseteq Q /\ DOMAIN allocated.blocks = 1 .. N1
  <2>1. /\ want1 \in Expectations /\ allocated.paths \subseteq Q
        /\ DOMAIN allocated.blocks = 1 .. Len(allocated.blocks)
    BY <1>6, EmittedType DEF Emitted
  <2> QED  BY <1>6, <1>9, <2>1, ExpectMore DEF want2
<1>11. Extended(want2, U, want, U, N) /\ Expected(want2, B, Q)
       /\ \A b \in 1 .. N1 : want2[b] = want1[b]
  <2>1. /\ \A b \in 1 .. N1 : b \in Nat /\ b \notin B
        /\ \A b \in 1 .. N : b \in 1 .. N1
        /\ \A b \in B : b \in Nat
    BY <1>o, <1>8
  <2> QED  BY <1>6, <1>10, <2>1 DEF Extended, Expected
<1>12. Emitted(allocated, D, H, U, want2, 0, Q)
  BY <1>6, <1>10, <1>11, Review
<1>13. Emitted(created, D2, H2, U, want2, 0, Q) /\ Len(created.blocks) = N2
  <2>1. Numbered(own, Len(allocated.blocks), m)
    BY <1>4, <1>6
  <2>2. /\ Emitted(CreateDomains(allocated, m), D \cup Others(own, 1, m),
                   H \cup Headers(own, 1, m), U, want2, 0, Q)
        /\ Len(CreateDomains(allocated, m).blocks) = Len(allocated.blocks) + 3 * m
    BY ONLY <1>12, <2>1, CreateDomainsEffect
  <2> QED  BY <1>6, <1>p, <2>2
<1> HIDE DEF created
<1>14. LoopBlocks(own, m, created, U, want2, Q)
  <2>1. DOMAIN created.blocks = 1 .. N2
    BY <1>13, EmittedType
  <2>2. ASSUME NEW k \in 1 .. 3 * m PROVE own[k] \in DOMAIN created.blocks \ U /\ want2[own[k]] = Q
    <3>1. own[k] \in B
      BY <1>7
    <3>2. own[k] \in 1 .. N2
      BY <1>4
    <3> QED  BY <1>8, <1>11, <2>1, <3>1, <3>2 DEF Expected
  <2> QED  BY <1>4, <2>2 DEF LoopBlocks
<1>15. Emitted(entered, D2, H2, U, want2, 1, {}) /\ Len(entered.blocks) = N2
  <2>1. 1 \in 1 .. 3 * m
    BY <1>2
  <2>2. own[1] \in DOMAIN created.blocks \ U /\ Q \subseteq want2[own[1]]
    BY <1>14, <2>1 DEF LoopBlocks
  <2> HIDE DEF D2, H2
  <2> QED  BY <1>13, <2>2, CreateBrEffect
<1> HIDE DEF entered
<1>16. LoopBlocks(own, m, entered, U, want2, Q)
  <2>1. DOMAIN created.blocks = DOMAIN entered.blocks
    BY <1>13, <1>15, EmittedType
  <2> QED  BY <1>14, <2>1 DEF LoopBlocks
<1>17. Emitted(tested, D2, H, U, want2, 1, {}) /\ Len(tested.blocks) = N2
  <2>1. Headers(own, 1, m) \subseteq H2 /\ H2 \ Headers(own, 1, m) = H
    BY <1>7, <1>8
  <2> HIDE DEF D2, H2
  <2>2. /\ Emitted(TestDomains(entered, own, m), D2, H2 \ Headers(own, 1, m), U, want2, 1, {})
        /\ Len(TestDomains(entered, own, m).blocks) = Len(entered.blocks)
    BY ONLY <1>15, <1>16, <2>1, TestDomainsEffect
  <2> QED  BY <1>15, <2>1, <2>2
<1> HIDE DEF tested
<1>18. Emitted(j, D \cup DetachedOf(y), H, U, want2, 0, Q) /\ Len(j.blocks) = N2
  <2>1. body \in D2 /\ D2 \ {body} = D \cup DetachedOf(y) /\ want2[body] \subseteq Q
    BY <1>7, <1>8, <1>11, SMTT(30) DEF Expected
  <2> HIDE DEF D2, body
  <2>2. /\ Emitted(SetInsertPoint(Place(tested, body), body), D2 \ {body}, H, U, want2, 0, Q)
        /\ Len(SetInsertPoint(Place(tested, body), body).blocks) = Len(tested.blocks)
    BY ONLY <1>17, <2>1, PlaceAndGoEffect
  <2> QED  BY <1>17, <2>1, <2>2 DEF j
<1>19. y \in Scopes(N2, statements + 1)
  <2>1. V \in SUBSET Names(statements + 1)
    BY <1>1, <1>3, NewVariables
  <2>2. /\ {} \in SUBSET Names(statements + 1) /\ FALSE \in BOOLEAN /\ 0 \in Nat
        /\ "iterator" \in LoopKinds \cup {"subroutine", "bare", "arm"} /\ nullptr \in 0 .. N2
    BY <1>2 DEF nullptr, LoopKinds
  <2> QED  BY <1>4, <1>6, <2>1, <2>2 DEF y, Scope, Scopes
<1>20. Base(open, y) = T /\ V \cap Lexical(open).live = {}
  <2>1. V \cap Lexical(open).live = {}
    BY <1>1, <1>3, NewVariables
  <2> QED  BY <1>5, <2>1 DEF Base, T, L
<1>21. /\ Emitted(ir', Detached(open) \cup DetachedOf(y), Begun(open) \cup BegunOf(y), U, want2, 0,
                  At(reached, Base(open, y)))
       /\ Expected(want2, Owned(y), At(reached, Base(open, y)))
       /\ Owned(y) \cap (1 .. N) = {} /\ Owned(y) \cap U = {}
       /\ N = Len(ir.blocks) /\ N2 = Len(ir'.blocks) /\ N <= N2 /\ N2 \in Nat
  BY <1>1, <1>2, <1>7, <1>8, <1>11, <1>18, <1>20, <1>n DEF B, D, H, Q
<1>22. /\ y.kind # "subroutine" /\ (IsLoop(y) /\ HasLoop(open) => Len(y.own) = 3)
       /\ y.outer \cap Lexical(open).live = {} /\ y.variables = {} /\ y.containReturn = FALSE
       /\ (y.kind = "iterator" /\ reached => y.height = Lexical(open).height)
       /\ blockStack' = IF IsLoop(y) THEN blockStack \o y.own ELSE blockStack
       /\ reached = (ir.paths # {})
  <2>1. HasLoop(open) => Len(y.own) = 3
    <3>1. HasLoop(open) => m = 1
      BY <1>1
    <3>2. Len(y.own) = 3 * m
      BY <1>4, <1>5
    <3> QED  BY <3>1, <3>2
  <2>2. y.kind # "subroutine"
    BY <1>5
  <2>3. reached => y.height = Lexical(open).height
    BY <1>5, <1>6 DEF L
  <2>4. y.outer \cap Lexical(open).live = {}
    BY <1>5, <1>20
  <2>5. blockStack' = IF IsLoop(y) THEN blockStack \o y.own ELSE blockStack
    BY <1>1, <1>5, <1>7
  <2> QED  BY <1>5, <1>q, <2>1, <2>2, <2>3, <2>4, <2>5
<1>23. Shape(y) /\ y.kind = "iterator" /\ CompoundStatement /\ Enter(y) /\ Extended(want2, U, want, U, N)
       /\ y \in Scopes(N2, statements + 1)
  BY <1>1, <1>5, <1>7, <1>11, <1>19
<1> QED  BY ONLY Holds(want, U, r), <1>21, <1>22, <1>23, PushStep

\* The innermost loop, when it is an iterator loop.
LEMMA IteratorShape ==
  ASSUME NEW N, NEW st, NEW x \in Scopes(N, st), Shape(x), x.kind = "iterator"
  PROVE  \E m \in Nat : IteratorScope(x, x.own, m)
<1>1. PICK m \in Nat : m # 0 /\ Len(x.own) = 3 * m
  BY DEF Shape
<1>2. DOMAIN x.own = 1 .. 3 * m
  BY <1>1 DEF Scopes
<1>3. x.residual = nullptr
  BY DEF Shape
<1>4. \A k \in 1 .. 3 * m : x.own[k] # nullptr
  BY <1>2 DEF Shape
<1>5. \A k, l \in 1 .. 3 * m : x.own[k] = x.own[l] => k = l
  BY <1>2 DEF Shape
<1> QED  BY <1>1, <1>2, <1>3, <1>4, <1>5 DEF IteratorScope

\* The innermost domain leads back to its header, and is left by its merge
\* block, which leads back to the header of the next domain out, if any.
InnermostLeft(x, own, m, r, Q, closed, merge, merged, i) ==
  /\ open # <<>> /\ x = Inner /\ IteratorScope(x, own, m)
  /\ Q = At(Len(open) <= r, Base(Front(open), x))
  /\ closed = IF hitReturnStat THEN EndBlock(x) ELSE CreateBr(EndBlock(x), own[3 * m - 2])
  /\ merge = own[3 * m] /\ merged = SetInsertPoint(Place(closed, merge), merge)
  /\ i = IF m = 1 THEN merged ELSE CreateBr(merged, own[3 * m - 4])

\* Leaving the innermost domain puts its merge block in the function.
LEMMA InnermostDomainEffect ==
  ASSUME NEW want, NEW U, NEW r, Holds(want, U, r), NEW x, NEW own, NEW m \in Nat, NEW Q,
         NEW closed, NEW merge, NEW merged, NEW i,
         InnermostLeft(x, own, m, r, Q, closed, merge, merged, i)
  PROVE  /\ Emitted(i, Detached(open) \ {merge}, Begun(open), U, want, Closed(m), States(m, Q))
         /\ Len(i.blocks) = Len(ir.blocks) /\ LoopBlocks(own, m, i, U, want, Q)
<1> DEFINE D == Detached(open)
           H == Begun(open)
           N == Len(ir.blocks)
           header == own[3 * m - 2]
<1>0. /\ open # <<>> /\ x = Inner /\ IteratorScope(x, own, m)
      /\ Q = At(Len(open) <= r, Base(Front(open), x))
      /\ closed = IF hitReturnStat THEN EndBlock(x) ELSE CreateBr(EndBlock(x), own[3 * m - 2])
      /\ merge = own[3 * m] /\ merged = SetInsertPoint(Place(closed, merge), merge)
      /\ i = IF m = 1 THEN merged ELSE CreateBr(merged, own[3 * m - 4])
  BY DEF InnermostLeft
<1>1. /\ IsLoop(x) /\ x.kind # "bare" /\ Owned(x) = {own[k] : k \in 1 .. 3 * m}
      /\ header \in Owned(x) /\ merge \in Owned(x) /\ merge \in DetachedOf(x)
      /\ m # 0 /\ Len(own) = 3 * m /\ \A k, l \in 1 .. 3 * m : own[k] = own[l] => k = l
  <2>1. /\ IsLoop(x) /\ Owned(x) = {own[k] : k \in 1 .. 3 * m} /\ header \in Owned(x)
        /\ own[3 * m] \in Owned(x) /\ DetachedOf(x) = Others(own, 1, m - 1) \cup {own[3 * m]}
    <3>1. IteratorScope(x, own, m)
      BY <1>0
    <3> HIDE DEF header
    <3>2. /\ IsLoop(x) /\ Owned(x) = {own[k] : k \in 1 .. 3 * m} /\ own[3 * m - 2] \in Owned(x)
          /\ own[3 * m] \in Owned(x) /\ DetachedOf(x) = Others(own, 1, m - 1) \cup {own[3 * m]}
      BY ONLY <3>1, IteratorBlocks
    <3> QED  BY <3>2 DEF header
  <2>2. /\ x.kind = "iterator" /\ m # 0 /\ Len(own) = 3 * m
        /\ \A k, l \in 1 .. 3 * m : own[k] = own[l] => k = l
    BY <1>0 DEF IteratorScope
  <2> HIDE DEF header
  <2> QED  BY <1>0, <2>1, <2>2
<1>2. N \in Nat /\ D = Detached(Front(open)) \cup DetachedOf(x)
  BY <1>0, InnerFacts
<1>3. ASSUME NEW b \in Owned(x) PROVE want[b] = Q /\ b \in 1 .. N /\ b \notin U
  BY <1>0, <1>1, OwnedFacts
<1>4. Emitted(closed, D, H, U, want, 1, {}) /\ Len(closed.blocks) = N
  <2>1. header \notin U
    BY <1>1, <1>3
  <2> HIDE DEF header
  <2>2. closed = IF hitReturnStat THEN EndBlock(x) ELSE CreateBr(EndBlock(x), header)
    BY <1>0 DEF header
  <2> QED  BY <1>0, <1>1, <2>1, <2>2, EndOfBody
<1> HIDE DEF D, H, N
<1>5. Emitted(merged, D \ {merge}, H, U, want, 0, Q) /\ Len(merged.blocks) = N
  <2>1. merge \in D /\ want[merge] \subseteq Q
    BY <1>1, <1>2, <1>3
  <2>2. /\ Emitted(SetInsertPoint(Place(closed, merge), merge), D \ {merge}, H, U, want, 0, Q)
        /\ Len(SetInsertPoint(Place(closed, merge), merge).blocks) = Len(closed.blocks)
    BY ONLY <1>4, <2>1, PlaceAndGoEffect
  <2> QED  BY <1>0, <1>4, <2>2
<1>6. Emitted(i, D \ {merge}, H, U, want, Closed(m), States(m, Q)) /\ Len(i.blocks) = N
  <2>1. CASE m = 1
    BY <1>0, <1>5, <2>1 DEF Closed, States
  <2>2. CASE m # 1
    <3> DEFINE outer == own[3 * m - 4]
               j == CreateBr(merged, outer)
    <3>1. 3 * m - 4 \in 1 .. 3 * m
      BY <1>1, <2>2
    <3>2. outer \in DOMAIN merged.blocks \ U /\ Q \subseteq want[outer]
      <4>1. outer \in Owned(x)
        BY <1>1, <3>1
      <4>2. DOMAIN merged.blocks = 1 .. N
        BY <1>5, EmittedType
      <4> QED  BY <1>3, <4>1, <4>2
    <3> HIDE DEF outer
    <3>3. Emitted(j, D \ {merge}, H, U, want, 1, {}) /\ Len(j.blocks) = Len(merged.blocks)
      BY <1>5, <3>2, CreateBrEffect
    <3>4. i = j
      BY <1>0, <2>2 DEF outer
    <3> QED  BY <1>5, <2>2, <3>3, <3>4 DEF Closed, States
  <2> QED  BY <2>1, <2>2
<1>7. LoopBlocks(own, m, i, U, want, Q)
  <2>1. DOMAIN i.blocks = 1 .. N
    BY <1>6, EmittedType
  <2>2. \A k \in 1 .. 3 * m : own[k] \in Owned(x)
    BY <1>1
  <2>3. \A k \in 1 .. 3 * m : own[k] \in DOMAIN i.blocks \ U /\ want[own[k]] = Q
    BY <1>3, <2>1, <2>2
  <2> QED  BY <1>1, <2>3 DEF LoopBlocks
<1> QED  BY <1>6, <1>7 DEF D, H, N

\* The other domains are left in turn; then the domain variables are freed
\* and the runtime stack is as it was before the loop.
LEMMA LeaveIteratorLoopHolds ==
  ASSUME IInv, LeaveIteratorLoop
  PROVE  IInv'
<1> PICK want, U, r : Holds(want, U, r)
  BY DEF IInv
<1> DEFINE x == Inner
           p == Front(open)
<1>1. open # <<>> /\ x.kind = "iterator" /\ Leave /\ blockStack' = Popped(3)
  BY DEF LeaveIteratorLoop
<1>2. /\ Fits(p, x, want, U, r) /\ x \in Scopes(Len(ir.blocks), statements)
      /\ Detached(open) = Detached(p) \cup DetachedOf(x) /\ Begun(open) = Begun(p) \cup BegunOf(x)
      /\ Lexical(p) \in Paths /\ Base(p, x) \in Paths /\ Len(ir.blocks) \in Nat
      /\ Len(open) = Len(p) + 1 /\ Len(p) \in Nat /\ r \in Nat
  BY <1>1, InnerFacts DEF Holds
<1>3. PICK m \in Nat : IteratorScope(x, x.own, m)
  BY <1>1, <1>2, IteratorShape DEF Fits
<1> DEFINE own == x.own
           merge == own[3 * m]
           D == Detached(open) \ {merge}
           H == Begun(open)
           N == Len(ir.blocks)
           T == Base(p, x)
           reached == Len(open) <= r
           Q == At(reached, T)
           closed == IF hitReturnStat THEN EndBlock(x) ELSE CreateBr(EndBlock(x), own[3 * m - 2])
           merged == SetInsertPoint(Place(closed, merge), merge)
           i == IF m = 1 THEN merged ELSE CreateBr(merged, own[3 * m - 4])
           left == LeaveDomains(i, m)
           freed == Free(left, x.outer)
           T2 == [live |-> T.live \ x.outer, height |-> T.height]
           back == Lexical(p).height
           T3 == [live |-> T2.live, height |-> back]
<1>4. Len(own) \div 3 = m /\ m # 0 /\ Len(own) = 3 * m /\ IsLoop(x)
  <2>1. Len(own) = 3 * m /\ m # 0
    BY <1>3 DEF IteratorScope
  <2> QED  BY <1>1, <2>1, DomainsOfBlocks DEF IsLoop, LoopKinds
<1>5. ir' = StackRestore(freed, x.height)
  BY <1>4 DEF LeaveIteratorLoop
<1>6. /\ Emitted(i, D, H, U, want, Closed(m), States(m, Q))
      /\ Len(i.blocks) = N /\ LoopBlocks(own, m, i, U, want, Q)
  <2> HIDE DEF own, closed, merge, merged, i, x, Q
  <2>1. InnermostLeft(x, own, m, r, Q, closed, merge, merged, i)
    BY <1>1, <1>3 DEF InnermostLeft, own, closed, merge, merged, i, x, Q
  <2> QED  BY ONLY m \in Nat, Holds(want, U, r), <2>1, InnermostDomainEffect DEF D, H, N
<1> HIDE DEF closed, merged, i, Q
<1>7. /\ H = Begun(p) /\ Others(own, 1, m - 1) \subseteq D
      /\ D \ Others(own, 1, m - 1) = Detached(p)
  <2>1. /\ BegunOf(x) = {} /\ DetachedOf(x) = Others(own, 1, m - 1) \cup {merge}
        /\ merge \notin Others(own, 1, m - 1)
    BY <1>3, IteratorBlocks
  <2>2. DetachedOf(x) \cap Detached(p) = {}
    BY <1>1, <1>2, InnerFacts, OwnedFacts
  <2> HIDE DEF own, merge
  <2> QED  BY <1>2, <2>1, <2>2
<1> HIDE DEF D, H
<1>8. OnTop(own, m)
  <2> DEFINE n == Len(own)
  <2>1. \A k \in 1 .. n : FromTop(n - k + 1) = own[k]
    BY <1>1, <1>4, TopBlocks
  <2> QED  BY <1>4, <2>1 DEF OnTop
<1> HIDE DEF own
<1>9. Emitted(left, Detached(p), Begun(p), U, want, 0, Q) /\ Len(left.blocks) = N
  <2>1. /\ Emitted(left, D \ Others(own, 1, m - 1), H, U, want, 0, Q)
        /\ Len(left.blocks) = Len(i.blocks)
    BY ONLY <1>4, <1>6, <1>7, <1>8, LeaveDomainsEffect, SMTT(30)
  <2> QED  BY <1>6, <1>7, <2>1
<1> HIDE DEF left
<1>10. /\ x.outer \subseteq T.live /\ T2 \in Paths /\ T.live \ x.outer = Lexical(p).live
       /\ T.height = back + 1 /\ back \in Nat /\ x.height \in Nat
       /\ reached => x.height = back /\ back <= T2.height
  <2>1. x.outer \subseteq T.live /\ T.live \ x.outer = Lexical(p).live
    BY <1>2 DEF Fits, Base
  <2>2. T.height = back + 1 /\ back \in Nat /\ x.height \in Nat
    BY <1>1, <1>2 DEF Base, Paths, Scopes
  <2>3. T2 \in Paths
    BY <1>2, <2>1 DEF Paths
  <2>4. reached => Len(p) < r
    BY <1>2
  <2>5. reached => x.height = back
    BY <1>1, <1>2, <2>4 DEF Fits
  <2> QED  BY <2>1, <2>2, <2>3, <2>5
<1> HIDE DEF T, back, reached
<1>11. Emitted(freed, Detached(p), Begun(p), U, want, 0, At(reached, T2)) /\ freed.blocks = left.blocks
  <2>1. Emitted(left, Detached(p), Begun(p), U, want, 0, At(reached, T)) /\ T \in Paths
    BY <1>2, <1>9 DEF Q, T
  <2> QED  BY <1>10, <2>1, FreeEffect
<1> HIDE DEF freed, T2
<1>12. /\ Emitted(ir', Detached(p), Begun(p), U, want, 0, At(reached, T3))
       /\ ir'.blocks = freed.blocks
  BY <1>5, <1>10, <1>11, StackRestoreEffect
<1>13. T3 = Lexical(p)
  BY <1>2, <1>10, StatesAreRecords DEF T2, back
<1>14. /\ Emitted(ir', Detached(p), Begun(p), U, want, 0, At(reached, Lexical(p)))
       /\ N = Len(ir'.blocks)
  BY <1>9, <1>11, <1>12, <1>13
<1>15. /\ Holds(want, U, r) /\ open # <<>> /\ x = Inner /\ Leave /\ p = Front(open)
       /\ reached = (Len(open) <= r) /\ x.kind # "subroutine" /\ IsLoop(x)
       /\ N = Len(ir.blocks) /\ N <= N /\ N \in Nat
  BY <1>1, <1>2, <1>4 DEF reached
<1>16. Extended(want, U, want, U, N) /\ blockStack' = IF IsLoop(x) THEN Popped(3) ELSE blockStack
  BY <1>1, <1>4 DEF Extended
<1>17. At(reached, Lexical(p)) = At(Len(open) <= r, Lexical(p))
  BY DEF reached
<1> HIDE DEF x, p, N
<1> QED  BY ONLY <1>14, <1>15, <1>16, <1>17, PopStep

(***************************************************************************)
(* Jumps.                                                                  *)
(***************************************************************************)
\* The scopes around scope d of the open ones, and that one.
Around(d) == SubSeq(open, 1, d - 1)

\* What holds of any of the open scopes and of those around it.
LEMMA OneOfOpen ==
  ASSUME NEW want, NEW U, NEW r, Holds(want, U, r), NEW d \in DOMAIN open,
         NEW S, S = Scopes(Len(ir.blocks), statements)
  PROVE  /\ open \in Seq(S) /\ open[d] \in S /\ Fits(Around(d), open[d], want, U, r)
         /\ Len(Around(d)) = d - 1 /\ DOMAIN open = 1 .. Len(open) /\ Len(open) \in Nat
         /\ Around(d) \in Seq(S) /\ DOMAIN Around(d) = 1 .. d - 1 /\ d \in 1 .. Len(open)
         /\ \A e \in 1 .. d - 1 : Around(d)[e] = open[e]
<1>1. open \in Seq(S) /\ Well(open, want, U, r)
  BY DEF Holds, Kept
<1>2. DOMAIN open = 1 .. Len(open) /\ Len(open) \in Nat /\ open[d] \in S /\ d \in 1 .. Len(open)
  BY <1>1
<1>3. d - 1 \in 0 .. Len(open)
  BY <1>2
<1>4. /\ Around(d) \in Seq(S) /\ Len(Around(d)) = d - 1
      /\ \A e \in 1 .. d - 1 : Around(d)[e] = open[e]
  BY <1>1, <1>3, PrefixFacts DEF Around
<1>5. DOMAIN Around(d) = 1 .. d - 1
  BY <1>4, LenProperties
<1>6. Fits(Around(d), open[d], want, U, r)
  BY <1>1 DEF Well, Around
<1> QED  BY <1>1, <1>2, <1>4, <1>5, <1>6

\* Without the variables of the scopes from scope d on, inside of which there
\* is no loop, the generated code is in the state the body of d begins in.
LEMMA FreedIsBase ==
  ASSUME NEW want, NEW U, NEW r, Holds(want, U, r), NEW d \in DOMAIN open,
         \A e \in d + 1 .. Len(open) : ~IsLoop(open[e])
  PROVE  LET T == Base(Around(d), open[d]) IN
         /\ VariablesFrom(d) \subseteq Lexical(open).live
         /\ Lexical(open).live \ VariablesFrom(d) = T.live
         /\ Lexical(open).height = T.height
<1> DEFINE n == Len(open)
           p == Around(d)
           x == open[d]
           T == Base(p, x)
           V == VariablesFrom(d)
           L == Lexical(open)
<1>1. /\ DOMAIN open = 1 .. n /\ n \in Nat /\ d \in 1 .. n /\ DOMAIN p = 1 .. d - 1
      /\ \A e \in 1 .. d - 1 : p[e] = open[e]
  BY OneOfOpen
<1>2. V = UNION {open[e].variables : e \in d .. n}
  BY DEF VariablesFrom
<1>3. L.live = {Parameter} \cup UNION {open[e].variables \cup open[e].outer : e \in 1 .. n}
  BY <1>1 DEF Lexical
<1>4. T.live = {Parameter} \cup (UNION {open[e].variables \cup open[e].outer : e \in 1 .. d - 1})
                 \cup x.outer
  <2>1. Lexical(p).live = {Parameter} \cup UNION {p[e].variables \cup p[e].outer : e \in 1 .. d - 1}
    BY <1>1 DEF Lexical
  <2> HIDE DEF p, x, n
  <2>2. UNION {p[e].variables \cup p[e].outer : e \in 1 .. d - 1}
          = UNION {open[e].variables \cup open[e].outer : e \in 1 .. d - 1}
    BY <1>1
  <2> QED  BY <2>1, <2>2 DEF Base
<1>5. ASSUME NEW e \in d + 1 .. n PROVE open[e].outer = {}
  <2>1. e \in DOMAIN open
    BY <1>1
  <2>2. open[e].kind # "iterator"
    BY DEF IsLoop, LoopKinds
  <2>3. Fits(Around(e), open[e], want, U, r)
    BY <2>1, OneOfOpen
  <2> QED  BY <2>2, <2>3 DEF Fits
<1>6. /\ \A e \in 1 .. n : e \in 1 .. d - 1 \/ e = d \/ e \in d + 1 .. n
      /\ \A e \in d .. n : e \in 1 .. n /\ e \in Nat /\ (e = d \/ e \in d + 1 .. n)
      /\ \A e \in 1 .. d - 1 : e \in 1 .. n
      /\ \A e \in d + 1 .. n : e \in d .. n
      /\ d \in d .. n
  BY <1>1
<1>7. ASSUME NEW e \in d .. n PROVE open[e].variables \cap T.live = {}
  <2>1. e \in DOMAIN open
    BY <1>1, <1>6
  <2>2. /\ open[e].variables \cap Base(Around(e), open[e]).live = {}
        /\ DOMAIN Around(e) = 1 .. e - 1 /\ \A f \in 1 .. e - 1 : Around(e)[f] = open[f]
    <3>1. /\ Fits(Around(e), open[e], want, U, r)
          /\ DOMAIN Around(e) = 1 .. e - 1 /\ \A f \in 1 .. e - 1 : Around(e)[f] = open[f]
      BY <2>1, OneOfOpen
    <3> QED  BY <3>1 DEF Fits
  <2>3. CASE e = d
    BY <2>2, <2>3
  <2>4. CASE e \in d + 1 .. n
    <3> DEFINE q == Around(e)
    <3>1. Lexical(q).live = {Parameter} \cup UNION {q[f].variables \cup q[f].outer : f \in 1 .. e - 1}
      BY <2>2 DEF Lexical
    <3>2. d \in 1 .. e - 1 /\ \A f \in 1 .. d - 1 : f \in 1 .. e - 1
      BY <1>1, <2>4
    <3> HIDE DEF q, n, T, p, x
    <3>3. UNION {q[f].variables \cup q[f].outer : f \in 1 .. e - 1}
            = UNION {open[f].variables \cup open[f].outer : f \in 1 .. e - 1}
      BY <2>2 DEF q
    <3>4. T.live \subseteq Lexical(q).live
      <4>1. UNION {open[f].variables \cup open[f].outer : f \in 1 .. d - 1}
              \subseteq UNION {open[f].variables \cup open[f].outer : f \in 1 .. e - 1}
        BY <3>2
      <4>2. open[d].outer \subseteq UNION {open[f].variables \cup open[f].outer : f \in 1 .. e - 1}
        BY <3>2
      <4> QED  BY <1>4, <3>1, <3>3, <4>1, <4>2 DEF x
    <3>5. Lexical(q).live \subseteq Base(q, open[e]).live
      BY DEF Base
    <3> QED  BY <2>2, <3>4, <3>5 DEF q
  <2> QED  BY <1>6, <2>3, <2>4
<1>8. L.live = T.live \cup V /\ V \cap T.live = {}
  <2> HIDE DEF n, T, V, L
  <2>1. L.live \subseteq T.live \cup V
    <3> SUFFICES ASSUME NEW v, v \in L.live, v # Parameter PROVE v \in T.live \cup V
      BY <1>4
    <3>1. PICK e \in 1 .. n : v \in open[e].variables \cup open[e].outer
      BY <1>3
    <3>2. CASE e \in 1 .. d - 1
      BY <1>4, <3>1, <3>2
    <3>3. CASE e = d
      BY <1>2, <1>4, <1>6, <3>1, <3>3
    <3>4. CASE e \in d + 1 .. n
      BY <1>2, <1>5, <1>6, <3>1, <3>4
    <3> QED  BY <1>6, <3>2, <3>3, <3>4
  <2>2. T.live \cup V \subseteq L.live
    BY <1>1, <1>2, <1>3, <1>4, <1>6
  <2>3. V \cap T.live = {}
    BY <1>2, <1>7
  <2> QED  BY <2>1, <2>2, <2>3
<1>9. L.height = T.height
  <2> DEFINE I == {e \in DOMAIN p : p[e].kind = "iterator"}
             J == {e \in DOMAIN open : open[e].kind = "iterator"}
  <2>1. IsFiniteSet(I) /\ Cardinality(I) \in Nat /\ d \notin I
    <3>1. IsFiniteSet(1 .. d - 1)
      BY <1>1, FS_Interval
    <3>2. IsFiniteSet(I)
      BY <1>1, <3>1, FS_Subset
    <3>3. d \notin I
      BY <1>1
    <3> QED  BY <3>2, <3>3, FS_CardinalityType
  <2>2. J = I \cup (IF x.kind = "iterator" THEN {d} ELSE {})
    <3>1. \A e \in d + 1 .. n : open[e].kind # "iterator"
      BY DEF IsLoop, LoopKinds
    <3> HIDE DEF n, p
    <3> QED  BY <1>1, <1>6, <3>1
  <2>3. Cardinality(J) = Cardinality(I) + (IF x.kind = "iterator" THEN 1 ELSE 0)
    <3> HIDE DEF I, J
    <3>1. CASE x.kind = "iterator"
      <4>1. Cardinality(I \cup {d}) = Cardinality(I) + 1
        BY <2>1, FS_AddElement
      <4> QED  BY <2>2, <3>1, <4>1
    <3>2. CASE x.kind # "iterator"
      BY <2>1, <2>2, <3>2
    <3> QED  BY <3>1, <3>2
  <2>4. L.height = Cardinality(J) /\ T.height = Cardinality(I) + (IF x.kind = "iterator" THEN 1 ELSE 0)
    BY DEF Lexical, Base
  <2> QED  BY <2>3, <2>4
<1> HIDE DEF T, V, L
<1>10. V \subseteq L.live /\ L.live \ V = T.live
  BY <1>8
<1> QED  BY <1>9, <1>10 DEF T, V, L, p, x

\* The first and the last block of the innermost loop's last three are found
\* on top of the block stack.
LEMMA JumpTargets ==
  ASSUME NEW want, NEW U, NEW r, Holds(want, U, r), InLoop,
         NEW own, own = open[InnermostLoop].own, NEW n, n = Len(own)
  PROVE  /\ n \in Nat /\ n >= 3 /\ FromTop(1) = own[n] /\ FromTop(3) = own[n - 2]
         /\ own[n] \in Owned(open[InnermostLoop]) /\ own[n - 2] \in Owned(open[InnermostLoop])
<1> DEFINE S == Scopes(Len(ir.blocks), statements)
           M == 0 .. Len(ir.blocks)
           B == blockStack
           d == InnermostLoop
           x == open[d]
<1>1. open \in Seq(S) /\ B \in Seq(M) /\ OnStack(open, B)
  BY DEF Holds, Kept
<1>2. d \in DOMAIN open /\ IsLoop(x) /\ LoopsAfter(open, d) = 0
  BY <1>1, InnermostLoopFacts
<1> HIDE DEF d
<1>3. x \in S /\ Fits(Around(d), x, want, U, r)
  BY <1>2, OneOfOpen
<1>4. own = x.own /\ own \in Seq(M) /\ Shape(x)
  BY <1>3 DEF Scopes, Fits, d
<1>5. /\ n \in Nat /\ n >= 3 /\ DOMAIN own = 1 .. n /\ (x.kind = "infinite" => n = 3)
  <2>1. n \in Nat /\ DOMAIN own = 1 .. n
    BY <1>4
  <2>2. CASE x.kind = "iterator"
    <3>1. PICK m \in Nat : m # 0 /\ n = 3 * m
      BY <1>4, <2>2 DEF Shape
    <3> QED  BY <2>1, <2>2, <3>1
  <2>3. CASE x.kind # "iterator"
    <3>1. n = 3
      BY <1>2, <1>4, <2>3 DEF Shape, IsLoop, LoopKinds
    <3> QED  BY <2>1, <3>1
  <2> QED  BY <2>2, <2>3
<1>6. Under(B, 0, own)
  <2>1. 3 * 0 = 0
    OBVIOUS
  <2> QED  BY <1>1, <1>2, <1>4, <2>1 DEF OnStack
<1>7. ASSUME NEW k \in 1 .. n, k = n \/ k = n - 2 PROVE FromTop(n - k + 1) = own[k] /\ own[k] \in Owned(x)
  <2>1. k \in 1 .. n /\ (n = 3 => k # 2)
    <3>1. ASSUME n = 3 PROVE k # 2
      <4>1. k = 3 \/ k = 3 - 2
        BY <1>7, <3>1
      <4> QED  BY <4>1
    <3> QED  BY <3>1
  <2>2. Len(B) \in Nat /\ Len(B) - (n - k + 1) + 1 = Len(B) - 0 - n + k
    BY <1>1, <1>5, <2>1
  <2>3. B[Len(B) - 0 - n + k] = own[k]
    BY <1>6, <2>1 DEF Under
  <2>4. own[k] # nullptr
    BY <1>4, <1>5, <2>1 DEF Shape
  <2> QED  BY <1>4, <1>5, <2>1, <2>2, <2>3, <2>4 DEF FromTop, B, Owned
<1>8. n - n + 1 = 1 /\ n - (n - 2) + 1 = 3 /\ n \in 1 .. n /\ n - 2 \in 1 .. n
  BY <1>5
<1> QED  BY <1>5, <1>7, <1>8 DEF d

\* The jump itself: the variables are freed, two blocks are created, the code
\* goes to the first one and from there to the target, and the generator goes
\* on in the second one, which nothing leads to.
Jumped(want, U, r, target) ==
  /\ open # <<>> /\ ~hitReturnStat /\ InLoop /\ target \in Owned(open[InnermostLoop])
  /\ ir' = LET n == Len(ir.blocks)
               freed == Free(ir, VariablesFrom(InnermostLoop))
           IN  SetInsertPoint(CreateBr(SetInsertPoint(CreateBr(Create(Create(freed)), n + 1), n + 1),
                                       target), n + 2)

\* A jump frees the variables of the scopes it leaves, reaches its target in the state
\* expected there, and the code after it goes on in a block of its own.
LEMMA JumpEffect ==
  ASSUME NEW want, NEW U, NEW r, Holds(want, U, r), NEW target, Jumped(want, U, r, target)
  PROVE  \E want2 :
           /\ Emitted(ir', Detached(open), Begun(open), U, want2, 0, At(Len(open) <= r, Lexical(open)))
           /\ Len(ir'.blocks) \in Nat /\ Len(ir.blocks) <= Len(ir'.blocks)
           /\ Extended(want2, U, want, U, Len(ir.blocks))
<1>0. /\ open # <<>> /\ ~hitReturnStat /\ InLoop /\ Len(ir.blocks) \in Nat /\ Lexical(open) \in Paths
      /\ Held(open) \subseteq 1 .. Len(ir.blocks)
  BY InnerFacts DEF Jumped
<1>n. PICK n \in Nat : n = Len(ir.blocks)
  BY <1>0
<1>a. PICK n1 \in Nat : n1 = n + 1
  OBVIOUS
<1>b. PICK n2 \in Nat : n2 = n1 + 1 /\ n2 = n + 2
  BY <1>a
<1> DEFINE d == InnermostLoop
           D == Detached(open)
           H == Begun(open)
           L == Lexical(open)
           V == VariablesFrom(d)
           T == Base(Around(d), open[d])
           F == [live |-> L.live \ V, height |-> L.height]
           reached == Len(open) <= r
           Q == At(reached, F)
           R == At(reached, L)
           w1 == Expect(want, {n1}, Q)
           w2 == Expect(w1, {n2}, {})
           freed == Free(ir, V)
           i1 == Create(freed)
           i2 == Create(i1)
           i3 == CreateBr(i2, n1)
           i4 == SetInsertPoint(i3, n1)
           i5 == CreateBr(i4, target)
           i6 == SetInsertPoint(i5, n2)
<1>1. ir' = i6 /\ target \in Owned(open[d])
  BY <1>n, <1>a, <1>b DEF Jumped
<1>2. /\ open \in Seq(Scopes(n, statements)) /\ r \in Nat
  BY <1>n DEF Holds, Kept
<1>3. d \in DOMAIN open /\ IsLoop(open[d]) /\ \A e \in d + 1 .. Len(open) : ~IsLoop(open[e])
  BY <1>0, <1>2, InnermostLoopFacts
<1> HIDE DEF d
<1>4. V \subseteq L.live /\ F = T /\ F \in Paths
  <2>1. /\ V \subseteq L.live /\ L.live \ V = T.live /\ L.height = T.height
    BY <1>3, FreedIsBase
  <2>2. T = [live |-> T.live, height |-> T.height]
    BY DEF Base
  <2>3. F.live \in SUBSET ((0 .. MaxStatements) \X Nat) /\ L.height \in Nat
    BY <1>0 DEF Paths
  <2>4. F = [live |-> T.live, height |-> T.height]
    BY <2>1
  <2>5. F \in Paths
    BY <2>3 DEF Paths
  <2> HIDE DEF F, T, L, V
  <2> QED  BY <2>1, <2>2, <2>4, <2>5
<1>5. Emitted(ir, D, H, U, want, 0, R)
  BY <1>0, HereEmitted
<1>6. /\ target \in 1 .. n /\ target \notin U /\ Q \subseteq want[target]
  <2>1. /\ Fits(Around(d), open[d], want, U, r) /\ Len(Around(d)) = d - 1
        /\ Len(open) \in Nat /\ d \in 1 .. Len(open)
    BY <1>3, OneOfOpen
  <2>2. want[target] = At(Len(Around(d)) < r, T) /\ target \notin U
    BY <1>1, <1>3, <2>1 DEF Fits
  <2>3. reached => Len(Around(d)) < r
    BY <1>2, <2>1
  <2>4. target \in Held(open)
    BY <1>1, <1>3 DEF Held
  <2>5. target \in 1 .. n
    BY <1>0, <1>n, <2>4
  <2>6. Q \subseteq want[target]
    BY <1>4, <2>2, <2>3 DEF At
  <2> QED  BY <2>2, <2>5, <2>6
<1> HIDE DEF F, L, T, V, R
<1>7. Emitted(freed, D, H, U, want, 0, Q) /\ freed.blocks = ir.blocks
  <2>1. L \in Paths /\ Emitted(ir, D, H, U, want, 0, At(reached, L)) /\ V \subseteq L.live
        /\ F = [live |-> L.live \ V, height |-> L.height]
    BY <1>0, <1>4, <1>5 DEF R, L, F
  <2> HIDE DEF reached
  <2> QED  BY ONLY <2>1, FreeEffect
<1> HIDE DEF D, H, freed, Q
<1>8. /\ w1 \in Expectations /\ w2 \in Expectations
      /\ \A b \in Nat : w2[b] = IF b = n2 THEN {} ELSE IF b = n1 THEN Q ELSE want[b]
  <2>1. Q \in SUBSET Paths /\ \A q1, q2 \in Q : q1 = q2
    BY <1>4, AtMostOne DEF Q
  <2>2. want \in Expectations
    BY <1>5, EmittedType
  <2>3. w1 \in Expectations /\ \A b \in Nat : w1[b] = IF b \in {n1} THEN Q ELSE want[b]
    BY <2>1, <2>2, ExpectMore
  <2> HIDE DEF w1
  <2>4. {} \in SUBSET Paths /\ \A q1, q2 \in {} : q1 = q2
    OBVIOUS
  <2>5. w2 \in Expectations /\ \A b \in Nat : w2[b] = IF b \in {n2} THEN {} ELSE w1[b]
    BY <2>3, <2>4, ExpectMore
  <2> HIDE DEF w2
  <2> QED  BY <2>3, <2>5
<1> HIDE DEF w1, w2
<1>9. /\ \A b \in 1 .. n : b \in Nat /\ b # n1 /\ b # n2 /\ b \in 1 .. n2 /\ b \in 1 .. n1
      /\ n1 # n2 /\ n1 \in 1 .. n2 /\ n2 \in 1 .. n2 /\ n1 \notin 1 .. n /\ n2 \notin 1 .. n
      /\ n <= n2
  BY <1>a, <1>b
<1>10. /\ U \subseteq 1 .. n /\ D \subseteq 1 .. n /\ H \subseteq 1 .. n /\ DOMAIN freed.blocks = 1 .. n
  BY <1>n, <1>7 DEF Emitted, Arranged, Function
<1>11. \A b \in 1 .. n : w2[b] = want[b]
  BY <1>8, <1>9
<1>12. Emitted(freed, D, H, U, w2, 0, Q)
  <2>1. freed.paths \subseteq Q
    BY <1>7 DEF Emitted
  <2> QED  BY <1>7, <1>8, <1>10, <1>11, <2>1, Review
<1>13. Emitted(i1, D, H \cup {n1}, U, w2, 0, Q) /\ Len(i1.blocks) = n1
  <2>1. Len(freed.blocks) = n
    BY <1>n, <1>7
  <2>2. /\ Emitted(Create(freed), D, H \cup {Len(freed.blocks) + 1}, U, w2, 0, Q)
        /\ Len(Create(freed).blocks) = Len(freed.blocks) + 1
    BY ONLY <1>12, CreateEffect
  <2> QED  BY <1>a, <2>1, <2>2
<1> HIDE DEF i1
<1>14. Emitted(i2, D, (H \cup {n1}) \cup {n2}, U, w2, 0, Q) /\ Len(i2.blocks) = n2
  <2>1. /\ Emitted(Create(i1), D, (H \cup {n1}) \cup {Len(i1.blocks) + 1}, U, w2, 0, Q)
        /\ Len(Create(i1).blocks) = Len(i1.blocks) + 1
    BY ONLY <1>13, CreateEffect
  <2> QED  BY <1>b, <1>13, <2>1
<1> HIDE DEF i2
<1>15. Emitted(i3, D, (H \cup {n1}) \cup {n2}, U, w2, 1, {}) /\ Len(i3.blocks) = n2
  <2>1. n1 \in DOMAIN i2.blocks \ U /\ Q \subseteq w2[n1]
    <3>1. DOMAIN i2.blocks = 1 .. n2
      BY <1>14, EmittedType
    <3>2. n1 \notin U
      BY <1>9, <1>10
    <3> QED  BY <1>8, <1>9, <3>1, <3>2
  <2>2. /\ Emitted(CreateBr(i2, n1), D, (H \cup {n1}) \cup {n2}, U, w2, 1, {})
        /\ Len(CreateBr(i2, n1).blocks) = Len(i2.blocks)
    BY ONLY <1>14, <2>1, CreateBrEffect
  <2> QED  BY <1>14, <2>2
<1> HIDE DEF i3
<1>16. Emitted(i4, D, H \cup {n2}, U, w2, 0, Q) /\ Len(i4.blocks) = n2
  <2> DEFINE H1 == (H \cup {n1}) \cup {n2}
  <2>1. n1 \in H1 /\ w2[n1] \subseteq Q /\ H1 \ {n1} = H \cup {n2}
    BY <1>8, <1>9, <1>10
  <2>2. Emitted(i3, D, H1, U, w2, 1, {})
    BY <1>15
  <2> HIDE DEF H1
  <2>3. n1 \in H1 /\ w2[n1] \subseteq Q
    BY <2>1
  <2>4. /\ Emitted(SetInsertPoint(i3, n1), D, H1 \ {n1}, U, w2, 0, Q)
        /\ Len(SetInsertPoint(i3, n1).blocks) = Len(i3.blocks)
    BY ONLY <2>2, <2>3, SetInsertPointEffect
  <2> QED  BY <1>15, <2>1, <2>4
<1> HIDE DEF i4
<1>17. Emitted(i5, D, H \cup {n2}, U, w2, 1, {}) /\ Len(i5.blocks) = n2
  <2>1. target \in DOMAIN i4.blocks \ U /\ Q \subseteq w2[target]
    <3>1. DOMAIN i4.blocks = 1 .. n2
      BY <1>16, EmittedType
    <3> QED  BY <1>6, <1>9, <1>11, <3>1
  <2>2. /\ Emitted(CreateBr(i4, target), D, H \cup {n2}, U, w2, 1, {})
        /\ Len(CreateBr(i4, target).blocks) = Len(i4.blocks)
    BY ONLY <1>16, <2>1, CreateBrEffect
  <2> QED  BY <1>16, <2>2
<1> HIDE DEF i5
<1>18. Emitted(i6, D, H, U, w2, 0, R) /\ Len(i6.blocks) = n2
  <2> DEFINE H1 == H \cup {n2}
  <2>1. n2 \in H1 /\ w2[n2] \subseteq R /\ H1 \ {n2} = H
    BY <1>8, <1>9, <1>10
  <2>2. Emitted(i5, D, H1, U, w2, 1, {})
    BY <1>17
  <2> HIDE DEF H1
  <2>3. n2 \in H1 /\ w2[n2] \subseteq R
    BY <2>1
  <2>4. /\ Emitted(SetInsertPoint(i5, n2), D, H1 \ {n2}, U, w2, 0, R)
        /\ Len(SetInsertPoint(i5, n2).blocks) = Len(i5.blocks)
    BY ONLY <2>2, <2>3, SetInsertPointEffect
  <2> QED  BY <1>17, <2>1, <2>4
<1>19. Extended(w2, U, want, U, n)
  BY <1>11 DEF Extended
<1> HIDE DEF i6
<1> QED  BY <1>1, <1>9, <1>18, <1>19, <1>n DEF D, H, R, L, reached

\* A jump keeps the invariant if it goes to a block of the innermost loop, the
\* one that its statement means.
LEMMA JumpStep ==
  ASSUME NEW want, NEW U, NEW r, Holds(want, U, r), NEW statement, NEW target,
         JumpTo(statement, target), target \in Owned(open[InnermostLoop]),
         statement \in {"none", "break", "continue"}, JumpsStayInTheirLoop'
  PROVE  IInv'
<1> DEFINE N == Len(ir.blocks)
           N2 == Len(ir'.blocks)
           S == Scopes(N, statements)
           S2 == Scopes(N2, statements')
<1>1. /\ open # <<>> /\ ~Inner.containReturn /\ InLoop /\ statements < MaxStatements
      /\ statements' = statements + 1 /\ jump' = [statement |-> statement, target |-> target]
      /\ open' = open /\ blockStack' = blockStack /\ hitReturnStat' = hitReturnStat
  BY DEF JumpTo, Statement, branch
<1>2. /\ ~hitReturnStat /\ open \in Seq(S) /\ N \in Nat /\ statements \in 0 .. MaxStatements
      /\ MaxStatements \in Nat /\ Held(open) \subseteq 1 .. N /\ r \in Nat
      /\ Well(open, want, U, r)
  BY <1>1, InnerFacts, BoundsAssumption DEF Holds, Kept
<1>3. Jumped(want, U, r, target)
  BY <1>1, <1>2 DEF Jumped, JumpTo
<1>4. PICK want2 :
        /\ Emitted(ir', Detached(open), Begun(open), U, want2, 0, At(Len(open) <= r, Lexical(open)))
        /\ N2 \in Nat /\ N <= N2 /\ Extended(want2, U, want, U, N)
  BY <1>3, JumpEffect
<1>5. statements' \in 0 .. MaxStatements /\ statements \in Nat /\ statements' \in Nat
      /\ statements <= statements'
  BY <1>1, <1>2
<1>6. S \subseteq S2 /\ Seq(S) \subseteq Seq(S2) /\ 0 .. N \subseteq 0 .. N2
  <2> HIDE DEF N, N2
  <2>1. 0 .. N \subseteq 0 .. N2
    BY <1>2, <1>4
  <2> QED  BY <2>1, <1>2, <1>4, <1>5, ScopesGrow
<1>7. Well(open, want2, U, r)
  <2>1. \A b \in 1 .. N : want2[b] = want[b] /\ (b \in U => b \in U)
    BY <1>4 DEF Extended
  <2>2. \A e \in 1 .. Len(open) : e <= r <=> e <= r
    OBVIOUS
  <2>3. open \in Seq(Scopes(N, statements)) /\ statements \in Nat /\ N \in Nat /\ r \in Nat
    BY <1>2, <1>5
  <2> HIDE DEF N
  <2> QED  BY ONLY <1>2, <2>1, <2>2, <2>3, WellGrows
<1>8. target \in 0 .. N2
  <2>1. InnermostLoop \in DOMAIN open
    BY <1>1, <1>2, InnermostLoopFacts
  <2>2. target \in 1 .. N
    BY <1>2, <2>1 DEF Held
  <2>3. 1 .. N \subseteq 0 .. N
    OBVIOUS
  <2> HIDE DEF N, N2
  <2> QED  BY <1>6, <2>2, <2>3
<1>9. Kept'
  <2>1. hitReturnStat' \in BOOLEAN /\ blockStack' \in Seq(0 .. N2)
    <3>1. blockStack \in Seq(0 .. N) /\ hitReturnStat \in BOOLEAN
      BY DEF Holds, Kept
    <3> HIDE DEF N, N2
    <3> QED  BY <1>1, <1>6, <3>1, SeqMonotonic
  <2>2. jump' \in [statement : {"none", "break", "continue"}, target : 0 .. N2]
    BY <1>1, <1>8
  <2>3. open' \in Seq(S2) /\ OnStack(open', blockStack')
        /\ \A d \in DOMAIN open' : open'[d].containReturn <=> d = Len(open') /\ hitReturnStat'
    BY <1>1, <1>2, <1>6 DEF Holds, Kept
  <2> QED  BY <1>5, <2>1, <2>2, <2>3 DEF Kept
<1>10. SoFar(ir', open', hitReturnStat', want2, U, r)
  BY <1>1, <1>2, <1>4 DEF SoFar
<1>11. Well(open', want2, U, r)
  BY <1>1, <1>7
<1> QED  BY <1>2, <1>9, <1>10, <1>11, HoldsNext

\* A break keeps the invariant.
LEMMA BreakHolds ==
  ASSUME IInv, Break
  PROVE  IInv'
<1> PICK want, U, r : Holds(want, U, r)
  BY DEF IInv
<1> DEFINE own == open[InnermostLoop].own
           target == FromTop(1)
<1>1. InLoop /\ JumpTo("break", target)
  BY DEF Break
<1>2. target = own[Len(own)] /\ target \in Owned(open[InnermostLoop])
  BY <1>1, JumpTargets
<1>3. jump' = [statement |-> "break", target |-> target] /\ open' = open
  BY <1>1 DEF JumpTo
<1>4. InnermostLoop' = InnermostLoop
  BY <1>3 DEF InnermostLoop
<1>5. JumpsStayInTheirLoop'
  <2>1. target = Last(own)
    BY <1>2 DEF Last
  <2> HIDE DEF target
  <2>2. open'[InnermostLoop'].own = own /\ jump'.statement = "break" /\ jump'.target = target
    BY <1>3, <1>4
  <2> QED  BY <2>1, <2>2 DEF JumpsStayInTheirLoop
<1> HIDE DEF target
<1> QED  BY <1>1, <1>2, <1>5, JumpStep

\* A continue keeps the invariant.
LEMMA ContinueHolds ==
  ASSUME IInv, Continue
  PROVE  IInv'
<1> PICK want, U, r : Holds(want, U, r)
  BY DEF IInv
<1> DEFINE own == open[InnermostLoop].own
           target == FromTop(3)
<1>1. InLoop /\ JumpTo("continue", target)
  BY DEF Continue
<1>2. target = own[Len(own) - 2] /\ target \in Owned(open[InnermostLoop])
  BY <1>1, JumpTargets
<1>3. jump' = [statement |-> "continue", target |-> target] /\ open' = open
  BY <1>1 DEF JumpTo
<1>4. InnermostLoop' = InnermostLoop
  BY <1>3 DEF InnermostLoop
<1>5. JumpsStayInTheirLoop'
  <2> HIDE DEF target
  <2>1. open'[InnermostLoop'].own = own /\ jump'.statement = "continue" /\ jump'.target = target
    BY <1>3, <1>4
  <2> QED  BY <1>2, <2>1 DEF JumpsStayInTheirLoop
<1> HIDE DEF target
<1> QED  BY <1>1, <1>2, <1>5, JumpStep

(***************************************************************************)
(* Every step keeps the invariant.                                         *)
(***************************************************************************)
LEMMA StepHolds ==
  ASSUME NestedDomains = FALSE, IInv, [Next]_vars
  PROVE  IInv'
<1>1. CASE UNCHANGED vars
  <2>1. /\ ir' = ir /\ blockStack' = blockStack /\ hitReturnStat' = hitReturnStat
        /\ open' = open /\ jump' = jump /\ statements' = statements
    BY <1>1 DEF vars, branch
  <2>2. PICK want, U, r : Holds(want, U, r)
    BY DEF IInv
  <2>3. InnermostLoop' = InnermostLoop
    BY <2>1 DEF InnermostLoop
  <2>4. JumpsStayInTheirLoop' = JumpsStayInTheirLoop
    BY <2>1, <2>3 DEF JumpsStayInTheirLoop
  <2>5. Kept'
    BY <2>1, <2>2, <2>4 DEF Holds, Kept
  <2> QED  BY <2>1, <2>2, <2>5, HoldsNext DEF Holds
<1>2. CASE Declare
  BY <1>2, DeclareHolds
<1>3. CASE EnterBlock
  BY <1>3, EnterBlockHolds
<1>4. CASE LeaveBlock
  BY <1>4, LeaveBlockHolds
<1>5. CASE LeaveSubroutine
  BY <1>5, LeaveSubroutineHolds
<1>6. CASE \E elseIfs \in ElseIfs, hasElse \in BOOLEAN : EnterConditional(elseIfs, hasElse)
  BY <1>6, EnterConditionalHolds
<1>7. CASE ElseIf
  BY <1>7, ElseIfHolds
<1>8. CASE Else
  BY <1>8, ElseHolds
<1>9. CASE LeaveConditional
  BY <1>9, LeaveConditionalHolds
<1>10. CASE EnterInfiniteLoop
  BY <1>10, EnterInfiniteLoopHolds
<1>11. CASE LeaveInfiniteLoop
  BY <1>11, LeaveInfiniteLoopHolds
<1>12. CASE EnterPrePredicatedLoop
  BY <1>12, EnterPrePredicatedLoopHolds
<1>13. CASE LeavePrePredicatedLoop
  BY <1>13, LeavePrePredicatedLoopHolds
<1>14. CASE EnterPostPredicatedLoop
  BY <1>14, EnterPostPredicatedLoopHolds
<1>15. CASE LeavePostPredicatedLoop
  BY <1>15, LeavePostPredicatedLoopHolds
<1>16. CASE \E domains \in Domains : EnterIteratorLoop(domains)
  BY <1>16, EnterIteratorLoopHolds
<1>17. CASE LeaveIteratorLoop
  BY <1>17, LeaveIteratorLoopHolds
<1>18. CASE Break
  BY <1>18, BreakHolds
<1>19. CASE Continue
  BY <1>19, ContinueHolds
<1>20. CASE Return
  BY <1>20, ReturnHolds
<1> QED  BY <1>1, <1>2, <1>3, <1>4, <1>5, <1>6, <1>7, <1>8, <1>9, <1>10, <1>11, <1>12, <1>13,
            <1>14, <1>15, <1>16, <1>17, <1>18, <1>19, <1>20 DEF Next

\* The invariant implies the properties.
LEMMA InvariantImplies ==
  ASSUME IInv
  PROVE  /\ TypeOK /\ JumpsStayInTheirLoop /\ LiveIsLexical /\ PathsAgree
         /\ EmittedCodeIsSound /\ FunctionIsWellFormed
<1> PICK want, U, r : Holds(want, U, r)
  BY DEF IInv
<1>1. JumpsStayInTheirLoop
  BY DEF Holds, Kept
<1> QED  BY <1>1, ImpliesType, ImpliesLive, ImpliesAgreement, ImpliesSound

(***************************************************************************)
(* The invariant holds in every state of a program in which the loops with *)
(* several domains are not inside of loops.                                *)
(***************************************************************************)
THEOREM InvariantHolds ==
  ASSUME NestedDomains = FALSE
  PROVE  Spec => []IInv
<1>1. Init => IInv
  BY InitHolds
<1>2. IInv /\ [Next]_vars => IInv'
  BY StepHolds
<1> QED  BY <1>1, <1>2, PTL DEF Spec

\* The generator's state and the function's blocks stay what their types say.
THEOREM TypesHold ==
  ASSUME NestedDomains = FALSE
  PROVE  Spec => []TypeOK
<1>1. IInv => TypeOK
  BY InvariantImplies
<1> QED  BY <1>1, InvariantHolds, PTL

\* A break goes to the merge block of the loop that it is written in, and a
\* continue, in a loop of any kind, to the first of the blocks that loop pushed for
\* its innermost domain (in a loop with its test at the end that is the body, and
\* the test is skipped), whatever blocks the entries and exits of other constructs
\* have put on the block stack and taken off it.
THEOREM JumpsStay ==
  ASSUME NestedDomains = FALSE
  PROVE  Spec => []JumpsStayInTheirLoop
<1>1. IInv => JumpsStayInTheirLoop
  BY InvariantImplies
<1> QED  BY <1>1, InvariantHolds, PTL

\* On every path to the point of insertion the variables that live are those of
\* the scopes that are open there, and the runtime stack holds the items of the
\* iterator loops that are open.
THEOREM LiveObjectsAreLexical ==
  ASSUME NestedDomains = FALSE
  PROVE  Spec => []LiveIsLexical
<1>1. IInv => LiveIsLexical
  BY InvariantImplies
<1> QED  BY <1>1, InvariantHolds, PTL

\* All ways into a block bring the same live variables and the same height of
\* the runtime stack, whichever branch, jump or loop edge they come by.
THEOREM PathsMeetAlike ==
  ASSUME NestedDomains = FALSE
  PROVE  Spec => []PathsAgree
<1>1. IInv => PathsAgree
  BY InvariantImplies
<1> QED  BY <1>1, InvariantHolds, PTL

\* Along every path the emitted code frees no variable twice, leaves none behind
\* at a return and has no restore that the runtime stack refuses, and the
\* generator puts no instruction after a terminator nor uses a block that is null.
THEOREM CodeIsSound ==
  ASSUME NestedDomains = FALSE
  PROVE  Spec => []EmittedCodeIsSound
<1>1. IInv => EmittedCodeIsSound
  BY InvariantImplies
<1> QED  BY <1>1, InvariantHolds, PTL

\* In a function that has been generated to its end, every block that is placed
\* or branched to is placed once and has one terminator.
THEOREM FunctionsAreWellFormed ==
  ASSUME NestedDomains = FALSE
  PROVE  Spec => []FunctionIsWellFormed
<1>1. IInv => FunctionIsWellFormed
  BY InvariantImplies
<1> QED  BY <1>1, InvariantHolds, PTL
=============================================================================
