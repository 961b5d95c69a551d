------------------------- MODULE RuntimeStackProofs -------------------------
(***************************************************************************)
(* Safety of the runtime stack, and that it gives every object the         *)
(* lifetime of its scope, for every set of addresses, both forms of main's *)
(* body and scopes nested to any depth.                                    *)
(***************************************************************************)
EXTENDS RuntimeStack, WellFoundedInduction, SequenceTheorems, TLAPS

(***************************************************************************)
(* The inductive invariant.  A scope's slots end where those of the scope  *)
(* in it begin; a subroutine itself allocates nothing, which is why one    *)
(* that ends without restoring leaves nothing behind; main is outermost,   *)
(* begins at slot 0, and holds no loop if its body is an expression.       *)
(***************************************************************************)
SubroutinesOwnNothing ==
  \A d \in DOMAIN frames : frames[d].kind = "subroutine" => Top(d) = frames[d].position

MainIsOutermost ==
  /\ frames = <<>> => m_idx = 0
  /\ frames # <<>> => frames[1].kind = "subroutine" /\ frames[1].position = 0
  /\ mainBody = "expression" /\ Len(frames) > 1 => frames[2].kind = "subroutine"

FreedIsEmpty ==
  /\ pc \in {"running", "ending"} <=> ~freed
  /\ pc = "ending" => frames = <<>>
  /\ pc = "restore after free" => Len(frames) = 1
  /\ freed => m_idx = 0

\* The array and its counters are what the C declarations say.
StackType ==
  /\ m_size \in Nat \ {0} /\ m_idx \in 0 .. m_size
  /\ m_stack \in [0 .. m_size - 1 -> Items \cup {NoItem}]
  /\ live \subseteq Items

ScopesInvariant ==
  /\ frames \in Seq(Frame)
  /\ SavedPositionsAreValid
  /\ SubroutinesOwnNothing
  /\ MainIsOutermost

ControlInvariant ==
  /\ freed \in BOOLEAN
  /\ mainBody \in MainBodies
  /\ pc \in {"running", "ending", "ended", "restore after free", "used after free"}
  /\ FreedIsEmpty

IInv == StackType /\ StackHoldsWhatLives /\ ScopesInvariant /\ ControlInvariant

(***************************************************************************)
(* RuntimeStack.c.                                                         *)
(***************************************************************************)
\* runtimeStackPush puts the item on top and moves none of the others, whether
\* or not the array had to grow.
LEMMA PushEffect ==
  ASSUME StackType, NEW item \in Items, runtimeStackPush(item)
  PROVE  /\ m_size' \in Nat \ {0} /\ m_idx' = m_idx + 1 /\ m_idx' \in 0 .. m_size'
         /\ m_stack' \in [0 .. m_size' - 1 -> Items \cup {NoItem}]
         /\ \A i \in 0 .. m_idx - 1 : m_stack'[i] = m_stack[i]
         /\ m_stack'[m_idx] = item
<1>1. CASE m_idx >= m_size
  <2> DEFINE grown == Resized(m_size * 2)
  <2>1. /\ grown \in [0 .. m_size * 2 - 1 -> Items \cup {NoItem}]
        /\ \A i \in 0 .. m_idx - 1 : grown[i] = m_stack[i]
    BY <1>1 DEF StackType, Resized
  <2>2. m_size' = m_size * 2 /\ m_idx' = m_idx + 1 /\ m_stack' = [grown EXCEPT ![m_idx] = item]
    BY <1>1 DEF runtimeStackPush
  <2>3. m_idx \in 0 .. m_size * 2 - 1 /\ m_idx + 1 \in 0 .. m_size * 2
    BY DEF StackType
  <2> HIDE DEF grown
  <2> QED  BY <2>1, <2>2, <2>3 DEF StackType
<1>2. CASE m_idx < m_size
  <2>1. ~(m_idx >= m_size)
    BY <1>2 DEF StackType
  <2>2. m_size' = m_size /\ m_idx' = m_idx + 1 /\ m_stack' = [m_stack EXCEPT ![m_idx] = item]
    BY <2>1, Zenon DEF runtimeStackPush
  <2> QED  BY <1>2, <2>2 DEF StackType
<1> QED  BY <1>1, <1>2 DEF StackType

\* Pushing a new object keeps the slots in use and the live objects in step.
LEMMA PushHolds ==
  ASSUME StackType, StackHoldsWhatLives,
         NEW item \in Items, item \notin live,
         runtimeStackPush(item), live' = live \cup {item}
  PROVE  StackType' /\ StackHoldsWhatLives'
<1>1. /\ m_size' \in Nat \ {0} /\ m_idx' = m_idx + 1 /\ m_idx' \in 0 .. m_size'
      /\ m_stack' \in [0 .. m_size' - 1 -> Items \cup {NoItem}]
      /\ \A i \in 0 .. m_idx - 1 : m_stack'[i] = m_stack[i]
      /\ m_stack'[m_idx] = item
  BY PushEffect
<1>2. 0 .. m_idx' - 1 = (0 .. m_idx - 1) \cup {m_idx}
  BY <1>1 DEF StackType
<1>3. live' = {m_stack'[i] : i \in 0 .. m_idx' - 1}
  BY <1>1, <1>2 DEF StackHoldsWhatLives
<1>4. \A i \in 0 .. m_idx - 1 : m_stack'[i] # item
  BY <1>1 DEF StackHoldsWhatLives
<1>5. ASSUME NEW i \in 0 .. m_idx' - 1, NEW j \in 0 .. m_idx' - 1, m_stack'[i] = m_stack'[j]
      PROVE  i = j
  BY <1>1, <1>2, <1>4, <1>5 DEF StackHoldsWhatLives
<1> QED  BY <1>1, <1>3, <1>5 DEF StackType, StackHoldsWhatLives

\* runtimeStackRestore destroys exactly the objects from the position up.
LEMMA RestoreHolds ==
  ASSUME StackType, StackHoldsWhatLives,
         NEW position \in 0 .. m_idx, runtimeStackRestore(position)
  PROVE  StackType' /\ StackHoldsWhatLives'
<1>1. m_idx' = position /\ m_stack' = m_stack /\ m_size' = m_size
  BY DEF runtimeStackRestore
<1>2. live' = live \ {m_stack[i] : i \in position .. m_idx - 1}
  BY DEF runtimeStackRestore
<1>3. 0 .. m_idx - 1 = (0 .. position - 1) \cup (position .. m_idx - 1)
  BY DEF StackType
<1>4. \A i \in 0 .. position - 1, j \in position .. m_idx - 1 : m_stack[i] # m_stack[j]
  BY <1>3 DEF StackHoldsWhatLives, StackType
<1>5. live' = {m_stack[i] : i \in 0 .. position - 1}
  BY <1>2, <1>3, <1>4 DEF StackHoldsWhatLives
<1> QED  BY <1>1, <1>3, <1>5 DEF StackType, StackHoldsWhatLives

(***************************************************************************)
(* The open scopes.                                                        *)
(***************************************************************************)
\* The scopes outside scope d.
LEMMA ScopesOutside ==
  ASSUME frames \in Seq(Frame), NEW d \in DOMAIN frames
  PROVE  /\ SubSeq(frames, 1, d - 1) \in Seq(Frame)
         /\ DOMAIN SubSeq(frames, 1, d - 1) = 1 .. d - 1
         /\ Len(SubSeq(frames, 1, d - 1)) = d - 1
         /\ \A e \in 1 .. d - 1 : SubSeq(frames, 1, d - 1)[e] = frames[e]
  OBVIOUS

\* A saved position is a number of slots.
LEMMA PositionsAreNatural ==
  ASSUME frames \in Seq(Frame), NEW d \in DOMAIN frames
  PROVE  frames[d].position \in Nat
<1>1. frames[d] \in Frame
  OBVIOUS
<1> QED  BY <1>1 DEF Frame

\* A new scope begins where the slots in use end.
LEMMA EnterScope ==
  ASSUME StackType, ScopesInvariant, NEW kind \in {"subroutine", "loop"}, Enter(kind)
  PROVE  ScopesInvariant'
<1> DEFINE new == [kind |-> kind, position |-> m_idx]
<1>1. /\ frames' = Append(frames, new) /\ m_idx' = m_idx /\ mainBody' = mainBody
      /\ kind = "loop" => frames # <<>> /\ (mainBody = "expression" => Len(frames) > 1)
  BY DEF Enter, stack
<1>2. new \in Frame /\ new.kind = kind /\ new.position = m_idx
  BY DEF Frame, StackType
<1> HIDE DEF new
<1>3. /\ frames' \in Seq(Frame) /\ Len(frames') = Len(frames) + 1
      /\ DOMAIN frames = 1 .. Len(frames) /\ DOMAIN frames' = 1 .. Len(frames) + 1
      /\ \A d \in 1 .. Len(frames) : frames'[d] = frames[d]
      /\ frames'[Len(frames) + 1] = new
      /\ Len(frames) \in Nat
  BY <1>1, <1>2 DEF ScopesInvariant
<1>4. \A d \in DOMAIN frames : frames[d].position \in Nat
  BY PositionsAreNatural DEF ScopesInvariant
<1>5. SavedPositionsAreValid'
  BY <1>1, <1>2, <1>3, <1>4 DEF ScopesInvariant, SavedPositionsAreValid, StackType
<1>6. SubroutinesOwnNothing'
  BY <1>1, <1>2, <1>3 DEF ScopesInvariant, SubroutinesOwnNothing, Top
<1>7. MainIsOutermost'
  <2>1. frames = <<>> => Len(frames) = 0 /\ m_idx = 0
    BY DEF ScopesInvariant, MainIsOutermost
  <2>2. frames # <<>> => Len(frames) >= 1
    BY <1>3 DEF ScopesInvariant
  <2>3. frames' # <<>> /\ frames'[1].kind = "subroutine" /\ frames'[1].position = 0
    BY <1>1, <1>2, <1>3, <2>1, <2>2 DEF ScopesInvariant, MainIsOutermost
  <2>4. ASSUME mainBody' = "expression", Len(frames') > 1
        PROVE  frames'[2].kind = "subroutine"
    BY <1>1, <1>2, <1>3, <2>4 DEF ScopesInvariant, MainIsOutermost
  <2> QED  BY <2>3, <2>4 DEF MainIsOutermost
<1> QED  BY <1>3, <1>5, <1>6, <1>7 DEF ScopesInvariant

\* Leaving scope d with those in it and restoring its position, which is where
\* the slots of the scope around it end.
LEMMA LeaveScopes ==
  ASSUME StackType, ScopesInvariant, NEW d \in DOMAIN frames,
         m_idx' = frames[d].position, frames' = SubSeq(frames, 1, d - 1),
         mainBody' = mainBody
  PROVE  ScopesInvariant'
<1>1. /\ frames' \in Seq(Frame) /\ Len(frames') = d - 1
      /\ DOMAIN frames' = 1 .. d - 1 /\ DOMAIN frames = 1 .. Len(frames)
      /\ \A e \in 1 .. d - 1 : frames'[e] = frames[e]
      /\ d \in 1 .. Len(frames) /\ Len(frames) \in Nat
  BY ScopesOutside DEF ScopesInvariant
<1>2. \A e \in DOMAIN frames : frames[e].position \in Nat
  BY PositionsAreNatural DEF ScopesInvariant
<1>3. SavedPositionsAreValid'
  BY <1>1, <1>2 DEF ScopesInvariant, SavedPositionsAreValid, StackType
<1>4. SubroutinesOwnNothing'
  BY <1>1 DEF ScopesInvariant, SubroutinesOwnNothing, Top
<1>5. MainIsOutermost'
  <2>1. frames' = <<>> => d = 1
    BY <1>1
  <2>2. frames # <<>>
    BY <1>1
  <2>3. frames' # <<>> => d - 1 >= 1
    BY <1>1
  <2> QED  BY <1>1, <2>1, <2>2, <2>3 DEF ScopesInvariant, MainIsOutermost
<1> QED  BY <1>1, <1>3, <1>4, <1>5 DEF ScopesInvariant

(***************************************************************************)
(* The invariant, action by action.                                        *)
(***************************************************************************)
\* An empty stack and no scope.
LEMMA InitInvariant == Init => IInv
<1> SUFFICES ASSUME Init PROVE IInv
  OBVIOUS
<1> USE DEF Init
<1>1. StackType /\ StackHoldsWhatLives
  BY DEF StackType, StackHoldsWhatLives
<1>2. ScopesInvariant
  BY DEF ScopesInvariant, SavedPositionsAreValid, SubroutinesOwnNothing, MainIsOutermost
<1>3. ControlInvariant
  BY DEF ControlInvariant, FreedIsEmpty
<1> QED  BY <1>1, <1>2, <1>3 DEF IInv

\* A scope is entered: the stack is left alone.
LEMMA EnterStep ==
  ASSUME IInv, NEW kind \in {"subroutine", "loop"}, Enter(kind)
  PROVE  IInv'
<1>1. StackType' /\ StackHoldsWhatLives'
  BY DEF IInv, Enter, stack, StackType, StackHoldsWhatLives
<1>2. ScopesInvariant'
  BY EnterScope DEF IInv
<1>3. ControlInvariant'
  BY DEF IInv, ControlInvariant, FreedIsEmpty, Enter, stack
<1> QED  BY <1>1, <1>2, <1>3 DEF IInv

\* An object is allocated in the innermost scope, a loop: the scopes around it
\* keep their slots.
LEMMA StackAllocateStep ==
  ASSUME IInv, NEW item \in Items, StackAllocate(item)
  PROVE  IInv'
<1>1. StackType' /\ StackHoldsWhatLives'
  BY PushHolds DEF IInv, StackAllocate
<1>2. m_idx' = m_idx + 1 /\ frames' = frames /\ mainBody' = mainBody
  BY DEF StackAllocate, runtimeStackPush
<1>3. frames # <<>> /\ frames[Len(frames)].kind = "loop"
  BY DEF StackAllocate
<1>4. SavedPositionsAreValid'
  <2>1. \A d \in DOMAIN frames : frames[d].position \in Nat
    BY PositionsAreNatural DEF IInv, ScopesInvariant
  <2> QED  BY <1>2, <2>1 DEF IInv, ScopesInvariant, SavedPositionsAreValid, StackType
<1>5. SubroutinesOwnNothing'
  BY <1>2, <1>3 DEF IInv, ScopesInvariant, SubroutinesOwnNothing, Top
<1>6. MainIsOutermost'
  BY <1>2, <1>3 DEF IInv, ScopesInvariant, MainIsOutermost
<1>7. ControlInvariant'
  BY DEF IInv, ControlInvariant, FreedIsEmpty, StackAllocate
<1> QED  BY <1>1, <1>2, <1>4, <1>5, <1>6, <1>7 DEF IInv, ScopesInvariant

\* A position is restored with its scope's end: how LeaveLoop, Return and
\* ReturnFromMain go on.
LEMMA RestoringStep ==
  ASSUME IInv, NEW d \in DOMAIN frames,
         runtimeStackRestore(frames[d].position), frames' = SubSeq(frames, 1, d - 1),
         mainBody' = mainBody
  PROVE  StackType' /\ StackHoldsWhatLives' /\ ScopesInvariant'
<1>1. frames[d].position \in 0 .. m_idx
  <2>1. frames[d].position \in Nat
    BY PositionsAreNatural DEF IInv, ScopesInvariant
  <2> QED  BY <2>1 DEF IInv, ScopesInvariant, SavedPositionsAreValid, StackType
<1>2. StackType' /\ StackHoldsWhatLives'
  BY <1>1, RestoreHolds DEF IInv
<1>3. ScopesInvariant'
  <2>1. m_idx' = frames[d].position
    BY DEF runtimeStackRestore
  <2> QED  BY <2>1, LeaveScopes DEF IInv
<1> QED  BY <1>2, <1>3

\* The merge block of a loop restores the loop's own position.
LEMMA LeaveLoopStep == IInv /\ LeaveLoop => IInv'
<1> SUFFICES ASSUME IInv, LeaveLoop PROVE IInv'
  OBVIOUS
<1>1. Len(frames) \in DOMAIN frames
  BY DEF IInv, ScopesInvariant, LeaveLoop
<1>2. StackType' /\ StackHoldsWhatLives' /\ ScopesInvariant'
  BY <1>1, RestoringStep DEF LeaveLoop
<1>3. ControlInvariant'
  BY DEF IInv, ControlInvariant, FreedIsEmpty, LeaveLoop
<1> QED  BY <1>2, <1>3 DEF IInv

\* A return restores the position of the subroutine it leaves.
LEMMA ReturnStep == IInv /\ Return => IInv'
<1> SUFFICES ASSUME IInv, Return PROVE IInv'
  OBVIOUS
<1>1. PICK d \in 2 .. Len(frames) :
        /\ d \in DOMAIN frames
        /\ runtimeStackRestore(frames[d].position)
        /\ frames' = SubSeq(frames, 1, d - 1)
  BY DEF Return, IsInnermost
<1>2. StackType' /\ StackHoldsWhatLives' /\ ScopesInvariant'
  BY <1>1, RestoringStep DEF Return
<1>3. ControlInvariant'
  BY DEF IInv, ControlInvariant, FreedIsEmpty, Return
<1> QED  BY <1>2, <1>3 DEF IInv

\* A subroutine that just ends restores nothing, and has nothing to restore.
LEMMA FallOffTheEndStep == IInv /\ FallOffTheEnd => IInv'
<1> SUFFICES ASSUME IInv, FallOffTheEnd PROVE IInv'
  OBVIOUS
<1> DEFINE n == Len(frames)
<1>1. n \in DOMAIN frames
  BY DEF IInv, ScopesInvariant, FallOffTheEnd
<1>2. StackType' /\ StackHoldsWhatLives' /\ m_idx' = m_idx
  BY DEF IInv, FallOffTheEnd, stack, StackType, StackHoldsWhatLives
<1>3. m_idx = frames[n].position
  BY <1>1 DEF IInv, ScopesInvariant, SubroutinesOwnNothing, Top, FallOffTheEnd
<1>4. ScopesInvariant'
  BY <1>1, <1>2, <1>3, LeaveScopes DEF IInv, FallOffTheEnd
<1>5. ControlInvariant'
  BY DEF IInv, ControlInvariant, FreedIsEmpty, FallOffTheEnd, stack
<1> QED  BY <1>2, <1>4, <1>5 DEF IInv

\* The return of main's block restores slot 0.
LEMMA ReturnFromMainStep == IInv /\ ReturnFromMain => IInv'
<1> SUFFICES ASSUME IInv, ReturnFromMain PROVE IInv'
  OBVIOUS
<1>1. 1 \in DOMAIN frames
  BY DEF IInv, ScopesInvariant, ReturnFromMain, InMain
<1>2. frames' = SubSeq(frames, 1, 0) /\ runtimeStackRestore(frames[1].position)
  BY DEF ReturnFromMain, IInv, ScopesInvariant
<1>3. StackType' /\ StackHoldsWhatLives' /\ ScopesInvariant'
  BY <1>1, <1>2, RestoringStep DEF ReturnFromMain
<1>4. ControlInvariant'
  BY DEF IInv, ControlInvariant, FreedIsEmpty, ReturnFromMain
<1> QED  BY <1>3, <1>4 DEF IInv

\* An expression is evaluated in main alone.
LEMMA OnlyMainIsLeft ==
  ASSUME IInv, DestroyStackThenRestore
  PROVE  Len(frames) = 1 /\ frames[1].kind = "subroutine" /\ frames[1].position = 0
<1>1. frames # <<>> /\ mainBody = "expression"
  BY DEF DestroyStackThenRestore, InMain
<1>2. Len(frames) >= 1 /\ Len(frames) \in Nat
  BY <1>1 DEF IInv, ScopesInvariant
<1>3. Len(frames) > 1 => frames[2].kind = "subroutine"
  BY <1>1 DEF IInv, ScopesInvariant, MainIsOutermost
<1>4. Len(frames) > 1 => frames[2].kind = "loop"
  <2>1. \A d \in 2 .. Len(frames) : frames[d].kind = "loop"
    BY Zenon DEF DestroyStackThenRestore, InMain
  <2> QED  BY <1>2, <2>1
<1>5. ~(Len(frames) > 1)
  BY <1>3, <1>4
<1>6. Len(frames) = 1
  BY <1>2, <1>5
<1> QED  BY <1>1, <1>6 DEF IInv, ScopesInvariant, MainIsOutermost

\* runtimeStackDestructThenFree, by either form of main.
LEMMA DestroyStep ==
  ASSUME IInv, DestroyStack \/ DestroyStackThenRestore
  PROVE  IInv'
<1>1. runtimeStackRestore(0) /\ m_idx' = 0 /\ frames' = frames /\ mainBody' = mainBody
  BY DEF DestroyStack, DestroyStackThenRestore, runtimeStackRestore
<1>2. StackType' /\ StackHoldsWhatLives'
  BY <1>1, RestoreHolds DEF IInv, StackType
<1>3. \/ DestroyStack /\ frames = <<>>
      \/ DestroyStackThenRestore /\ Len(frames) = 1 /\ frames[1].position = 0
  BY OnlyMainIsLeft DEF DestroyStack, IInv, ControlInvariant, FreedIsEmpty
<1>4. ScopesInvariant'
  <2>1. SavedPositionsAreValid'
    BY <1>1, <1>3 DEF IInv, ScopesInvariant, SavedPositionsAreValid
  <2>2. SubroutinesOwnNothing'
    BY <1>1, <1>3 DEF IInv, ScopesInvariant, SubroutinesOwnNothing, Top
  <2> QED  BY <1>1, <2>1, <2>2 DEF IInv, ScopesInvariant, MainIsOutermost
<1>5. ControlInvariant'
  BY <1>1, <1>3 DEF IInv, ControlInvariant, FreedIsEmpty, DestroyStack, DestroyStackThenRestore
<1> QED  BY <1>2, <1>4, <1>5 DEF IInv

\* The restore after the free is not followed any further.
LEMMA RestoreFreedStackStep == IInv /\ RestoreFreedStack => IInv'
<1> SUFFICES ASSUME IInv, RestoreFreedStack PROVE IInv'
  OBVIOUS
<1>1. m_idx = 0
  BY DEF IInv, ControlInvariant, FreedIsEmpty, RestoreFreedStack
<1>2. StackType' /\ StackHoldsWhatLives'
  BY DEF IInv, RestoreFreedStack, stack, StackType, StackHoldsWhatLives
<1>3. ControlInvariant'
  BY DEF IInv, RestoreFreedStack, stack, ControlInvariant, FreedIsEmpty
<1>4. frames' = <<>> /\ m_idx' = 0
  BY <1>1 DEF RestoreFreedStack, stack
<1>5. ScopesInvariant'
  BY <1>4 DEF ScopesInvariant, SavedPositionsAreValid, SubroutinesOwnNothing, MainIsOutermost
<1> QED  BY <1>2, <1>3, <1>5 DEF IInv

\* Every step keeps the invariant.
LEMMA InvariantStep == IInv /\ [Next]_vars => IInv'
<1> SUFFICES ASSUME IInv, [Next]_vars PROVE IInv'
  OBVIOUS
<1>1. CASE UNCHANGED vars
  <2>1. StackType' /\ StackHoldsWhatLives' /\ ControlInvariant'
    BY <1>1 DEF vars, stack, IInv, StackType, StackHoldsWhatLives, ControlInvariant, FreedIsEmpty
  <2>2. ScopesInvariant'
    BY <1>1 DEF vars, stack, IInv, ScopesInvariant, SavedPositionsAreValid,
       SubroutinesOwnNothing, Top, MainIsOutermost
  <2> QED  BY <2>1, <2>2 DEF IInv
<1>2. CASE \E kind \in {"subroutine", "loop"} : Enter(kind)
  BY <1>2, EnterStep
<1>3. CASE \E item \in Items : StackAllocate(item)
  BY <1>3, StackAllocateStep
<1>4. CASE DestroyStack \/ DestroyStackThenRestore
  BY <1>4, DestroyStep
<1> QED
  BY <1>1, <1>2, <1>3, <1>4, LeaveLoopStep, ReturnStep, FallOffTheEndStep,
     ReturnFromMainStep, RestoreFreedStackStep DEF Next

(***************************************************************************)
(* The theorems about every behaviour.                                     *)
(***************************************************************************)
(***************************************************************************)
(* The inductive strengthening of the safety properties of RuntimeStack.c  *)
(* and its use holds in every reachable state.                             *)
(***************************************************************************)
THEOREM InvariantHolds == Spec => []IInv
<1> QED  BY InitInvariant, InvariantStep, PTL DEF Spec

(***************************************************************************)
(* RuntimeStack.c and the code that uses it keep every variable in its     *)
(* range: m_idx never leaves the array.                                    *)
(***************************************************************************)
THEOREM TypeCorrect == Spec => []TypeOK
<1>1. IInv => TypeOK
  BY DEF IInv, StackType, ScopesInvariant, ControlInvariant, TypeOK
<1> QED  BY <1>1, InvariantHolds, PTL

(***************************************************************************)
(* Pushes, with the array growing, and restores keep in the slots in use   *)
(* exactly the objects that are alive, each of them once.                  *)
(***************************************************************************)
THEOREM StackIsExact == Spec => []StackHoldsWhatLives
<1>1. IInv => StackHoldsWhatLives
  BY DEF IInv
<1> QED  BY <1>1, InvariantHolds, PTL

(***************************************************************************)
(* runtimeStackRestore is never given a position above m_idx, although a   *)
(* return leaves many loops at once and an ending procedure restores       *)
(* nothing: its error exit is dead code.                                   *)
(***************************************************************************)
THEOREM RestoresAreValid == Spec => []SavedPositionsAreValid
<1>1. IInv => SavedPositionsAreValid
  BY DEF IInv, ScopesInvariant
<1> QED  BY <1>1, InvariantHolds, PTL

(***************************************************************************)
(* What leaving scopes destroys: the slots from a scope's position up are  *)
(* those of that scope and of the scopes in it.                            *)
(***************************************************************************)
\* A set of numbers has a least one.
LEMMA LeastNumber ==
  ASSUME NEW S \in SUBSET Nat, S # {}
  PROVE  \E n \in S : \A m \in S : n <= m
<1> DEFINE R == {ss \in Nat \X Nat : ss[1] < ss[2]}
<1>1. IsWellFoundedOn(R, Nat)
  BY NatLessThanWellFounded DEF OpToRel
<1> HIDE DEF R
<1>2. PICK n \in S : \A m \in S : ~(<<m, n>> \in R)
  BY <1>1, WFMin
<1>3. \A m \in S : ~(m < n)
  BY <1>2 DEF R
<1> QED  BY <1>3

\* A slot from scope d's position up belongs to d or to a scope in it: the one
\* before the first scope that begins above the slot.
LEMMA SlotHasOwner ==
  ASSUME IInv, NEW d \in DOMAIN frames, NEW i \in frames[d].position .. m_idx - 1
  PROVE  \E e \in d .. Len(frames) : i \in frames[e].position .. Top(e) - 1
<1>1. /\ DOMAIN frames = 1 .. Len(frames) /\ Len(frames) \in Nat /\ m_idx \in Nat
      /\ \A e \in DOMAIN frames : frames[e].position \in Nat
  BY PositionsAreNatural DEF IInv, ScopesInvariant, StackType
<1> DEFINE Above == {e \in d .. Len(frames) : i < frames[e].position}
<1>2. CASE Above = {}
  <2>1. Len(frames) \in d .. Len(frames) /\ Len(frames) \in DOMAIN frames
    BY <1>1
  <2>2. frames[Len(frames)].position <= i
    BY <1>1, <1>2, <2>1
  <2>3. i \in frames[Len(frames)].position .. Top(Len(frames)) - 1
    BY <1>1, <2>1, <2>2 DEF Top
  <2> QED  BY <2>1, <2>3
<1>3. CASE Above # {}
  <2>1. Above \in SUBSET Nat
    BY <1>1
  <2>2. PICK e \in Above : \A f \in Above : e <= f
    BY <1>3, <2>1, LeastNumber
  <2>3. e \in d .. Len(frames) /\ e # d /\ i < frames[e].position
    BY <1>1, <2>2
  <2>4. e - 1 \in d .. Len(frames) /\ e - 1 # Len(frames) /\ e - 1 \in DOMAIN frames
    BY <1>1, <2>3
  <2>5. e - 1 \notin Above
    BY <2>2, <2>3, <2>4, <1>1
  <2>6. frames[e - 1].position <= i
    BY <1>1, <2>4, <2>5
  <2>7. Top(e - 1) = frames[e].position
    BY <1>1, <2>3, <2>4 DEF Top
  <2>8. i \in frames[e - 1].position .. Top(e - 1) - 1
    BY <1>1, <2>3, <2>4, <2>6, <2>7
  <2> QED  BY <2>4, <2>8
<1> QED  BY <1>2, <1>3

\* The slots of a scope lie between its position and the end of those in use.
LEMMA OwnedSlots ==
  ASSUME IInv, NEW d \in DOMAIN frames, NEW e \in d .. Len(frames)
  PROVE  frames[e].position .. Top(e) - 1 \subseteq frames[d].position .. m_idx - 1
<1>1. /\ DOMAIN frames = 1 .. Len(frames) /\ Len(frames) \in Nat /\ m_idx \in Nat
      /\ \A f \in DOMAIN frames : frames[f].position \in Nat
  BY PositionsAreNatural DEF IInv, ScopesInvariant, StackType
<1>2. e \in DOMAIN frames /\ frames[d].position <= frames[e].position
  BY <1>1 DEF IInv, ScopesInvariant, SavedPositionsAreValid
<1>3. Top(e) \in Nat /\ Top(e) <= m_idx
  BY <1>1, <1>2 DEF Top, IInv, ScopesInvariant, SavedPositionsAreValid
<1> QED  BY <1>1, <1>2, <1>3

\* So the slots from scope d's position up are what d and the scopes in it own.
LEMMA SlotsFrom ==
  ASSUME IInv, NEW d \in DOMAIN frames
  PROVE  {m_stack[i] : i \in frames[d].position .. m_idx - 1}
           = UNION {Owned(e) : e \in d .. Len(frames)}
<1>1. ASSUME NEW i \in frames[d].position .. m_idx - 1
      PROVE  m_stack[i] \in UNION {Owned(e) : e \in d .. Len(frames)}
  BY SlotHasOwner DEF Owned
<1>2. ASSUME NEW e \in d .. Len(frames), NEW i \in frames[e].position .. Top(e) - 1
      PROVE  m_stack[i] \in {m_stack[j] : j \in frames[d].position .. m_idx - 1}
  BY OwnedSlots
<1> QED  BY <1>1, <1>2 DEF Owned

(***************************************************************************)
(* Each step is a step of ScopedLifetimes.                                 *)
(***************************************************************************)
\* The abstract scopes are as many as the saved positions.
LEMMA OpenScopesType ==
  ASSUME frames \in Seq(Frame)
  PROVE  /\ OpenScopes \in Seq({OpenScopes[d] : d \in DOMAIN frames})
         /\ Len(OpenScopes) = Len(frames)
         /\ DOMAIN OpenScopes = 1 .. Len(frames) /\ DOMAIN frames = 1 .. Len(frames)
         /\ \A d \in DOMAIN frames :
              OpenScopes[d] = [kind |-> frames[d].kind, owned |-> Owned(d)]
  BY DEF OpenScopes

\* Append and SubSeq as functions.
LEMMA AppendIsFunction ==
  ASSUME NEW S, NEW s \in Seq(S), NEW new
  PROVE  Append(s, new) = [d \in 1 .. Len(s) + 1 |-> IF d = Len(s) + 1 THEN new ELSE s[d]]
<1> DEFINE f == [d \in 1 .. Len(s) + 1 |-> IF d = Len(s) + 1 THEN new ELSE s[d]]
           T == S \cup {new}
<1>1. s \in Seq(T) /\ Len(s) \in Nat
  OBVIOUS
<1>2. /\ Append(s, new) \in Seq(T) /\ Len(Append(s, new)) = Len(s) + 1
      /\ \A i \in 1 .. Len(s) : Append(s, new)[i] = s[i]
      /\ Append(s, new)[Len(s) + 1] = new
  BY <1>1, AppendProperties
<1>3. f \in [1 .. Len(s) + 1 -> T]
  BY <1>1
<1>4. f \in Seq(T) /\ Len(f) = Len(s) + 1
  BY <1>1, <1>3
<1>5. ASSUME NEW i \in 1 .. Len(s) + 1
      PROVE  Append(s, new)[i] = f[i]
  BY <1>1, <1>2
<1> HIDE DEF f
<1>6. Append(s, new) = f
  BY <1>2, <1>4, <1>5, SeqEqual
<1> QED  BY <1>6 DEF f

\* The first n elements.
LEMMA SubSeqIsFunction ==
  ASSUME NEW S, NEW s \in Seq(S), NEW n \in 0 .. Len(s)
  PROVE  SubSeq(s, 1, n) = [d \in 1 .. n |-> s[d]]
  OBVIOUS

\* Replacing what a scope owns.
LEMMA ScopeWithMore ==
  ASSUME NEW kind, NEW owned, NEW item, NEW scope, scope = [kind |-> kind, owned |-> owned]
  PROVE  [scope EXCEPT !.owned = @ \cup {item}] = [kind |-> kind, owned |-> owned \cup {item}]
  OBVIOUS

\* The program begins with no scope open.
LEMMA InitRefines == Init => Scopes!Init
  BY DEF Init, Scopes!Init, OpenScopes

\* A scope that is entered owns nothing yet, and takes nothing from the others.
LEMMA EnterRefines ==
  ASSUME IInv, IInv', NEW kind \in {"subroutine", "loop"}, Enter(kind)
  PROVE  Scopes!Enter(kind)
<1> DEFINE opened == [kind |-> kind, owned |-> {}]
<1>n. PICK n \in Nat : n = Len(frames)
  BY DEF IInv, ScopesInvariant
<1>1. /\ frames' = Append(frames, [kind |-> kind, position |-> m_idx])
      /\ m_idx' = m_idx /\ m_stack' = m_stack /\ live' = live /\ freed' = freed /\ ~freed
  BY DEF Enter, stack, IInv, ControlInvariant, FreedIsEmpty
<1>2. /\ frames \in Seq(Frame)
      /\ Len(frames') = n + 1 /\ DOMAIN frames' = 1 .. n + 1 /\ DOMAIN frames = 1 .. n
      /\ \A d \in 1 .. n : frames'[d] = frames[d]
      /\ frames'[n + 1].kind = kind /\ frames'[n + 1].position = m_idx
  BY <1>1, <1>n DEF IInv, ScopesInvariant
<1>m. m_idx \in Nat
  BY DEF IInv, StackType
<1>l. Len(frames') = n + 1
  BY <1>2
<1>3. ASSUME NEW d \in 1 .. n
      PROVE  Owned(d)' = Owned(d)
  <2>1. CASE d = n
    <3>1. Top(d) = m_idx
      BY <1>n, <2>1 DEF Top
    <3>2. d # Len(frames') /\ d + 1 = n + 1
      BY <1>n, <1>l, <2>1
    <3>3. Top(d)' = m_idx
      BY <1>2, <3>2 DEF Top
    <3> QED  BY <1>1, <1>2, <3>1, <3>3 DEF Owned
  <2>2. CASE d # n
    <3>1. d + 1 \in 1 .. n /\ d # n + 1
      BY <1>n, <2>2
    <3>2. Top(d) = frames[d + 1].position
      BY <1>n, <2>2 DEF Top
    <3>3. Top(d)' = frames'[d + 1].position
      BY <1>l, <3>1 DEF Top
    <3>4. Top(d)' = Top(d)
      BY <1>2, <3>1, <3>2, <3>3
    <3> QED  BY <1>1, <1>2, <3>4 DEF Owned
  <2> QED  BY <2>1, <2>2
<1>4. Owned(n + 1)' = {}
  <2>1. Top(n + 1)' = m_idx
    BY <1>1, <1>l DEF Top
  <2>2. frames'[n + 1].position .. Top(n + 1)' - 1 = {}
    BY <1>2, <1>m, <2>1
  <2> QED  BY <2>2 DEF Owned
<1>5. OpenScopes' = Append(OpenScopes, opened)
  <2> DEFINE s == OpenScopes
  <2>1. OpenScopes' = [d \in 1 .. n + 1 |-> [kind |-> frames'[d].kind, owned |-> Owned(d)']]
    BY <1>2 DEF OpenScopes
  <2>2. /\ Len(s) = n /\ s \in Seq({s[d] : d \in DOMAIN frames})
        /\ \A d \in 1 .. n : s[d] = [kind |-> frames[d].kind, owned |-> Owned(d)]
    BY <1>2, <1>n, OpenScopesType
  <2> HIDE DEF s
  <2>3. Append(s, opened) = [d \in 1 .. n + 1 |-> IF d = n + 1 THEN opened ELSE s[d]]
    BY <2>2, AppendIsFunction
  <2>4. ASSUME NEW d \in 1 .. n + 1
        PROVE  [kind |-> frames'[d].kind, owned |-> Owned(d)']
                 = IF d = n + 1 THEN opened ELSE s[d]
    <3>1. CASE d = n + 1
      BY <1>2, <1>4, <3>1, Zenon
    <3>2. CASE d # n + 1
      <4>1. d \in 1 .. n
        BY <1>n, <3>2
      <4>2. frames'[d] = frames[d] /\ Owned(d)' = Owned(d)
        BY <1>2, <1>3, <4>1
      <4> QED  BY <2>2, <3>2, <4>1, <4>2, Zenon
    <3> QED  BY <3>1, <3>2
  <2> QED  BY <2>1, <2>3, <2>4 DEF s
<1> QED  BY <1>1, <1>5 DEF Scopes!Enter

\* What the innermost scope allocates is added to what it owns.
LEMMA StackAllocateRefines ==
  ASSUME IInv, IInv', NEW item \in Items, StackAllocate(item)
  PROVE  Scopes!Allocate(item)
<1>n. PICK n \in Nat : n = Len(frames)
  BY DEF IInv, ScopesInvariant
<1>1. /\ frames' = frames /\ live' = live \cup {item} /\ freed' = freed
      /\ item \notin live /\ frames # <<>>
      /\ m_idx' = m_idx + 1
      /\ \A i \in 0 .. m_idx - 1 : m_stack'[i] = m_stack[i]
      /\ m_stack'[m_idx] = item
  BY PushEffect DEF StackAllocate, IInv
<1>2. /\ frames \in Seq(Frame) /\ n \in Nat /\ n \in DOMAIN frames /\ DOMAIN frames = 1 .. n
      /\ m_idx \in Nat /\ \A d \in 1 .. n : frames[d].position \in Nat
  BY <1>1, <1>n, PositionsAreNatural DEF IInv, ScopesInvariant, StackType
<1>3. ASSUME NEW d \in 1 .. n - 1
      PROVE  Owned(d)' = Owned(d)
  <2>1. d \in 1 .. n /\ d + 1 \in 1 .. n /\ d # n
    BY <1>2
  <2>2. Top(d) = frames[d + 1].position /\ Top(d)' = Top(d)
    BY <1>1, <1>n, <2>1 DEF Top
  <2>3. Top(d) \in Nat /\ Top(d) <= m_idx /\ frames[d].position \in Nat
    BY <1>2, <2>1, <2>2 DEF IInv, ScopesInvariant, SavedPositionsAreValid
  <2>4. \A i \in frames[d].position .. Top(d) - 1 : m_stack'[i] = m_stack[i]
    BY <1>1, <1>2, <2>3
  <2> QED  BY <1>1, <2>2, <2>4 DEF Owned
<1>4. Owned(n)' = Owned(n) \cup {item}
  <2>1. Top(n) = m_idx /\ Top(n)' = m_idx + 1
    BY <1>1, <1>n DEF Top
  <2>2. frames[n].position <= m_idx
    BY <1>2 DEF IInv, ScopesInvariant, SavedPositionsAreValid
  <2>3. frames[n].position .. m_idx = (frames[n].position .. m_idx - 1) \cup {m_idx}
    BY <1>2, <2>2
  <2>4. \A i \in frames[n].position .. m_idx - 1 : m_stack'[i] = m_stack[i]
    BY <1>1, <1>2
  <2>5. Owned(n)' = {m_stack'[i] : i \in frames[n].position .. m_idx}
    BY <1>1, <1>2, <2>1 DEF Owned
  <2> DEFINE A == frames[n].position .. m_idx - 1
  <2>6. Owned(n)' = {m_stack'[i] : i \in A \cup {m_idx}}
    BY <2>3, <2>5
  <2>7. Owned(n) = {m_stack[i] : i \in A}
    BY <2>1 DEF Owned
  <2>8. {m_stack'[i] : i \in A} = {m_stack[i] : i \in A}
    BY <2>4
  <2> HIDE DEF A
  <2>9. {m_stack'[i] : i \in A \cup {m_idx}} = {m_stack'[i] : i \in A} \cup {m_stack'[m_idx]}
    OBVIOUS
  <2> QED  BY <1>1, <2>6, <2>7, <2>8, <2>9
<1>5. OpenScopes' = [OpenScopes EXCEPT ![Len(OpenScopes)].owned = @ \cup {item}]
  <2>1. /\ Len(OpenScopes) = n /\ DOMAIN OpenScopes = 1 .. n
        /\ \A d \in 1 .. n : OpenScopes[d] = [kind |-> frames[d].kind, owned |-> Owned(d)]
    BY <1>n, <1>2, OpenScopesType
  <2>2. OpenScopes' = [d \in 1 .. n |-> [kind |-> frames[d].kind, owned |-> Owned(d)']]
    BY <1>1, <1>2 DEF OpenScopes
  <2>3. OpenScopes = [d \in 1 .. n |-> [kind |-> frames[d].kind, owned |-> Owned(d)]]
    BY <1>2 DEF OpenScopes
  <2>4. [OpenScopes EXCEPT ![n].owned = @ \cup {item}]
          = [d \in 1 .. n |-> IF d = n
                              THEN [OpenScopes[n] EXCEPT !.owned = @ \cup {item}]
                              ELSE OpenScopes[d]]
    BY <2>1, <2>3, Zenon
  <2>5. [OpenScopes[n] EXCEPT !.owned = @ \cup {item}]
          = [kind |-> frames[n].kind, owned |-> Owned(n)']
    <3>1. OpenScopes[n] = [kind |-> frames[n].kind, owned |-> Owned(n)]
      BY <1>2, <2>1
    <3>2. [OpenScopes[n] EXCEPT !.owned = @ \cup {item}]
            = [kind |-> frames[n].kind, owned |-> Owned(n) \cup {item}]
      BY <3>1, ScopeWithMore
    <3> QED  BY <1>4, <3>2
  <2>6. ASSUME NEW d \in 1 .. n, d # n
        PROVE  OpenScopes[d] = [kind |-> frames[d].kind, owned |-> Owned(d)']
    <3>1. d \in 1 .. n - 1
      BY <1>n, <2>6
    <3> QED  BY <1>3, <2>1, <3>1, Zenon
  <2> QED  BY <2>1, <2>2, <2>4, <2>5, <2>6, Zenon
<1>6. OpenScopes # <<>>
  BY <1>2, OpenScopesType
<1> QED  BY <1>1, <1>5, <1>6 DEF Scopes!Allocate

\* Restoring a scope's position as its end leaves it and the scopes in it.
LEMMA LeaveRefines ==
  ASSUME IInv, IInv', NEW d \in DOMAIN frames,
         \A e \in d + 1 .. Len(frames) : frames[e].kind # frames[d].kind,
         frames' = SubSeq(frames, 1, d - 1),
         m_idx' = frames[d].position, m_stack' = m_stack, freed' = freed,
         live' = live \ {m_stack[i] : i \in frames[d].position .. m_idx - 1}
  PROVE  Scopes!Leave(d)
<1>n. PICK n \in Nat : n = Len(frames)
  BY DEF IInv, ScopesInvariant
<1>1. /\ Len(OpenScopes) = n /\ DOMAIN OpenScopes = 1 .. n /\ DOMAIN frames = 1 .. n
      /\ \A e \in 1 .. n : OpenScopes[e] = [kind |-> frames[e].kind, owned |-> Owned(e)]
      /\ OpenScopes \in Seq({OpenScopes[e] : e \in DOMAIN frames})
  BY <1>n, OpenScopesType DEF IInv, ScopesInvariant
<1>2. d \in 1 .. n /\ d \in Nat
  BY <1>1
<1>3. /\ Len(frames') = d - 1 /\ DOMAIN frames' = 1 .. d - 1
      /\ \A e \in 1 .. d - 1 : frames'[e] = frames[e]
  BY ScopesOutside DEF IInv, ScopesInvariant
<1>4. ASSUME NEW e \in 1 .. d - 1
      PROVE  Owned(e)' = Owned(e)
  <2>1. e \in 1 .. n /\ e + 1 \in 1 .. n /\ e # n
    BY <1>2
  <2>2. Top(e) = frames[e + 1].position
    BY <1>n, <2>1 DEF Top
  <2>3. Top(e)' = frames[e + 1].position
    <3>1. CASE e = d - 1
      <4>1. e + 1 = d /\ e = Len(frames')
        BY <1>2, <1>3, <3>1
      <4> QED  BY <4>1 DEF Top
    <3>2. CASE e # d - 1
      <4>1. e + 1 \in 1 .. d - 1 /\ e # Len(frames')
        BY <1>2, <1>3, <3>2
      <4> QED  BY <1>3, <4>1 DEF Top
    <3> QED  BY <3>1, <3>2
  <2> QED  BY <1>3, <2>2, <2>3 DEF Owned
<1>5. OpenScopes' = SubSeq(OpenScopes, 1, d - 1)
  <2>1. OpenScopes' = [e \in 1 .. d - 1 |-> [kind |-> frames'[e].kind, owned |-> Owned(e)']]
    BY <1>3 DEF OpenScopes
  <2>2. d - 1 \in 0 .. Len(OpenScopes)
    BY <1>1, <1>2
  <2>3. SubSeq(OpenScopes, 1, d - 1) = [e \in 1 .. d - 1 |-> OpenScopes[e]]
    BY <1>1, <2>2, SubSeqIsFunction
  <2>4. ASSUME NEW e \in 1 .. d - 1
        PROVE  [kind |-> frames'[e].kind, owned |-> Owned(e)'] = OpenScopes[e]
    <3>1. e \in 1 .. n
      BY <1>2
    <3> QED  BY <1>1, <1>3, <1>4, <3>1, Zenon
  <2> QED  BY <2>1, <2>3, <2>4, Zenon
<1>6. live' = live \ UNION {OpenScopes[e].owned : e \in d .. Len(OpenScopes)}
  <2>1. \A e \in d .. n : OpenScopes[e].owned = Owned(e)
    BY <1>1, <1>2
  <2>2. UNION {OpenScopes[e].owned : e \in d .. n} = UNION {Owned(e) : e \in d .. n}
    BY <2>1
  <2> QED  BY <1>n, <1>1, <2>2, SlotsFrom
<1>7. \A e \in d + 1 .. Len(OpenScopes) : OpenScopes[e].kind # OpenScopes[d].kind
  <2> SUFFICES ASSUME NEW e \in d + 1 .. n PROVE OpenScopes[e].kind # OpenScopes[d].kind
    BY <1>1
  <2>1. e \in 1 .. n
    BY <1>2
  <2>2. OpenScopes[e].kind = frames[e].kind /\ OpenScopes[d].kind = frames[d].kind
    BY <1>1, <1>2, <2>1
  <2> QED  BY <1>n, <2>2
<1> QED  BY <1>1, <1>2, <1>5, <1>6, <1>7 DEF Scopes!Leave

\* The three ways in which the code restores a position.
LEMMA RestoringRefines ==
  ASSUME IInv, IInv', LeaveLoop \/ Return \/ ReturnFromMain
  PROVE  \E d \in DOMAIN frames : Scopes!Leave(d)
<1>1. frames \in Seq(Frame) /\ Len(frames) \in Nat /\ DOMAIN frames = 1 .. Len(frames)
  BY DEF IInv, ScopesInvariant
<1>2. CASE LeaveLoop
  <2> DEFINE d == Len(frames)
  <2>1. /\ d \in DOMAIN frames /\ d + 1 .. Len(frames) = {}
        /\ frames' = SubSeq(frames, 1, d - 1) /\ freed' = freed
        /\ runtimeStackRestore(frames[d].position)
    BY <1>1, <1>2 DEF LeaveLoop
  <2> QED  BY <2>1, LeaveRefines DEF runtimeStackRestore
<1>3. CASE Return
  <2>1. PICK d \in DOMAIN frames :
          /\ IsInnermost(d, "subroutine")
          /\ frames' = SubSeq(frames, 1, d - 1) /\ freed' = freed
          /\ runtimeStackRestore(frames[d].position)
    BY <1>3 DEF Return, IsInnermost
  <2> QED  BY <2>1, LeaveRefines DEF runtimeStackRestore, IsInnermost
<1>4. CASE ReturnFromMain
  <2>1. /\ frames # <<>> /\ frames' = <<>> /\ freed' = freed
        /\ runtimeStackRestore(frames[1].position)
        /\ \A e \in 2 .. Len(frames) : frames[e].kind = "loop"
    BY <1>4 DEF ReturnFromMain, InMain
  <2>2. 1 \in DOMAIN frames /\ frames' = SubSeq(frames, 1, 1 - 1)
    BY <1>1, <2>1
  <2>3. frames[1].kind = "subroutine"
    BY <2>1 DEF IInv, ScopesInvariant, MainIsOutermost
  <2>4. \A e \in 1 + 1 .. Len(frames) : frames[e].kind # frames[1].kind
    BY <2>1, <2>3
  <2> QED  BY <2>1, <2>2, <2>4, LeaveRefines DEF runtimeStackRestore
<1> QED  BY <1>2, <1>3, <1>4

\* The two ways in which a scope ends without a restore: it owns nothing.
LEMMA EndingRefines ==
  ASSUME IInv, IInv', FallOffTheEnd \/ RestoreFreedStack
  PROVE  \E d \in DOMAIN frames : Scopes!Leave(d)
<1> DEFINE d == Len(frames)
<1>1. /\ frames \in Seq(Frame) /\ Len(frames) \in Nat /\ DOMAIN frames = 1 .. Len(frames)
      /\ m_idx \in Nat
  BY DEF IInv, ScopesInvariant, StackType
<1>2. /\ d \in DOMAIN frames /\ frames' = SubSeq(frames, 1, d - 1)
      /\ m_idx' = m_idx /\ m_stack' = m_stack /\ freed' = freed /\ live' = live
  <2>1. CASE FallOffTheEnd
    BY <1>1, <2>1 DEF FallOffTheEnd, stack
  <2>2. CASE RestoreFreedStack
    <3>1. d = 1 /\ frames' = <<>>
      BY <2>2 DEF RestoreFreedStack, IInv, ControlInvariant, FreedIsEmpty
    <3>2. SubSeq(frames, 1, 0) = <<>> /\ d - 1 = 0 /\ d \in DOMAIN frames
      BY <1>1, <3>1
    <3> QED  BY <2>2, <3>1, <3>2 DEF RestoreFreedStack, stack
  <2> QED  BY <2>1, <2>2
<1>3. frames[d].kind = "subroutine"
  <2>1. CASE FallOffTheEnd
    BY <2>1 DEF FallOffTheEnd
  <2>2. CASE RestoreFreedStack
    <3>1. d = 1
      BY <2>2 DEF RestoreFreedStack, IInv, ControlInvariant, FreedIsEmpty
    <3>2. frames # <<>>
      BY <1>1, <3>1
    <3> QED  BY <3>1, <3>2 DEF IInv, ScopesInvariant, MainIsOutermost
  <2> QED  BY <2>1, <2>2
<1>4. m_idx = frames[d].position
  <2>1. Top(d) = m_idx
    BY DEF Top
  <2> QED  BY <1>2, <1>3, <2>1 DEF IInv, ScopesInvariant, SubroutinesOwnNothing
<1>5. frames[d].position .. m_idx - 1 = {} /\ d + 1 .. Len(frames) = {}
  BY <1>1, <1>4
<1>6. live' = live \ {m_stack[i] : i \in frames[d].position .. m_idx - 1}
  BY <1>2, <1>5
<1>7. Scopes!Leave(d)
  BY <1>2, <1>4, <1>5, <1>6, LeaveRefines
<1> QED  BY <1>2, <1>7

\* The stack is freed when nothing is left on it.
LEMMA DestroyRefines ==
  ASSUME IInv, IInv', DestroyStack \/ DestroyStackThenRestore
  PROVE  Scopes!End
<1>1. /\ frames' = frames /\ freed' = TRUE /\ m_idx' = 0 /\ m_stack' = m_stack /\ ~freed
      /\ live' = live \ {m_stack[i] : i \in 0 .. m_idx - 1}
  BY DEF DestroyStack, DestroyStackThenRestore, runtimeStackRestore, IInv,
     ControlInvariant, FreedIsEmpty
<1>2. m_idx = 0
  <2>1. CASE DestroyStack
    BY <2>1 DEF DestroyStack, IInv, ScopesInvariant, MainIsOutermost,
       ControlInvariant, FreedIsEmpty
  <2>2. CASE DestroyStackThenRestore
    <3>1. Len(frames) = 1 /\ frames[1].kind = "subroutine" /\ frames[1].position = 0
      BY <2>2, OnlyMainIsLeft
    <3>2. 1 \in DOMAIN frames /\ Top(1) = m_idx
      BY <3>1 DEF Top, IInv, ScopesInvariant
    <3> QED  BY <3>1, <3>2 DEF IInv, ScopesInvariant, SubroutinesOwnNothing
  <2> QED  BY <2>1, <2>2
<1>3. live = {} /\ live' = {}
  BY <1>1, <1>2 DEF IInv, StackHoldsWhatLives
<1>4. OpenScopes' = OpenScopes
  BY <1>1, <1>2 DEF OpenScopes, Owned, Top
<1> QED  BY <1>1, <1>3, <1>4 DEF Scopes!End

\* Every step of the stack and the code is a step of ScopedLifetimes or none.
LEMMA StepRefines == IInv /\ IInv' /\ [Next]_vars => [Scopes!Next]_(Scopes!vars)
<1> SUFFICES ASSUME IInv, IInv', [Next]_vars PROVE [Scopes!Next]_(Scopes!vars)
  OBVIOUS
<1>d. DOMAIN OpenScopes = DOMAIN frames
  BY DEF OpenScopes
<1>1. CASE UNCHANGED vars
  BY <1>1 DEF vars, stack, Scopes!vars, OpenScopes, Owned, Top
<1>2. CASE \E kind \in {"subroutine", "loop"} : Enter(kind)
  BY <1>2, EnterRefines DEF Scopes!Next
<1>3. CASE \E item \in Items : StackAllocate(item)
  BY <1>3, StackAllocateRefines DEF Scopes!Next
<1>4. CASE LeaveLoop \/ Return \/ ReturnFromMain
  BY <1>d, <1>4, RestoringRefines DEF Scopes!Next
<1>5. CASE FallOffTheEnd \/ RestoreFreedStack
  BY <1>d, <1>5, EndingRefines DEF Scopes!Next
<1>6. CASE DestroyStack \/ DestroyStackThenRestore
  BY <1>6, DestroyRefines DEF Scopes!Next
<1> QED  BY <1>1, <1>2, <1>3, <1>4, <1>5, <1>6 DEF Next

(***************************************************************************)
(* The generated code's use of RuntimeStack.c implements ScopedLifetimes:  *)
(* every object lives exactly as long as the scope that allocated it, for  *)
(* any nesting of calls and loops and any way of leaving them, and the     *)
(* stack is freed only when it is empty.                                   *)
(***************************************************************************)
THEOREM StackImplementsScopes == Spec => ImplementsScopedLifetimes
<1> QED
  BY InitRefines, InvariantHolds, StepRefines, PTL DEF Spec, ImplementsScopedLifetimes, Scopes!Spec
=============================================================================
