---------------------------- MODULE RuntimeStack ----------------------------
(***************************************************************************)
(* The runtime stack (runtime/src/RuntimeStack.c) and the generated code   *)
(* that uses it (LLVMGen.cpp): a subroutine and an iterator loop save the  *)
(* stack position when they are entered; leaving the loop, or returning    *)
(* from anywhere in the subroutine, restores it, which destroys what was   *)
(* pushed since.  A call of the stack's interface is a step.  Whether an   *)
(* item is a Variable or a Type only selects its destructor.               *)
(***************************************************************************)
EXTENDS Integers, Sequences, FiniteSets

CONSTANTS
  Items,       \* the addresses malloc may return
  MainBodies,  \* the forms of main's body the program may have
  MaxFrames    \* bound on the nesting of subroutines and loops

ASSUME MainBodiesAssumption == MainBodies \subseteq {"block", "expression"}

ASSUME MaxFramesAssumption == MaxFrames \in Nat

NoItem == "no item"

ASSUME NoItemAssumption == NoItem \notin Items

VARIABLES
  m_stack,   \* the array, indexed from 0
  m_size,    \* its length
  m_idx,     \* how many of its slots are in use
  live,      \* the Variables and Types allocated by the stack and not destroyed
  freed,     \* the stack itself has been freed
  frames,    \* the positions saved by the scopes that are open, innermost last
  mainBody,  \* the form of main's body
  pc         \* what the generated code is doing

stack == <<m_stack, m_size, m_idx>>
vars == <<stack, live, freed, frames, mainBody, pc>>

(***************************************************************************)
(* RuntimeStack.c.                                                         *)
(***************************************************************************)
\* runtimeStackMallocThenInit; the slot is not initialised.
Init ==
  /\ m_stack = [i \in {0} |-> NoItem] /\ m_size = 1 /\ m_idx = 0
  /\ live = {}
  /\ freed = FALSE
  /\ frames = <<>>
  /\ mainBody \in MainBodies
  /\ pc = "running"

\* runtimeStackResize copies the slots in use to a new array.
Resized(newSize) ==
  [i \in 0 .. newSize - 1 |-> IF i < m_idx THEN m_stack[i] ELSE NoItem]

\* A slip: a full array is not extended before the last slot is taken.
runtimeStackPush_LateResize(item) ==
  /\ m_size' = IF m_idx > m_size THEN m_size * 2 ELSE m_size
  /\ m_stack' = [(IF m_idx > m_size THEN Resized(m_size * 2) ELSE m_stack)
                   EXCEPT ![m_idx] = item]
  /\ m_idx' = m_idx + 1

runtimeStackPush(item) ==
  /\ m_size' = IF m_idx >= m_size THEN m_size * 2 ELSE m_size
  /\ m_stack' = [(IF m_idx >= m_size THEN Resized(m_size * 2) ELSE m_stack)
                   EXCEPT ![m_idx] = item]
  /\ m_idx' = m_idx + 1

\* A slip: the item at the restored position is kept alive.
runtimeStackRestore_OffByOne(position) ==
  /\ m_idx' = position
  /\ live' = live \ {m_stack[i] : i \in position + 1 .. m_idx - 1}
  /\ UNCHANGED <<m_stack, m_size>>

\* Destroys the items from the top down to the position.
runtimeStackRestore(position) ==
  /\ m_idx' = position
  /\ live' = live \ {m_stack[i] : i \in position .. m_idx - 1}
  /\ UNCHANGED <<m_stack, m_size>>

(***************************************************************************)
(* The generated code.                                                     *)
(***************************************************************************)
\* runtimeStackSave, on entering a subroutine, main first, or an iterator loop;
\* an expression holds no loop.
Enter(kind) ==
  /\ pc = "running" /\ Len(frames) < MaxFrames
  /\ kind = "loop" => frames # <<>> /\ (mainBody = "expression" => Len(frames) > 1)
  /\ frames' = Append(frames, [kind |-> kind, position |-> m_idx])
  /\ UNCHANGED <<stack, live, freed, mainBody, pc>>

\* variableStackAllocate and typeStackAllocate, which only iterator loops call.
StackAllocate(item) ==
  /\ pc = "running" /\ frames # <<>> /\ frames[Len(frames)].kind = "loop"
  /\ item \notin live
  /\ runtimeStackPush(item)
  /\ live' = live \cup {item}
  /\ UNCHANGED <<freed, frames, mainBody, pc>>

\* The innermost open scope of the kind.
IsInnermost(d, kind) ==
  /\ d \in DOMAIN frames /\ frames[d].kind = kind
  /\ \A e \in d + 1 .. Len(frames) : frames[e].kind # kind

\* The position a scope restores has to be one the stack accepts.
Restorable(position) == position \in 0 .. m_idx

\* A slip: the loop restores the position its subroutine saved.
LeaveLoop_ToSubroutine ==
  /\ pc = "running" /\ frames # <<>> /\ frames[Len(frames)].kind = "loop"
  /\ \E d \in DOMAIN frames :
       IsInnermost(d, "subroutine") /\ runtimeStackRestore(frames[d].position)
  /\ frames' = SubSeq(frames, 1, Len(frames) - 1)
  /\ UNCHANGED <<freed, mainBody, pc>>

\* The merge block of an iterator loop.
LeaveLoop ==
  /\ pc = "running" /\ frames # <<>>
  /\ LET d == Len(frames) IN
     /\ frames[d].kind = "loop"
     /\ Restorable(frames[d].position)
     /\ runtimeStackRestore(frames[d].position)
     /\ frames' = SubSeq(frames, 1, d - 1)
  /\ UNCHANGED <<freed, mainBody, pc>>

\* A slip: a return leaves the stack to the caller.
Return_NotRestored ==
  /\ pc = "running"
  /\ \E d \in 2 .. Len(frames) :
       IsInnermost(d, "subroutine") /\ frames' = SubSeq(frames, 1, d - 1)
  /\ UNCHANGED <<stack, live, freed, mainBody, pc>>

\* A return, from however many loops of the subroutine.
Return ==
  /\ pc = "running"
  /\ \E d \in 2 .. Len(frames) :
       /\ IsInnermost(d, "subroutine")
       /\ Restorable(frames[d].position)
       /\ runtimeStackRestore(frames[d].position)
       /\ frames' = SubSeq(frames, 1, d - 1)
  /\ UNCHANGED <<freed, mainBody, pc>>

\* The end of a procedure's block: no position is restored.
FallOffTheEnd ==
  /\ pc = "running" /\ Len(frames) > 1
  /\ frames[Len(frames)].kind = "subroutine"
  /\ frames' = SubSeq(frames, 1, Len(frames) - 1)
  /\ UNCHANGED <<stack, live, freed, mainBody, pc>>

\* Scope 1 is main: no subroutine it called is still open.
InMain == frames # <<>> /\ \A d \in 2 .. Len(frames) : frames[d].kind = "loop"

\* The return of main's block restores the position saved by main ...
ReturnFromMain ==
  /\ pc = "running" /\ InMain /\ mainBody = "block"
  /\ Restorable(frames[1].position)
  /\ runtimeStackRestore(frames[1].position)
  /\ frames' = <<>>
  /\ pc' = "ending"
  /\ UNCHANGED <<freed, mainBody>>

\* ... and then frees the stack with the global variables.
DestroyStack ==
  /\ pc = "ending"
  /\ runtimeStackRestore(0)
  /\ freed' = TRUE
  /\ pc' = "ended"
  /\ UNCHANGED <<frames, mainBody>>

\* An expression body frees the stack first ...
DestroyStackThenRestore ==
  /\ pc = "running" /\ InMain /\ mainBody = "expression"
  /\ runtimeStackRestore(0)
  /\ freed' = TRUE
  /\ pc' = "restore after free"
  /\ UNCHANGED <<frames, mainBody>>

\* ... and then restores main's position in it.  What that does is undefined:
\* m_idx and m_stack are read from freed memory, and the model ends here.
RestoreFreedStack ==
  /\ pc = "restore after free"
  /\ frames' = <<>>
  /\ pc' = "used after free"
  /\ UNCHANGED <<stack, live, freed, mainBody>>

Next ==
  \/ \E kind \in {"subroutine", "loop"} : Enter(kind)
  \/ \E item \in Items : StackAllocate(item)
  \/ LeaveLoop \/ Return \/ FallOffTheEnd
  \/ ReturnFromMain \/ DestroyStack
  \/ DestroyStackThenRestore \/ RestoreFreedStack

Spec == Init /\ [][Next]_vars

(***************************************************************************)
(* Properties.                                                             *)
(***************************************************************************)
Frame == [kind : {"subroutine", "loop"}, position : Nat]

TypeOK ==
  /\ m_size \in Nat \ {0} /\ m_idx \in 0 .. m_size
  /\ m_stack \in [0 .. m_size - 1 -> Items \cup {NoItem}]
  /\ live \subseteq Items
  /\ freed \in BOOLEAN
  /\ frames \in Seq(Frame)
  /\ mainBody \in MainBodies
  /\ pc \in {"running", "ending", "ended", "restore after free", "used after free"}

\* The slots in use hold the objects that exist, each of them once: growing
\* the array loses none, and none is left behind or destroyed twice.
StackHoldsWhatLives ==
  /\ live = {m_stack[i] : i \in 0 .. m_idx - 1}
  /\ \A i, j \in 0 .. m_idx - 1 : m_stack[i] = m_stack[j] => i = j

\* Every position an open scope may still restore is one the stack accepts,
\* and an inner scope's is not below an outer one's: "Attempt to restore stack
\* to a invalid position!" is never reached.
SavedPositionsAreValid ==
  /\ \A d \in DOMAIN frames : frames[d].position <= m_idx
  /\ \A d, e \in DOMAIN frames : d <= e => frames[d].position <= frames[e].position

\* The slots of scope d are those from its position up to its top: what it
\* allocated and still owns.
Top(d) == IF d = Len(frames) THEN m_idx ELSE frames[d + 1].position
Owned(d) == {m_stack[i] : i \in frames[d].position .. Top(d) - 1}

OpenScopes == [d \in DOMAIN frames |-> [kind |-> frames[d].kind, owned |-> Owned(d)]]

\* The stack gives each object exactly the lifetime of its scope, although a
\* return leaves any number of loops at once and a procedure without a return
\* statement restores nothing.
Scopes == INSTANCE ScopedLifetimes WITH
  scopes <- OpenScopes,
  alive  <- live,
  ended  <- freed

ImplementsScopedLifetimes == Scopes!Spec

\* "program end: runtimeStackDestructThenFree(stack)": the stack is not used
\* after it has been freed.
StackIsNotUsedAfterFree == pc # "used after free"
=============================================================================
