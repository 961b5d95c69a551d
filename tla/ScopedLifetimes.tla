--------------------------- MODULE ScopedLifetimes ---------------------------
(***************************************************************************)
(* What the runtime stack is for: an object that the generated code        *)
(* allocates in a scope lives until that scope is left, whichever way it   *)
(* is left, and no longer.  There is no stack here, only the scopes that   *)
(* are open and the objects each of them owns.                             *)
(***************************************************************************)
EXTENDS Integers, Sequences

CONSTANT Items   \* the objects, named by their addresses

VARIABLES
  scopes,  \* the open scopes, innermost last: what each is, what it owns
  alive,   \* the objects that exist
  ended    \* the program has released everything

vars == <<scopes, alive, ended>>

Init == scopes = <<>> /\ alive = {} /\ ended = FALSE

Enter(kind) ==
  /\ ~ended
  /\ scopes' = Append(scopes, [kind |-> kind, owned |-> {}])
  /\ UNCHANGED <<alive, ended>>

Allocate(item) ==
  /\ scopes # <<>> /\ item \in Items \ alive
  /\ scopes' = [scopes EXCEPT ![Len(scopes)].owned = @ \cup {item}]
  /\ alive' = alive \cup {item}
  /\ UNCHANGED ended

\* Leave scope d and those inside it; d is the innermost scope of its kind.
Leave(d) ==
  /\ d \in DOMAIN scopes
  /\ \A e \in d + 1 .. Len(scopes) : scopes[e].kind # scopes[d].kind
  /\ scopes' = SubSeq(scopes, 1, d - 1)
  /\ alive' = alive \ UNION {scopes[e].owned : e \in d .. Len(scopes)}
  /\ UNCHANGED ended

\* The program releases everything only when nothing is left to release.
End == ~ended /\ alive = {} /\ ended' = TRUE /\ UNCHANGED <<scopes, alive>>

Next ==
  \/ \E kind \in {"subroutine", "loop"} : Enter(kind)
  \/ \E item \in Items : Allocate(item)
  \/ \E d \in DOMAIN scopes : Leave(d)
  \/ End

Spec == Init /\ [][Next]_vars
=============================================================================
