--------------------------- MODULE MCSymbolTables ---------------------------
(***************************************************************************)
(* Small programs for SymbolTables.                                        *)
(***************************************************************************)
EXTENDS SymbolTables, TLC

\* Two names are enough for a parameter, a domain and a variable to meet.
CONSTANTS x, y

UpToTwo == {<<>>, <<x>>, <<y, x>>}

Shape(n, kinds) == (all :> n) @@ kinds @@ [k \in Kinds |-> 0]

\* Each shape is about one part of the walks.
Variables == Shape(6, [subroutine |-> 1, var |-> 2, use |-> 1, block |-> 1, close |-> 2])
Headers == Shape(6, [subroutine |-> 1, var |-> 1, use |-> 1, iterator |-> 1, close |-> 2])
Generators == Shape(5, [subroutine |-> 1, var |-> 1, iterator |-> 1, generator |-> 1, close |-> 2])
Prototypes == Shape(5, [subroutine |-> 2, var |-> 1, use |-> 1, close |-> 1])
Calls == Shape(7, [subroutine |-> 3, call |-> 1, close |-> 2])
Nesting == Shape(8, [subroutine |-> 1, loop |-> 1, conditional |-> 1, return |-> 1, break |-> 1, close |-> 3])
Loops == Shape(6, [subroutine |-> 1, iterator |-> 2, break |-> 1, close |-> 3])
Types == Shape(5, [subroutine |-> 1, typedef |-> 3, close |-> 1])

SmallPrograms == {Variables, Headers, Generators, Prototypes, Calls, Nesting, Loops, Types}
=============================================================================
