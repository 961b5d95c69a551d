# Verification of the Gazprea compiler and its runtime

The repository holds a compiler for the Gazprea language: `gazc` (C++, ANTLR, LLVM)
translates a program to LLVM IR, and `gazrt` (C) is the runtime the generated code
is linked with. This directory holds TLA+ models of the parts of both that are
governed by control rather than by formatting, the TLC configurations that check
them, and proofs that the TLA+ proof system checks.

Paths below are relative to the root of the repository.

## The system

```
 source --ASTBuilder--> AST --DefWalk/RefWalk--> scopes, symbols
        --TypeWalk/TypePromote--> typed AST --LLVMGen--> LLVM IR
 LLVM IR + gazrt: generated code calls runtime functions on Variable, Type,
 NDArray, Literal and RuntimeStack objects, and on the input and output streams.
```

Everything is sequential: one process, no threads, no callbacks, nothing persisted.
What makes the code hard is not interleaving but *protocol*: which helper frees what
on which path, what a stack contains when a jump is compiled, what a buffer still
holds when a read is undone, what a reference denotes after it has been indexed again.

| Component | Where | State | Operations | Interacts with | What makes it correct |
|---|---|---|---|---|---|
| Input stream | `runtime/src/VariableStdio.c` 258-588 | circular buffer with three positions, token buffer, stream state | read integer, real, boolean, character; rewind | generated code, `stream_state()` | a failed read consumes nothing, a successful one exactly its token; reads end; buffers never overflow |
| Token scanners | same, 377-576 | local | integer, real, boolean conversion | input stream | accept the language's literals, with the right value and range |
| Output stream | same, 81-256 | none | print by type | variables | formatting only |
| Runtime stack | `runtime/src/RuntimeStack.c` | array of items, size, index | push with resize, save, restore, free | generated code (subroutines, iterator loops) | each object lives exactly as long as its scope |
| Control flow code generation | `src/codegen/LLVMGen.cpp`, `LLVMIRBranch.cpp` | block stack, "hit return" flag, builder position, scopes | visit blocks, conditionals, loops, break, continue, return | scopes, runtime stack, variables | the function is well formed; every path releases each variable and stack item once |
| Expression, call, generator, filter code generation | rest of `LLVMGen.cpp`, `LLVMIRFunction.cpp` | `llvmValue` of each node, `numExprAncestors`, types borrowed from the caller's arguments | emit runtime calls | runtime | every temporary, type and array released once, nothing used after its release |
| Scopes and symbols | `src/scopes/*`, `src/symbols/*` | maps from names to symbols, enclosing scope | define, resolve | walks, code generation | the innermost definition wins |
| AST walks | `src/ast/*`, `src/types/TypePromote.cpp` | annotations on AST nodes | DefWalk, RefWalk, TypeWalk, TypePromote | symbols | uses refer to the definitions in scope; static types are those of the values computed |
| Arrays and references | `runtime/src/NDArrayVariable.c` | data pointer, shared reference count, index variables | init, copy, index (of a value or of a reference), dereference, destruct | variables | a reference of a reference denotes what indexing twice denotes; data freed once |
| Array elements | `runtime/src/NDArray.c` | none | element operations, promotion, exponentiation, resize | arrays | arithmetic per the language, at the bounds too |
| Variables | `runtime/src/RuntimeVariables.c` | type, data, parent, field position, block scope flag | initialise, promote, cast, operate, alias check, assign, replace | all of the runtime | conversions per the language; assignment leaves no dangling parent |
| Runtime types | `runtime/src/RuntimeTypes.c` | type trees | construct, compare, interval arithmetic, tuple fields | variables | intervals stay ordered; types own their parts |
| Literals | `runtime/src/Literal.c` | none | vector, matrix, tuple literals, generators, filters | variables, generated code | rows padded to the longest; filters partition |
| Errors, built-ins, enums | `runtime/src/` | none | stop with a message, length, reverse, ... | runtime | - |
| Driver, grammar, tests, build | `src/main.cpp`, `grammar/`, `tests/`, `CMakeLists.txt` | none | run the passes in order | all | - |

`PROJECT.json` lists every component with its status, and, under `hazards`, the
places where this code can go wrong in a way a test would hardly reach.

## The modules

| Module | Models | Kind |
|---|---|---|
| `StdinTokens` | the integer, real and boolean scanners | operators |
| `TokenGrammars` | what the scanners ought to accept, as grammars over whole tokens | reference definitions, one token at a time |
| `AbstractInput` | what the input stream promises, without buffers | abstract specification |
| `InputStream` | the circular buffer and the reads, one loop iteration a step | detailed specification, refines `AbstractInput` |
| `ControlFlowCodegen` | the generator's visits of statements and the code they emit | specification |
| `ScopedLifetimes` | what the runtime stack is for, without a stack | abstract specification |
| `RuntimeStack` | the stack and the generated code that uses it | detailed specification, refines `ScopedLifetimes` |
| `ArrayReferences` | arrays, shared data, indexing, assignment | specification |
| `SymbolTables` | scopes, symbols, the definition walk and the reference walk | specification |
| `ExpressionCodegen` | the calls emitted for expressions and straight-line statements, and a machine that runs them | specification |
| `StaticTypes` | type ids, promotion tables, the rules of `TypeWalk` | operators |
| `RuntimeValues` | conversions, operators, literals and indexing of the runtime, by types and lengths | operators |
| `Typing` | an expression typed by `StaticTypes` and computed by `RuntimeValues`, and a variable it is assigned to | specification, composes the two |
| `InputStreamProofs` | theorems about `InputStream`: its invariants, then the refinement | proofs |
| `ControlFlowProofs` | theorems about `ControlFlowCodegen`: the IR builder, the scopes, the steps | proofs |
| `SymbolTablesProofs`, `SymbolResolution` | theorems about `SymbolTables`: the scopes and the counters, then what names resolve to and which programs are accepted | proofs |
| `RuntimeStackProofs`, `ArrayReferencesProofs` | theorems about `RuntimeStack` and `ArrayReferences` | proofs |
| `TypingProofs` | theorems about the values in `Typing` and the operators of `RuntimeValues` | proofs |
| `TypingSoundness` | theorems about types and values in `Typing`: the two sides agree | proofs |
| `MCInputStream`, `MCArrayReferences`, `MCSymbolTables`, `MCExpressionCodegen`, `MCTyping` | inputs for TLC | model checking |

In the modules an operator whose name ends in `_` and a word (`Rewind_NotMoved`,
`Popped_OneLeft`, `Marked_Slip`, ...) is a *slip*: the neighbouring definition with one plausible
mistake in it. It is used by no specification; `PROJECT.json` pairs each with the
property that notices it.

### Input: StdinTokens, TokenGrammars, AbstractInput, InputStream

`InputStream` keeps the C variables: `circular_buffer`, `token_buffer`, `result_token_length`,
`last_successful_read` (the rewind point), `cur_pos`, `valid_until`, and the local `n` as
`collected`; `pc` says which
loop of `readNextToken` runs, `result` is what it returned. `token_buffer` and
`result_token_length` stay as they are when a read begins: the bytes of the last token are
overwritten one by one, and the length is set where `readNextToken` returns, on the two early
ways out to zero (`ReturnToken`), without which the end of the input would be answered from the token
before. `AdvanceStream` is
`readNextChar` with its three branches, `Begin`, `SkipSpace` and `CollectByte` are
`readNextToken`, and `EndOfInput`, `TooLong`, `RejectToken`, `AcceptToken` are the four ends that
the three conversions share. The two ways the program can stop ("toolong" and
"overrun", `errorAndExit`) are values of `pc`. `consumed` is a history variable.

Bytes are classes: `"ws"` is white space, a digit or a letter stands for itself or for
the characters scanned like it, and `"xff"` is the byte 0xFF, which the replay branch
of `readNextChar` turns into `EOF` because `char` is signed there: a byte 0xFF that was
looked at by a failed read comes back as the end of the input (`VariableStdio.c:329`), and the
contract does not hold for it. The runs read inputs without it. `IntMax` stands for
`INT32_MAX`; the runs scale it down to a two-digit number so that tokens of a few bytes
cross both bounds. The value of a real is not modelled, only which tokens are one. The
scanner accepts an integer token as a real: a comment in `readRealFromStdin` wants
an `e` or a `.` (`VariableStdio.c:454`), but the flag it keeps for that is set and never read.
`RealIsGrammar` compares the tokens that have one of the two with the grammar of reals, and
asks of the others only that what is accepted is digits after an optional sign: it does not claim
that they are reals, and if the flag were obeyed it would hold as well.
The run scans tokens beside the stream: from the initial state on an empty input `tok` grows byte by
byte, and the stream is read only while there is no such token (`MCSpec`).

`AbstractInput` is the contract: there is only the input, a consumed prefix and the last
reply. `ImplementsAbstractInput` is the refinement, with `Lookahead` being
`BUFFER_SIZE - 1`.

### Code generation: ControlFlowCodegen

The program is chosen statement by statement while the generator visits it, so one run
covers every program up to its bounds. `ir` holds the basic blocks emitted so far, where
the `IRBuilder` stands, and *abstractly executes* the emitted code: every block has the
set of states (`live` variables, `height` of the runtime stack) that control can enter it
with, and `ir.paths` the ones at the insert point. An instruction after a terminator, a
second free, a leak at a return, or a null block used is recorded in `faults`. `blockStack` and
`hitReturnStat` are the generator's own; `open` holds the scopes that the AST's
`LocalScope`s stand for, with what each visit keeps in local variables (`own`, `residual`,
`height`).

Left out: expressions and their temporaries, generators and filters, variable initialisers;
statements after a `return` in the same block (the generator emits them behind a
terminator); more than one declaration in a scope (they are freed together). The
parameters of a subroutine count as one variable, and the items an iterator loop
allocates on the runtime stack as one item.

### Run time: ScopedLifetimes, RuntimeStack

`RuntimeStack` joins the C array (`m_stack`, `m_size`, `m_idx`) with the code that
`LLVMGen` emits around it: `Enter` saves a position, `LeaveLoop`, `Return` and
`ReturnFromMain` restore one, `FallOffTheEnd` (a procedure that ends without a return
statement) restores none. `main` has two forms, a block and a single expression; the code
for them ends differently. Whether an item is a Variable or a Type only selects its
destructor, so items are not told apart. The generated code allocates on the stack only
for iterator loops; the model lets it do so at any moment while a loop is the innermost
scope, which allows more than the code does. (The protocol that `RuntimeStack.h` describes,
save and restore for blocks and other loops too, is not what the generator emits.) Once
freed memory has been read the model stops: what follows is undefined.

`ScopedLifetimes` says what all of this is for: an object is owned by the scope that
allocated it, and lives until that scope is left, in whichever way.

Left out: subroutines called by the initialisers of global variables, before main saves
its position, and a main that ends without a return statement.

### Arrays: ArrayReferences

`var` holds the `Variable` objects: `kind` is `variableGetIndexRefTypeID`, `self` the data that
`vars[0]` of a reference (or the array itself) points to, `rows` and `cols` the index variables
`vars[1]` and `vars[2]`. `block` holds the data with its dimensions and its `m_refCount`; a
block with count 0 is free. Each action is one call of the interface: the initialisers
(`InitArray`, `InitFromCopy`, the indexing actions), `Destruct` and `Assign`. They are
called in any order, which allows more than the generated code does; the code's own
order is one of them. `InitFromVectorIndexing` has one disjunct for each kind of variable
that is indexed, as `variableInitFromArrayIndexingHelper` has. `errorAndExit` is
`status = "stopped"`.

`denotes` is a history variable: it records, at the time of the indexing call, the elements of
the array that the index picks out of those that the indexed variable stands for then.
`ReferencesCompose` compares it with the elements that the getters reach later through the
merged indices. It is about references by one or two indices; what `a[a]` stands for changes with the data, so
such a reference is only pinned down at the moment it is indexed again.

Left out: elements other than integers, the empty literal `[]`, mixed literals of two
dimensions, sizes still unknown, `m_parent` and `m_fieldPos` (they serve
`variableAliasWith`, which the generated code does not call). After a reference has been indexed by itself
the model ends: `variableInitFromArrayIndexingHelper` tests for self indexing before it tests
for a reference (`NDArrayVariable.c:403`), so `vars[0]` becomes a reference itself, which
`NDArrayVariable.h:23` excludes, and reading it is undefined.

### Names: SymbolTables

The program is chosen node by node while `DefWalk` visits it and kept in `program`;
`RefWalk` then reads it again from there. `pass` is the walk at work or the outcome
("accepted", "rejected", "crashed"), `at` the node `RefWalk` is at. `scopes` holds what
`LocalScope` and `GlobalScope` hold: the enclosing scope, the symbols by name, and the
marks that `LLVMGen` reads later (`parentIsLoop`, `parentIsConditional`,
`containReturn`). `subroutines` are the `SubroutineSymbol`s with their two counters and
`orderedArgs`; `resolved` is the symbol each identifier was given. A symbol is named by
the node that made it.

A program has one statement a line unless the model puts it on the line before, because
`RefWalk` decides use before definition by comparing line numbers. Where that is not
what lexical scoping says, `UsesResolveLexically` names the case: a name may mean a
namesake that follows on the same line, or the subroutine may be `Misdeclared`. Nothing
compares the parameters of two declarations, and `RefWalk.cpp:99` keeps the second half of
all of them: in the body of the second declaration a name may be taken for a parameter of the
first if that one has more, and parameters of the second are lost if the first has two less.
`WellFormed` leaves such programs out. Other consequences the model shows, and that `WellFormed` therefore leaves out: a use is rejected
when a later declaration in the same scope shadows an outer one; two domains of one loop, or two
parameters, may share a name; the initialiser of a variable may name the variable
itself; a typedef of a typedef that comes later dereferences a null pointer
(`TypedefTypeSymbol.cpp:13`). `RefWalk.cpp:107` and `:113` compare a name with
"main" that is "gazprea.subroutine.main" by then, so those two errors are never reported.
An identifier without a symbol is an error of `TypeWalk`, where `TypeWalk` comes to it: it does not visit the
ends of an interval (`TypeWalk.cpp:670`), the target of an input statement (`:726`) or a declaration without
an initialiser (`:118`). A node of the model does not say where in it an identifier stands, so
`TypeWalkIdentifiers` may reject or accept a program that has one without a symbol.
`hasMainProcedure` (`DefWalk.h:21`) is not initialised: in a program without main the test of
`main.cpp:62` may go either way, and so it does in the model.

Left out: tuple types as scopes and the access to fields, return types and the check
for a missing return, subroutines whose body is an expression, functions as opposed to procedures.

### Code generation: ExpressionCodegen

The body of one subroutine is chosen node by node in the order in which `LLVMGen` visits it.
`frames` are the visits that have not finished, each with the values its children were given;
every step appends runtime calls to `code`. When the subroutine is complete, `machine`
runs the code: `heap` holds variables, types and arrays, each alive or freed, and `fault`
the first use of one that is not alive. Calls are known by what they do to objects:
make one, use one, free one, hand one over (`variableArraySet`, `variableSwapType`). Generators and
filters are loops in `code`; the machine takes each for any number of turns up to `MaxTurns`.

`main` initialises the globals first and frees them last. A subroutine that is not main gets its
arguments from a caller whose objects are the first of the heap; var parameters are used in
place with the parameter's type swapped in, const ones are copied. `oldParameterTypes` is read by the
position of the parameter but filled for var parameters only, so after a const parameter the entry is
another one's, or is read past the end of the vector: there the model has a choice between null and a pointer
to nothing. `TypesAreGivenBack` is therefore true only of subroutines whose var parameters come before
their const ones, which is what `MCHeaders` has; the run `expressions_parameters` has a header of the other
kind (`MCConstFirst`), where it fails (finding 4).

What is known to be given up is marked and not counted as a leak: the tuple of an access to a
temporary, and the target of an input statement that is a temporary. Left out: the runtime stack
of iterator loops (`RuntimeStack`), control flow (`ControlFlowCodegen`), a variable in its
own initialiser, the size of a parameter's type given by another parameter (its `llvmValue` is
null), callees that return nothing used as expressions, and a main without a return statement. The
declared type of a global is ignored by the code, and therefore by the model.

### Types: StaticTypes, RuntimeValues, Typing

`StaticTypes` has the tables of `TypePromote.cpp`, written as the rule their entries
follow, and the visits of `TypeWalk` as operators from types to a type. `RuntimeValues` has
the runtime's rules as operators from values to a value or a reason to stop. A value is
what the rules look at: kind, element type, lengths, the element types of a literal not
yet converted, the fields of a tuple. Both keep the code's undefined cases: a table read outside its rows
(`Wild`), an operand taken for a tuple (the reasons that begin with `undefined:`), and `missingReturn`, the answer of
`elementCanBePromotedFrom` where it falls off its end (`NDArray.c:97`), chosen once since a
build gives one answer.

`Typing` applies one form at a time to `node` (a literal, an operator, a cast, an
index, a field) and computes type and value side by side; `x` is a variable declared from `node`, assigned to and
read. An error of either side ends the run in `fault`. The other operand of
an operator is a constant, and once `x` is declared it is `x`, which keeps the instance small.

The walk has blind spots, where its type is known to be off; `BlindSpot` and its neighbours
name them, and nothing is built on such an expression: the ids of matrices are given vector
types (`SymbolTable.cpp:54`), a comparison with null has the other operand's type, the base of a
literal is taken from rows of other kinds or without elements, a vector indexed by something that is no integer is
typed as a scalar, range operands are not visited, the dot product has no type. The tables
accept what the runtime stops at (`TablesAcceptMore`): an array of integers where reals
are wanted (`RuntimeVariables.c:280` converts scalars and mixed literals only), `==` on characters, arrays of
different dimensions.

Left out: the values of elements and what depends on them (division by zero, bounds
of an index, a step), interval end points, references, streams, filters and the domains of generators,
tuples with array fields, `x[x]`, and operators on null inside declarations and returns.
`promoteToType` is filled in by the walk and read by no later pass.

## The runs

| Run | What it checks | Bounds, and why they are enough |
|---|---|---|
| `input_stream` | window, overrun, rewind, refinement, termination; `IntegerIsExact`, `RealIsGrammar`: the scanners against the grammars, for reals on tokens with an `e` or a `.` | a 4-byte buffer wraps on 6-byte inputs, and white space and token together can be too long for it; all 6-byte inputs, all sequences of reads. For the scanners every token of up to 5 bytes over 9 byte classes: a real literal with every optional part (sign, digit, point, exponent mark, exponent digit) fits, and integers cross the scaled range on both sides |
| `control_flow` | well-formed functions, jumps, releases | every program of up to 4 statements, all statement kinds, up to 2 else-ifs and 2 domains; jumps, loops and conditionals nest in every pair and triple |
| `control_flow_domains` | violation, finding 1 | 4 statements |
| `runtime_stack` | the array, the saved positions, the refinement | 4 objects (the array is resized at 1, 2 and 4), 5 nested scopes, both forms of main |
| `runtime_stack_main` | violation, finding 2 | 1 object, 2 scopes |
| `array_references` | counts, merging, dimensions, writes | 2 variables, 3 blocks (so that allocation never fails), a vector and a 2 by 2 matrix, an interval, four indices: scalar, permutation, short vector, out of range. Two variables reach every chain of references, because a variable can be destroyed and reused while its data is held by the other |
| `array_references_matrix` | violation, finding 3 | 3 variables |
| `symbol_tables` | names, parameters, calls, marks, typedefs, and that well-formed programs pass | eight shapes of program of 5 to 8 nodes, each about one part of the walks; lists of up to two parameters, so that a second declaration may have as many as the first, fewer, or two more; headers of one or two domains; bodies nest 3 deep (a subroutine, a loop, a block in it); two names are enough for a parameter, a domain and a variable to meet, two subroutines for a call before and after a declaration, three typedefs for a chain |
| `expressions` | uses, leaks and, for var parameters before const ones, the types of arguments | 4 nodes in a first statement and one less in the next, 2 statements, loops of 0 to 2 turns; five subroutines: main, and others with var and const parameters of scalar, array and tuple type, with and without a return type, with a block or an expression as body. Four nodes put every kind of expression under every other and beside a sibling; two turns show what one leaves for the next |
| `expressions_parameters` | violation, finding 4 | a const scalar, a var tuple and a var scalar; no statement is needed |
| `expressions_globals` | violation, finding 5 | 2 globals, 3 nodes |
| `typing` | static against runtime types, tuples, assignment | eight constants, eight operators (at least one for each table and each family of rules) beside concatenation, ranges, indexing, casts and the others that are actions of their own, lengths up to 2, thirteen declared types: sizes known and unknown, strings, intervals, tuples |

In `array_references` a reference to a matrix is not indexed as a matrix again
(`MatrixOfMatrix = FALSE`): finding 3 breaks `ReferencesCompose` there. Variables and blocks
are interchangeable, so both are symmetry sets. With three variables the state space is too large
for a run of minutes; the count is proved for any number of them.

In `expressions` no global is initialised by another (`GlobalsFromIdentifiers = FALSE`): finding 5
breaks the properties there.

In `control_flow` a loop of several domains appears outside other loops only
(`NestedDomains = FALSE`): inside one, finding 1 breaks the properties. `JumpsStayInTheirLoop`
says that a `continue` goes to the first block of its own loop. In three kinds of loop that is where
the next iteration starts; in a post-predicated loop it is the body, which then runs again without
the condition being tested. The property holds of what the code does there and does not call it right.

Deadlock is not checked where the program may stop: `main` returns, the generator
reaches the end of the subroutine, the compiler has accepted or rejected the program,
the code has run, an expression has failed, a token is too long for the buffer or has the
length tried.

Fairness is assumed in `InputStream` only: weak fairness of `SkipSpace`, `CollectByte` and
`Convert`, because a read that has begun is straight sequential code that nothing
interrupts. Nothing is assumed of the program's wish to read: `Begin` and `ReadCharacter`
have no fairness.

## Findings

1. `LLVMGen.cpp:1091`: an iterator loop of *n* domains pushes *3n* blocks and pops 3. Inside
   another loop, that loop's later `break`, `continue` and end use the stale blocks.
2. `LLVMGen.cpp:285`: a `main` with an expression body frees the runtime stack and then
   restores a position in it.
3. `NDArrayVariable.c:539`: indexing a reference to a matrix by rows and columns merges the column
   index with that of the rows, and takes two dimensions from an array of one.
4. `LLVMGen.cpp:2390`: a tuple passed to a var parameter that stands after a const one does not get its
   type back, or gets it back through another parameter's entry, because the old types are kept for var
   parameters only and looked up by the position among all of them.
5. `LLVMGen.cpp:2326`: a global initialised by another global gets its pointer, and the object
   is freed twice when main ends.

Observed while modelling and kept in the models as the code has it, without a run of
their own:

- `VariableStdio.c:454` says that "a float must have 'e' or '.' to be valid float"; a token of
  digits alone is read as a real, since the flag set at 466, 485, 492 and 507 is read nowhere.
- `LLVMGen.cpp:875`: `continue` in a post-predicated loop goes to the body, without a test of the
  condition, although the order is "body -> condition -> merge" (`LLVMIRBranch.cpp:65`) and
  `visitContinue` calls the block `loopHeader`.
- The replay of the byte 0xFF, references indexed by themselves, and the cases listed under
  *Names* and *Types* above.

## What is proved

Every theorem is about all values of the constants that the named assumptions of its module
allow; hypotheses beyond these are said here, and stand in the theorem. The induction that
the proofs of operators need (on positions, domains, the elements written) goes through
sets of numbers and their well-foundedness (`IntervalInduction`, `LeastNumber`).

`InputStreamProofs` (every buffer size from 2 up, every input, every choice of reads):
`InvariantHolds`, and from it `TypeCorrect`, `WindowIsFaithful`, `OverrunIsDead` and
`ReadsReturnRewound`. The inductive invariant adds `TokenInReach` to the checked ones: the token
collected so far is no longer than the distance from the rewind point to the reader, so
that the full-buffer test bounds the token buffer too. The arithmetic of positions modulo
the buffer size is done once, in lemmas without a modulus (`DistanceCases`, `SlotCases`).

Then `InputImplementsAbstract`: the reader implements `AbstractInput`. The
hypothesis `NoEofByte` leaves out inputs with the byte 0xFF, for which it is false. The
invariant of the reader is strengthened by `ScanInv`, which says what the read under way has
found in terms of the input: of the bytes after the consumed ones first white space, then the
token, which is what `token_buffer` holds, and why a loop ended (`StoppedBecause`). With it
`readNextChar` is shown to return the next byte of the input, fetched or replayed, and each of
the steps that end a read to be the abstract read; every other step is a stutter.

`ControlFlowProofs` (programs of any length and nesting, any number of else-ifs and domains):
`InvariantHolds`, `TypesHold`, `JumpsStay`, `LiveObjectsAreLexical`, `PathsMeetAlike`,
`CodeIsSound` and `FunctionsAreWellFormed`. The hypothesis is `NestedDomains = FALSE`: a loop of several
domains inside another loop leaves blocks behind that the outer loop then takes for its own
(finding 1). The checked properties say nothing of blocks that are still to be filled. The
inductive invariant says that there are expectations, `want`, of at most one state for each block, such
that control enters a block in the expected state only; that each open scope's blocks are its own and
expect the state its body begins in (`Fits`), and which of them wait to be put in the function or
to be filled (`Detached`, `Begun`); and that the block stack holds the blocks of every open loop under
exactly three for each loop inside it (`OnStack`), so that the distance from the top at which `break` and `continue`
look finds their loop. The module proves the effect of each builder operation once, then what
entering and leaving a scope takes, and has one lemma for each visit.

`RuntimeStackProofs` (any set of objects, any nesting, both forms of main):
`InvariantHolds`, `TypeCorrect`, `StackIsExact` (the array holds the objects that live, each once,
across resizing), `RestoresAreValid` (the runtime error for an invalid position is dead
code), and `StackImplementsScopes`: the detailed specification implements
`ScopedLifetimes`. The inductive invariant strengthens the checked properties by three
facts: saved positions are ordered from the outermost scope inward; a subroutine scope owns
nothing at its own level, because only loops allocate, which is why a procedure may end without
restoring; main is the outermost scope and the stack is empty once freed. The refinement needs that every
slot in use belongs to exactly one scope, a least-element argument over positions
(`LeastNumber`, `SlotHasOwner`).

`ArrayReferencesProofs` (any number of variables and blocks, any arrays and indices):
`CountIsExact`, the count of shared data is the number of variables and references that
hold it, with references to matrices indexed in every way. The inductive invariant adds only the shape of the records
and that an uninitialised variable holds nothing. All
steps are instances of one lemma, `Rebinding`: one variable changes what it holds, and the counts of the
old and the new block follow. That an assignment takes a block different from the target's uses
that the target is one of its holders.

The same module proves, as long as references to matrices are not indexed as matrices
(`MatrixOfMatrix = FALSE`; finding 3 refutes it otherwise), `TypesHold`, `IndicesCompose`, `DataFits` and
the action property `WritesAreReferred`. `ReferencesCompose` compares elements that are looked up in
memory, and memory changes; the inductive invariant `References` replaces them by what the indices
reach in data of a given length (`Reached`: a line of places, or a grid), which no
write disturbs. Indexing again is then a fact about lines and grids (`PickedLine`,
`PickedColumn`, `PickedRow`, `PickedGrid`), with the arithmetic of rows and columns in `RowAndColumn`
and `PlaceInMatrix`. A write through a reference is a chain of single writes (`WrittenUnfolds`), each of
which keeps the length and goes to an element that the reference stands for, whatever the
data was by then (`WrittenEffect`).

`SymbolTablesProofs` (programs of any length and depth, any names, parameter lists and domains):
`TypesHold`, `CallsHaveBodies`, `TypedefsEnd` and `MarksAreRight`. The inductive invariant says
what the open nodes are in the text alone (`StackOK`: the k-th is at depth k - 1, and all that follows
it is deeper), and that there is an `m` that gives each body a scope of its own (`Placed`),
such that leaving a body finds, by one step outward or two, the scope of the body around it, and
a scope is marked for a body that has been left and is `m` of it (`Marks`). At the end all bodies
have been left, and `m` is a bijection between the loops of the text and the scopes marked as
theirs, so that the numbers agree (`NestingMarked`). `CountersOK` ties the two counters of a subroutine to its
declarations in the text, through the first walk's additions and the second's subtraction;
`SeenOK` says the same of the nodes that the second walk has let pass. That typedefs end needs
that a chain has at most one link, which `resolveTargetType` restores before each new
typedef (`Resolvable`, `TargetEnds`). `Depths`, `Resolve` and `Target` are recursive functions: their
unfolding is proved from the sets of numbers on which they are defined.

`SymbolResolution` (the same generality): `NamesResolveLexically`, `ParametersAreGiven` and
`WellFormedProgramsPass`. Resolution and the reference
`Meaning` read different things: the first the tables as `DefWalk` left them, with every declaration of
the program in them, the second the text up to the use. The inductive invariant `NInv` ties them: each body has a scope whose table holds exactly
what the text declares in that body, one name at most once (`Holds`); the scope around it is that of the
body around it, or holds the names of its header (`Outside`, `Heads`); each identifier is kept with
the scope of the body it is in, or of its own header (`Located`); lines do not decrease
(`LinesOK`), so that a declaration `RefWalk` lets pass comes before the use or on its line; the
parameters of a subroutine are those of its declarations in order, twice until `RefWalk` is done with the
first and the second half afterwards (`ArgsOK`), and are named only once `RefWalk` is past
them (`NamedOK`); and what has been resolved is right (`ResolvedOK`). The walk
outward through the scopes is then followed body by body against `Meaning`, by induction
on the bodies (`MeaningUnfolds`). The two exceptions of the property come out where the
proof needs them: a declaration further down on the same line, and the half of two parameter lists of different
length.

`ParametersAreGiven` and `WellFormedProgramsPass`, in the same module, need a second invariant, `WInv`, which holds
with the first. It says what the walks' decisions mean in the text: a subroutine with a body in the
text was counted as defined (`BodiesCounted`), a name in the table of typedefs is that of a typedef
(`TypedefsDeclared`), one that `RefWalk` has passed has its target unless the target comes later
(`TypedefsTaken`), `main` in the text has set the flag (`MainOK`), all that was opened is closed when `DefWalk`
ends (`ClosedOK`), and no identifier is skipped (`AllResolved`). For
`WellFormedProgramsPass`, each place where a walk throws, or crashes, is shown to have found one of ten flaws in
the text (`Flawed`), each of which `WellFormed` excludes (`FlawsShow`) and none of which is lost
in the step (`FlawsStay`). For `ParametersAreGiven`, the meaning of the name is located in the header of
the last declaration (`MeaningIsKnown`, `OneSubroutineAround`), whose symbols are the half that `RefWalk` keeps
(`KeptParameters`).

`TypingProofs` (any lengths, any constants, operators and declared types that `Typing`'s assumptions
allow: operators the language has, types that can be written): `TypingTypeOK`, and the action property
`AVariableKeepsItsType`: an assignment leaves the variable its kind, element type, dimensions and
fields. The inductive invariant `TypingInv` says what values there can be (`Value`: a flat array with an element
type and dimensions, an interval, a tuple of these, the empty literal, or a mixed literal with as many
items as its dimensions say), and that `x` is none of the last two (`Settled`). Most of the proof is about
the operators of `RuntimeValues`: each conversion gives a value that fits its target in everything
the target fixes (`ToFlat`, `ToTuple`, `Converted`), and each operator, literal, generator and
index gives a value of one of these kinds, or fails. Padding the rows of a literal is counted by induction on the
rows (`FlattenedRows`).

`TypingSoundness` (the same generality) compares the two sides.
`WalkTypesDescribeRuntimeValues`: outside the blind spots, the type of an expression describes
its value. The checked property is not inductive, because the next form asks more of a literal than its
type's base: the inductive invariant `DescribedInv` adds to `TypingInv` that a literal is converted to the
base its type says or not at all, that a vector literal has an item of that base, and that
a literal of an invalid type holds nothing but null and identity (`Described`); and that what is marked as a
literal is one still to be converted (`Explained`). The main lemmas follow the families of
rules: declarations, casts and assignments (`DeclaredIsDescribed`, `AssignedIsDescribed`), the tables against
the operators (`BinaryIsDescribed`), `ConcatIsDescribed`, `IndexIsDescribed`, and literals
row by row (`VectorIsDescribed`, `MatrixIsDescribed`). From the same invariant,
for each way a step can end the program (`Sound`): `TuplesAreComparedWithTuples` and
`TheRuntimeComputesWhatTheTablesAccept`, which follow the reasons that each conversion and operator
can give (`KnownTuplesMeet`, `BinaryMayStop`, `ConcatMayStop`).

Only model-checked: `ReadEnds`, which is liveness; the token scanners (folds
over the data); and the
properties of `ExpressionCodegen`, where an inductive invariant has to say, of every kind of node
visited in part, what running the calls emitted so far leaves in the heap.

## Plan

Done: the modules above. What would come next, in this order:

1. Proofs: what `ExpressionCodegen` emits for one expression frees what it made.
2. `Intervals` and `Elements`: interval arithmetic and integer exponentiation in *w*-bit
   arithmetic against their mathematical definitions.
3. Generators and filters by value: rows of different lengths, and which elements a filter keeps.
4. Scopes of tuple types and field access in `SymbolTables`; the checks of `TypeWalk` on calls.

## Not modelled

`ASTBuilder.cpp` turns the parse tree into the AST, one node for one context, and keeps no state that
a later step of its own reads. Output is formatting only. The table of runtime functions
(`LLVMIRFunction.cpp`) gives each call its LLVM type. Error classes carry text, and an error
ends the program. The lexer and the parser are generated by ANTLR from the grammar; LLVM, the build files
and the tests are outside the two programs' own logic.
