------------------------- MODULE ExpressionCodegen -------------------------
(***************************************************************************)
(* The code LLVMGen.cpp emits for the straight-line body of a subroutine,  *)
(* and what running it does to the objects of the runtime: who allocates a *)
(* variable, a type or an array, and who frees it.                         *)
(*                                                                         *)
(* The program is chosen node by node in the order LLVMGen visits it; each *)
(* step appends calls of the runtime to "code".  When the subroutine has   *)
(* been emitted, "machine" runs the code, its generators and filters for   *)
(* any number of turns up to MaxTurns.                                     *)
(***************************************************************************)
EXTENDS Integers, Sequences, SequencesExt, FiniteSetsExt

CONSTANTS
  Headers,        \* the subroutines to emit, see Header
  Globals,        \* the global variables, in order
  Locals,         \* the names a declaration of the body may use
  Types,          \* the types declarations and casts may name
  Callees,        \* the subroutines that may be called, see Callee
  GlobalsFromIdentifiers,  \* may a global be initialised by another one?
  MaxNodes, MaxStatements, \* bounds on the program,
  MaxTurns                 \* and on the turns of the loops of one run

unspecified == "*"    \* a dimension given as * in a type
literal == "literal"  \* a dimension given by a literal
noType == [kind |-> "none", dims |-> <<>>, fields |-> 0]
nobody == "nobody"
domainVariable == "domain variable"

Scalar == [kind |-> "scalar", dims |-> <<>>, fields |-> 0]
ArrayOf(dims) == [kind |-> "array", dims |-> dims, fields |-> 0]
TupleType(n) == [kind |-> "tuple", dims |-> <<>>, fields |-> n]

Parameter(name, qualifier, type) == [name |-> name, qualifier |-> qualifier, type |-> type]
\* returns: the return type, or noType; body: "block" or "expression".
Header(name, params, returns, body) ==
  [name |-> name, params |-> params, returns |-> returns, body |-> body]
\* A subroutine called: the qualifiers of its parameters.
Callee(qualifiers, builtIn, returns) ==
  [qualifiers |-> qualifiers, builtIn |-> builtIn, returns |-> returns]

ASSUME NamesAreDistinct ==
  /\ IsInjective(Globals) /\ Locals \cap Range(Globals) = {}
  /\ {nobody, domainVariable} \cap (Locals \cup Range(Globals)) = {}
ASSUME MainHasNoParameters == \A h \in Headers : h.name = "main" => h.params = <<>>
ASSUME BoundsAreNatural ==
  MaxNodes \in Nat /\ MaxStatements \in Nat /\ MaxTurns \in Nat

VARIABLES
  header,            \* the subroutine being emitted
  pass,              \* what is being emitted, or "run", "done", "error"
  frames,            \* the nodes being visited, innermost last
  code,              \* the calls emitted
  registers,         \* how many llvm::Values there are
  symbols,           \* llvmPointerToVariableObject of what is declared
  qualifier,         \* typeQualifier of what is declared
  oldParameterTypes, \* SubroutineSymbol::oldParameterTypes
  llvmVarDeclarationLHSType, llvmSubroutineReturnType,
  nodes, statements, \* how many there have been
  machine            \* the run of the code

emitted == <<code, registers>>
symbolTable == <<symbols, qualifier, oldParameterTypes>>
expectedTypes == <<llvmVarDeclarationLHSType, llvmSubroutineReturnType>>
vars == <<header, pass, frames, emitted, symbolTable, expectedTypes,
          nodes, statements, machine>>

(***************************************************************************)
(* Calls of the runtime.  "r" is the register that a call defines or works *)
(* on, "args" are the registers it reads.                                  *)
(***************************************************************************)
Instr(op, r, args) == [op |-> op, r |-> r, args |-> args, cell |-> nobody]

Malloc(r) == Instr("malloc", r, {})            \* variableMalloc, typeMalloc, ...
Use(args) == Instr("use", 0, args)             \* initialises or reads
Free(r) == Instr("free", r, {r})               \* variableDestructThenFree, ...
Put(array, r) == Instr("put", array, {r})      \* variableArraySet
FreeContents(array) == Instr("freeContents", array, {array})
Field(r, tuple) == Instr("field", r, {tuple})  \* variableGetTupleField
Invoke(r, args) == Instr("invoke", r, args)    \* a subroutine of the program
SwapType(r, v, type) == Instr("swap", r, {v, type}) @@ [variable |-> v, type |-> type]
Load(r, name) == [Instr("load", r, {}) EXCEPT !.cell = name]
Store(r, name) == [Instr("store", r, {r}) EXCEPT !.cell = name]
Loop(id) == Instr("loop", id, {})
Branch(id) == Instr("branch", id, {})
Again(id) == Instr("again", id, {})
Ret(r) == Instr("return", r, {r})
\* Marks what no call is going to free; it is not a call.
Abandon(r) == Instr("abandon", r, {r})

\* A variable that lives for the length of one call.
Scratch(r, args) == <<Malloc(r), Use(args \cup {r}), Free(r)>>

\* createBranchCondition; initializeDomainVariable; incrementIndex.
BranchCondition(r, index, length) == Scratch(r, {index, length})
InitializeDomainVariable(r, variable, domain) ==
  <<Malloc(r), Use({r, domain}), Use({variable, r}), Free(r)>>
IncrementIndex_Slip(r, index) ==
  <<Malloc(r), Malloc(r + 1), Use({r}), Use({r + 1, index, r}), Use({index, r + 1}), Free(r + 1)>>
IncrementIndex(r, index) ==
  <<Malloc(r), Malloc(r + 1), Use({r}), Use({r + 1, index, r}), Use({index, r + 1}),
    Free(r + 1), Free(r)>>

(***************************************************************************)
(* Nodes that have been visited: "value" is the llvmValue, "of" the name   *)
(* of the variable the expression denotes a part of.                       *)
(***************************************************************************)
NodeOf(kind, value, of) == [kind |-> kind, value |-> value, of |-> of]
Temporary(value) == NodeOf("temporary", value, nobody)
Values(ns) == {ns[k].value : k \in DOMAIN ns}

\* freeExpressionIfNecessary and freeExprAtomIfNecessary.
IsFreed_Slip(node) == node.kind # "identifier"
IsFreed(node) == node.kind \notin {"identifier", "tupleAccess"}
FreeIfNecessary(node) == IF IsFreed(node) THEN <<Free(node.value)>> ELSE <<>>
FreeAll(ns) == FlattenSeq([k \in DOMAIN ns |-> FreeIfNecessary(ns[k])])

(***************************************************************************)
(* Types.  The code for a type defines n registers from r + 1 on, and the  *)
(* first of them is the type.                                              *)
(***************************************************************************)
ScalarType(r) == [calls |-> <<Malloc(r + 1), Use({r + 1})>>, n |-> 1]

\* Dimensions: literals are visited, "*" is a null pointer.
ArrayTypeCode(dims, r) ==
  LET dim(k) == r + 2 + k
      given == {k \in DOMAIN dims : dims[k] = literal}
      sizes == FlattenSeq([k \in DOMAIN dims |->
                 IF k \in given THEN <<Malloc(dim(k)), Use({dim(k)})>> ELSE <<>>])
      frees == FlattenSeq([k \in DOMAIN dims |->
                 IF k \in given THEN <<Free(dim(k))>> ELSE <<>>])
  IN  [calls |-> <<Malloc(r + 1)>> \o sizes
          \o <<Malloc(r + 2), Use({r + 2}), Use({r + 1, r + 2} \cup {dim(k) : k \in given}),
               Free(r + 2)>> \o frees,
       n |-> 2 + Len(dims)]
VectorTypeCode(type, r) == ArrayTypeCode(type.dims, r)
MatrixTypeCode(type, r) == ArrayTypeCode(type.dims, r)

TupleTypeCode(type, r) ==
  LET types == r + 2  strids == r + 3
      field(k) == r + 3 + k
      made == FlattenSeq([k \in 1..type.fields |->
                <<Malloc(field(k)), Use({field(k)}), Put(types, field(k)), Use({strids})>>])
  IN  [calls |-> <<Malloc(r + 1), Malloc(types), Malloc(strids)>> \o made
          \o <<Use({r + 1, types, strids}), Free(strids)>>
          \o [k \in 1..type.fields |-> Free(field(k))] \o <<Free(types)>>,
       n |-> 3 + type.fields]

TypeCode(type, r) ==
  CASE type.kind = "scalar" -> ScalarType(r)
    [] type.kind = "array" /\ Len(type.dims) = 1 -> VectorTypeCode(type, r)
    [] type.kind = "array" /\ Len(type.dims) = 2 -> MatrixTypeCode(type, r)
    [] type.kind = "tuple" -> TupleTypeCode(type, r)

\* visitParameterAtom builds the types of parameters by code of its own.
ParameterScalar(r) == ScalarType(r)
ParameterVector(type, r) == ArrayTypeCode(type.dims, r)
ParameterMatrix(type, r) == ArrayTypeCode(type.dims, r)
ParameterTuple(type, r) == TupleTypeCode(type, r)

ParameterType(type, r) ==
  CASE type.kind = "scalar" -> ParameterScalar(r)
    [] type.kind = "array" /\ Len(type.dims) = 1 -> ParameterVector(type, r)
    [] type.kind = "array" /\ Len(type.dims) = 2 -> ParameterMatrix(type, r)
    [] type.kind = "tuple" -> ParameterTuple(type, r)

(***************************************************************************)
(* The machine.  An object is live until it is freed; a field of a tuple   *)
(* lives as long as the tuple, its root.                                   *)
(***************************************************************************)
Object(root, type) ==
  [live |-> TRUE, root |-> root, type |-> type, holds |-> {}, abandoned |-> FALSE]

IsLive(m, o) == m.heap[m.heap[o].root].live
Allocate(m, r, type) ==
  [m EXCEPT !.heap = Append(@, Object(Len(@) + 1, type)), !.regs = (r :> Len(m.heap) + 1) @@ @]
Destroy(m, o) ==
  IF IsLive(m, o) /\ m.heap[o].root = o
  THEN [m EXCEPT !.heap[o].live = FALSE]
  ELSE [m EXCEPT !.fault = "freed twice"]

\* variableSwapType leaves a variable alone that is no tuple and returns null,
\* which the code then frees.
TupleArguments == {i \in DOMAIN header.params : header.params[i].type.kind = "tuple"}

Execute(m, i) ==
  LET obj(r) == m.regs[r]
      \* what is read through an array is read too
      read(r) == {obj(r)} \cup (IF i.op = "use" THEN m.heap[obj(r)].holds ELSE {})
      readable == \A r \in i.args :
                    r \in DOMAIN m.regs /\ \A o \in read(r) : IsLive(m, o)
      bound(n, o) == [n EXCEPT !.regs = (i.r :> o) @@ @]
  IN  IF m.fault # "" THEN m
      ELSE IF ~readable THEN
        [m EXCEPT !.fault = IF i.op = "free" THEN "freed twice" ELSE "used after it was freed"]
      ELSE CASE i.op \in {"malloc", "invoke"} -> Allocate(m, i.r, 0)
             [] i.op = "free" -> Destroy(m, obj(i.r))
             [] i.op = "freeContents" ->
                  FoldSet(LAMBDA o, n : Destroy(n, o), m, m.heap[obj(i.r)].holds)
             [] i.op = "put" ->
                  [m EXCEPT !.heap[obj(i.r)].holds = @ \cup {obj(r) : r \in i.args}]
             [] i.op = "field" ->
                  LET n == Allocate(m, i.r, 0)
                      tuple == CHOOSE r \in i.args : TRUE
                  IN  [n EXCEPT !.heap[Len(n.heap)].root = m.heap[obj(tuple)].root]
             [] i.op = "swap" /\ obj(i.variable) \notin TupleArguments ->
                  [m EXCEPT !.fault = "freed a null pointer"]
             [] i.op = "swap" /\ obj(i.variable) \in TupleArguments ->
                  [bound(m, m.heap[obj(i.variable)].type) EXCEPT
                     !.heap[obj(i.variable)].type = obj(i.type)]
             [] i.op = "load" -> bound(m, m.cells[i.cell])
             [] i.op = "store" -> [m EXCEPT !.cells = (i.cell :> obj(i.r)) @@ @]
             [] i.op = "return" -> [m EXCEPT !.returned = obj(i.r)]
             [] i.op = "abandon" -> [m EXCEPT !.heap[obj(i.r)].abandoned = TRUE]
             [] OTHER -> m

\* What the caller owns: the arguments, their types and the globals.
Arity(h) == Len(h.params)
CallersObjects(h) ==
  IF h.name = "main" THEN {} ELSE 1..(2 * Arity(h) + Len(Globals))
MachineBefore(h) ==
  LET n == Arity(h)
  IN  [pc |-> 1, turns |-> 0, fault |-> "", returned |-> 0,
       heap |-> [o \in CallersObjects(h) |-> Object(o, IF o <= n THEN n + o ELSE 0)],
       regs |-> [r \in 1..n |-> r],
       cells |-> IF h.name = "main" THEN <<>>
                 ELSE [g \in Range(Globals) |->
                        2 * n + (CHOOSE j \in DOMAIN Globals : Globals[j] = g)]]

Init ==
  /\ header \in Headers
  /\ pass = IF header.name = "main" THEN "globals" ELSE "parameters"
  /\ frames = <<>> /\ code = <<>> /\ registers = Arity(header)
  /\ symbols = <<>> /\ qualifier = [g \in Range(Globals) |-> "const"]
  /\ oldParameterTypes = <<>>
  /\ llvmVarDeclarationLHSType = 0 /\ llvmSubroutineReturnType = 0
  /\ nodes = 0 /\ statements = 0
  /\ machine = MachineBefore(header)

(***************************************************************************)
(* Frames: a node being visited that waits for "wait" children, and has    *)
(* "regs" to use when they are done.                                       *)
(***************************************************************************)
Frame(kind, wait, regs, name) ==
  [kind |-> kind, wait |-> wait, done |-> <<>>, regs |-> regs, name |-> name]
Top == Last(frames)
Statement == frames[1]
Waiting == frames # <<>> /\ Len(Top.done) < Top.wait
Due(kind) == frames # <<>> /\ Top.kind = kind /\ Len(Top.done) = Top.wait
Reached(fs, node) ==
  IF fs = <<>> THEN <<>> ELSE [fs EXCEPT ![Len(fs)].done = Append(@, node)]

R(k) == registers + k
Emit(calls, n) == code' = code \o calls /\ registers' = registers + n

\* The nodes that the open frames still need; each statement after the first
\* leaves room for one node less (a bound on the program).
StillNeeded(fs) ==
  FoldLeft(LAMBDA n, f : n + f.wait - Len(f.done), 0, fs) - (IF fs = <<>> THEN 0 ELSE Len(fs) - 1)
Visited(n, fs) ==
  /\ nodes' = nodes + n /\ frames' = fs
  /\ nodes + n + StillNeeded(fs) <= Min({MaxNodes, MaxNodes + 1 - statements})

Visit(node, calls, n) ==
  /\ Waiting /\ Visited(1, Reached(frames, node)) /\ Emit(calls, n)
  /\ UNCHANGED <<header, pass, symbolTable, expectedTypes, statements, machine>>

Open(kind, wait, calls, n, regs) ==
  /\ Waiting /\ Visited(1, Append(frames, Frame(kind, wait, regs, nobody))) /\ Emit(calls, n)
  /\ UNCHANGED <<header, pass, symbolTable, expectedTypes, statements, machine>>

\* More code for the node on top, which then waits for "wait" children.
Continue(wait, calls, n, regs) ==
  /\ Emit(calls, n)
  /\ Visited(0, [frames EXCEPT ![Len(frames)].wait = wait, ![Len(frames)].regs = regs])
  /\ UNCHANGED <<header, pass, symbolTable, expectedTypes, statements, machine>>

Close(kind, node, calls, n) ==
  /\ Due(kind) /\ Emit(calls, n) /\ frames' = Reached(Front(frames), node)
  /\ UNCHANGED <<header, pass, symbolTable, expectedTypes, nodes, statements, machine>>

(***************************************************************************)
(* Expressions.                                                            *)
(***************************************************************************)
VisitAtom == Visit(Temporary(R(1)), <<Malloc(R(1)), Use({R(1)})>>, 1)

\* TypeWalk has decided whether the type of the statement is used.
VisitIdentityOrNull ==
  LET expected == CASE frames = <<>> -> 0
                    [] frames # <<>> /\ Statement.kind = "declaration" -> llvmVarDeclarationLHSType
                    [] frames # <<>> /\ Statement.kind = "return" -> llvmSubroutineReturnType
                    [] OTHER -> 0
  IN  \E types \in {{}, {expected}} :
        Visit(Temporary(R(1)), <<Malloc(R(1)), Use({R(1)} \cup (types \ {0}))>>, 1)

AliasingGlobal == Waiting /\ Top.kind = "global" /\ ~GlobalsFromIdentifiers

InitialisedGlobals ==
  IF pass = "globals" THEN {g \in Range(Globals) : \E i \in DOMAIN code : code[i] = Store(code[i].r, g)}
  ELSE Range(Globals)

VisitIdentifier ==
  /\ ~AliasingGlobal
  /\ \/ \E x \in DOMAIN symbols : Visit(NodeOf("identifier", symbols[x], x), <<>>, 0)
     \/ \E g \in InitialisedGlobals :
          Visit(NodeOf("identifier", R(1), g), <<Load(R(1), g)>>, 1)
     \/ \E k \in DOMAIN frames :  \* a domain variable
          /\ "variables" \in DOMAIN frames[k].regs
          /\ \E v \in frames[k].regs.variables :
               Visit(NodeOf("identifier", v, domainVariable), <<>>, 0)

\* Unary and binary operations; intervals and concatenations are emitted as
\* binary operations are.
BeginOperation == \E n \in {1, 2} : Open("operation", n, <<>>, 0, <<>>)
FromOperands ==
  <<Malloc(R(1)), Use({R(1)} \cup Values(Top.done))>> \o FreeAll(Top.done)
FinishOperation == Close("operation", Temporary(R(1)), FromOperands, 1)

\* The array first, then its one or two indices, which are freed first.
BeginIndexing == \E n \in {2, 3} : Open("indexing", n, <<>>, 0, <<>>)
FinishIndexing ==
  LET array == Top.done[1]
  IN  Close("indexing", NodeOf("temporary", R(1), array.of),
            <<Malloc(R(1)), Use({R(1)} \cup Values(Top.done))>>
               \o FreeAll(Tail(Top.done)) \o FreeIfNecessary(array), 1)

BeginCast == \E type \in Types :
  LET t == TypeCode(type, registers)
  IN  Open("cast", 1, t.calls, t.n, [type |-> R(1)])
FinishCast ==
  Close("cast", Temporary(R(1)),
        <<Malloc(R(1)), Use({R(1), Top.regs.type} \cup Values(Top.done)), Free(Top.regs.type)>>
          \o FreeAll(Top.done), 1)

\* visitTupleLiteral and visitVectorMatrixLiteral.
BeginLiteral == \E n \in {1, 2} : Open("literal", n, <<>>, 0, <<>>)
FinishLiteral ==
  Close("literal", Temporary(R(2)),
        <<Malloc(R(1))>> \o [k \in DOMAIN Top.done |-> Put(R(1), Top.done[k].value)]
          \o <<Malloc(R(2)), Use({R(1), R(2)} \cup Values(Top.done)), Free(R(1))>>
          \o FreeAll(Top.done), 2)

BeginTupleAccess == ~AliasingGlobal /\ Open("access", 1, <<>>, 0, <<>>)
FinishTupleAccess ==
  LET tuple == Top.done[1]
  IN  Close("access", NodeOf("tupleAccess", R(1), tuple.of),
            <<Field(R(1), tuple.value)>>
              \o IF IsFreed(tuple) THEN <<Abandon(tuple.value)>> ELSE <<>>, 1)

(***************************************************************************)
(* Calls.  An argument that is a const variable is not accepted for a var  *)
(* parameter; a part of one is.                                            *)
(***************************************************************************)
Accepts(callee, ns) ==
  IF callee.builtIn THEN Len(ns) = 1
  ELSE /\ Len(ns) = Len(callee.qualifiers)
       /\ \A k \in DOMAIN ns :
            ~(/\ ns[k].kind = "identifier" /\ ns[k].of \in DOMAIN qualifier
              /\ qualifier[ns[k].of] = "const" /\ callee.qualifiers[k] = "var")

BeginCall == \E callee \in Callees, n \in {1, 2} :
  /\ callee.returns # noType
  /\ Open("call", n, <<>>, 0, [callee |-> callee])
FinishCall ==
  /\ Due("call") /\ Accepts(Top.regs.callee, Top.done)
  /\ Emit(<<Invoke(R(1), Values(Top.done))>> \o FreeAll(Top.done), 1)
  /\ frames' = Reached(Front(frames), Temporary(R(1)))
  /\ UNCHANGED <<header, pass, symbolTable, expectedTypes, nodes, statements, machine>>

\* InvalidArgumentError.
RejectCall ==
  /\ Due("call") \/ Due("callStatement")
  /\ ~Accepts(Top.regs.callee, Top.done)
  /\ pass' = "error" /\ frames' = <<>>
  /\ UNCHANGED <<header, emitted, symbolTable, expectedTypes, nodes, statements, machine>>

(***************************************************************************)
(* Generators with one domain: the domain, then the loop around the body.  *)
(***************************************************************************)
BeginGenerator ==
  LET type == R(1)  init == R(2)  index == R(3)
  IN  Open("generator", 1,
           <<Malloc(type), Malloc(init), Malloc(index), Use({type}), Use({init}),
             Use({index, type, init}), Free(init)>>,
           3, [type |-> type, index |-> index])

GeneratorLoop ==
  LET domain == R(1)  length == R(2)  array == R(3)  variable == R(5)
      node == Top.done[1]
  IN  /\ Due("generator") /\ Top.wait = 1
      /\ Continue(2,
           <<Malloc(domain), Use({domain, node.value})>> \o FreeIfNecessary(node)
             \o <<Use({domain}), Malloc(length), Use({length}), Malloc(array), Loop(array)>>
             \o BranchCondition(R(4), Top.regs.index, length)
             \o <<Branch(array), Use({Top.regs.index}), Malloc(variable), Use({variable})>>
             \o InitializeDomainVariable(R(6), variable, domain),
           6,
           [domain |-> domain, length |-> length, array |-> array, variables |-> {variable}]
             @@ Top.regs)

FinishGenerator ==
  LET body == Top.done[2]
      g == Top.regs
      expr == R(1)  result == R(4)
      variable == CHOOSE v \in g.variables : TRUE
  IN  /\ Due("generator") /\ Top.wait = 2
      /\ Close("generator", Temporary(result),
           <<Malloc(expr), Use({expr, body.value}), Put(g.array, expr), Free(variable)>>
             \o FreeIfNecessary(body) \o IncrementIndex(R(2), g.index)
             \o <<Again(g.array), Malloc(result), Use({result, g.array}), Free(g.index),
                  Free(g.length), Free(g.domain), FreeContents(g.array), Free(g.array),
                  Free(g.type)>>,
           4)

(***************************************************************************)
(* Generators with two domains: both are evaluated before either loop.     *)
(***************************************************************************)
BeginMatrixGenerator == Open("matrixGenerator", 2, <<>>, 0, <<>>)

MatrixGeneratorLoops ==
  LET outer == [domain |-> R(1), length |-> R(5), index |-> R(7), variable |-> R(10)]
      inner == [domain |-> R(2), length |-> R(6), index |-> R(8), variable |-> R(11)]
      zero == R(3)  type == R(4)  init == R(9)  matrix == R(12)  row == R(14)
  IN  /\ Due("matrixGenerator") /\ Top.wait = 2
      /\ Continue(3,
           <<Malloc(outer.domain), Malloc(inner.domain), Malloc(zero), Use({zero}),
             Use({outer.domain, Top.done[1].value}), Use({inner.domain, Top.done[2].value})>>
             \o FreeAll(Top.done)
             \o [k \in 1..8 |-> Malloc(R(3 + k))]
             \o <<Use({outer.variable}), Use({inner.variable}), Use({type}), Use({init}),
                  Use({outer.index, type, init}), Use({inner.index, type, init}), Free(init),
                  Use({outer.domain}), Use({inner.domain}), Use({outer.length}),
                  Use({inner.length}), Malloc(matrix), Loop(matrix)>>
             \o BranchCondition(R(13), outer.index, outer.length)
             \o <<Branch(matrix), Malloc(row), Use({inner.index, zero}), Loop(row)>>
             \o BranchCondition(R(15), inner.index, inner.length)
             \o <<Use({outer.index}), Use({inner.index}), Branch(row)>>
             \o InitializeDomainVariable(R(16), outer.variable, outer.domain)
             \o InitializeDomainVariable(R(17), inner.variable, inner.domain),
           17,
           [outer |-> outer, inner |-> inner, zero |-> zero, type |-> type, matrix |-> matrix,
            row |-> row, variables |-> {outer.variable, inner.variable}])

FinishMatrixGenerator ==
  LET body == Top.done[3]
      g == Top.regs
      expr == R(1)  rowVariable == R(4)  result == R(7)
  IN  /\ Due("matrixGenerator") /\ Top.wait = 3
      /\ Close("matrixGenerator", Temporary(result),
           <<Malloc(expr), Use({expr, body.value}), Put(g.row, expr)>> \o FreeIfNecessary(body)
             \o IncrementIndex(R(2), g.inner.index)
             \o <<Again(g.row), Malloc(rowVariable), Use({rowVariable, g.row}),
                  Put(g.matrix, rowVariable), FreeContents(g.row), Free(g.row)>>
             \o IncrementIndex(R(5), g.outer.index)
             \o <<Again(g.matrix), Malloc(result), Use({result, g.matrix}), Free(g.type),
                  Free(g.zero), Free(g.outer.index), Free(g.inner.index), Free(g.outer.length),
                  Free(g.inner.length), Free(g.outer.domain), Free(g.inner.domain),
                  FreeContents(g.matrix), Free(g.matrix), Free(g.outer.variable),
                  Free(g.inner.variable)>>,
           7)

(***************************************************************************)
(* Filters: one loop over the domain for every condition.                  *)
(***************************************************************************)
BeginFilter == \E n \in {1, 2} :
  LET zero == R(1)  type == R(2)  index == R(3)
  IN  Open("filter", 1,
           <<Malloc(zero), Malloc(type), Malloc(index), Use({type}), Use({zero}),
             Use({index, type, zero})>>,
           3, [filters |-> n, zero |-> zero, type |-> type, index |-> index])

\* The head of the loop of one condition, from register r + 1 on.
FilterLoop_Slip(r, f) ==
  <<Use({f.index, f.zero})>> \o BranchCondition(r + 1, f.index, f.length)
    \o <<Branch(r + 2), Loop(r + 2), Malloc(r + 2), Use({r + 2}), Use({f.index})>>
    \o InitializeDomainVariable(r + 3, r + 2, f.domain)
FilterLoop(r, f) ==
  <<Use({f.index, f.zero}), Loop(r + 2)>> \o BranchCondition(r + 1, f.index, f.length)
    \o <<Branch(r + 2), Malloc(r + 2), Use({r + 2}), Use({f.index})>>
    \o InitializeDomainVariable(r + 3, r + 2, f.domain)

FirstFilter ==
  LET domain == R(1)  length == R(2)  count == R(3)  countIndex == R(4)  accept == R(5)
      node == Top.done[1]
      f == Top.regs @@ [domain |-> domain, length |-> length, count |-> count,
                        countIndex |-> countIndex, accept |-> accept, variables |-> {R(7)}]
  IN  /\ Due("filter") /\ Top.wait = 1
      /\ Continue(2,
           <<Malloc(domain), Use({domain, node.value})>> \o FreeIfNecessary(node)
             \o <<Use({domain}), Malloc(length), Malloc(count), Malloc(countIndex),
                  Use({length}), Use({count}), Use({countIndex, f.type, f.zero}),
                  Malloc(accept)>>
             \o FilterLoop(R(5), f),
           8, f)

\* The rest of the loop whose condition has been visited.
EndFilterLoop ==
  LET f == Top.regs
      condition == Last(Top.done)
      expr == R(1)
      variable == CHOOSE v \in f.variables : TRUE
  IN  <<Malloc(expr), Use({expr, condition.value}), Use({expr}), Use({f.index})>>
        \o FreeIfNecessary(condition) \o <<Free(expr), Use({f.accept})>>
        \o IncrementIndex(R(2), f.index) \o <<Free(variable), Again(variable)>>

NextFilter ==
  /\ Due("filter") /\ Top.wait \in 2..Top.regs.filters
  /\ Continue(Top.wait + 1, EndFilterLoop \o FilterLoop(R(3), Top.regs), 6,
              [Top.regs EXCEPT !.variables = {R(5)}])

FinishFilter ==
  LET f == Top.regs
  IN  /\ Due("filter") /\ Top.wait = f.filters + 1
      /\ Close("filter", Temporary(R(4)),
           EndFilterLoop
             \o <<Malloc(R(4)), Use({R(4), f.domain, f.accept}), Free(f.type), Free(f.zero),
                  Free(f.index), Free(f.domain), Free(f.length), Free(f.count),
                  Free(f.countIndex), Free(f.accept)>>,
           4)

(***************************************************************************)
(* The prologue of main: the globals, in order.                            *)
(***************************************************************************)
BeginGlobal ==
  /\ pass = "globals" /\ frames = <<>>
  /\ Cardinality(InitialisedGlobals) < Len(Globals)
  /\ Visited(0, <<Frame("global", 1, <<>>, Globals[Cardinality(InitialisedGlobals) + 1])>>)
  /\ UNCHANGED <<header, pass, emitted, symbolTable, expectedTypes, statements, machine>>

FinishGlobal ==
  /\ Due("global") /\ Emit(<<Store(Top.done[1].value, Top.name)>>, 0)
  /\ Visited(0, <<>>)
  /\ UNCHANGED <<header, pass, symbolTable, expectedTypes, statements, machine>>

EndGlobals ==
  /\ pass = "globals" /\ frames = <<>> /\ InitialisedGlobals = Range(Globals)
  /\ pass' = "parameters"
  /\ UNCHANGED <<header, frames, emitted, symbolTable, expectedTypes, nodes, statements,
                 machine>>

(***************************************************************************)
(* Parameters.  The code for their types comes first; then a const         *)
(* parameter is copied, and a var parameter that is a tuple gets the       *)
(* declared type in exchange for its own.                                  *)
(***************************************************************************)
ParameterTypes ==
  FoldLeft(LAMBDA acc, p : LET t == ParameterType(p.type, registers + acc.n)
                           IN  [calls |-> acc.calls \o t.calls, n |-> acc.n + t.n,
                                types |-> Append(acc.types, R(acc.n + 1))],
           [calls |-> <<>>, n |-> 0, types |-> <<>>], header.params)

InitializeSubroutineParameters ==
  LET made == ParameterTypes
      own(i) == R(made.n + i)
      isVar(i) == header.params[i].qualifier = "var"
      isTuple(i) == header.params[i].type.kind = "tuple"
      call(i) ==
        CASE ~isVar(i) -> <<Malloc(own(i)), Use({own(i), made.types[i], i}), Free(made.types[i])>>
          [] isVar(i) /\ isTuple(i) -> <<SwapType(own(i), i, made.types[i])>>
          [] isVar(i) /\ ~isTuple(i) -> <<Free(made.types[i])>>
      parameters == DOMAIN header.params
      named(x) == CHOOSE i \in parameters : header.params[i].name = x
      names == {header.params[i].name : i \in parameters}
  IN  /\ pass = "parameters" /\ pass' = "body"
      /\ Emit(made.calls \o FlattenSeq([i \in parameters |-> call(i)]),
              made.n + Arity(header))
      /\ symbols' = [x \in names |-> IF isVar(named(x)) THEN named(x) ELSE own(named(x))]
      /\ qualifier' = [x \in names |-> header.params[named(x)].qualifier] @@ qualifier
      /\ oldParameterTypes' =
           FlattenSeq([i \in parameters |->
             IF ~isVar(i) THEN <<>> ELSE IF isTuple(i) THEN <<own(i)>> ELSE <<0>>])
      /\ UNCHANGED <<header, frames, expectedTypes, nodes, statements, machine>>

\* Past the end of oldParameterTypes there may be anything: null, or a
\* pointer to nothing (a register that no call defines).
wild == -1
FreeSubroutineParameters_Slip(r, past) ==
  FlattenSeq([i \in DOMAIN header.params |->
    IF header.params[i].qualifier = "const" THEN <<Free(symbols[header.params[i].name])>> ELSE <<>>])
FreeSubroutineParameters(r, past) ==
  LET old(i) == IF i \in DOMAIN oldParameterTypes THEN oldParameterTypes[i] ELSE past
      call(i) ==
        LET p == header.params[i]
        IN  CASE p.qualifier = "const" -> <<Free(symbols[p.name])>>
              [] p.qualifier = "var" /\ old(i) = 0 -> <<>>
              [] p.qualifier = "var" /\ old(i) # 0 ->
                   <<SwapType(r + i, symbols[p.name], old(i)), Free(r + i)>>
  IN  FlattenSeq([i \in DOMAIN header.params |-> call(i)])

FreeVariablesOfBlock ==
  LET own == SetToSeq(DOMAIN symbols \ {header.params[i].name : i \in DOMAIN header.params})
  IN  [k \in DOMAIN own |-> Free(symbols[own[k]])]

\* Globals live in cells; registers r + 1, r + 2, ... hold what is loaded.
FreeGlobalVariables(r) ==
  FlattenSeq([j \in DOMAIN Globals |-> <<Load(r + j, Globals[j]), Free(r + j)>>])

(***************************************************************************)
(* Statements.                                                             *)
(***************************************************************************)
AnotherStatement ==
  /\ pass = "body" /\ header.body = "block" /\ frames = <<>>
  /\ statements < MaxStatements /\ statements' = statements + 1

BeginStatement(kind, wait, calls, n, regs, name) ==
  /\ AnotherStatement
  /\ Visited(0, <<Frame(kind, wait, regs, name)>>) /\ Emit(calls, n)
  /\ UNCHANGED <<header, pass, symbolTable, machine>>

\* Declarations: without a value, of an inferred type, of an explicit type.
\* While the type is visited, an integer type is what is expected.
DeclarationPrefix(type) ==
  LET t == IF type = noType THEN [calls |-> <<>>, n |-> 0] ELSE TypeCode(type, R(1))
  IN  [calls |-> <<Malloc(R(1)), Use({R(1)})>> \o t.calls \o <<Free(R(1)), Malloc(R(t.n + 2))>>,
       n |-> t.n + 2, regs |-> [type |-> R(2), variable |-> R(t.n + 2)]]

Undeclared == Locals \ DOMAIN symbols
Declare(x, v, q) ==
  /\ symbols' = (x :> v) @@ symbols /\ qualifier' = (x :> q) @@ qualifier
  /\ UNCHANGED oldParameterTypes

DeclareWithoutValue == \E x \in Undeclared, type \in Types, q \in {"const", "var"} :
  LET d == DeclarationPrefix(type)
      rhs == R(d.n + 1)
  IN  /\ AnotherStatement
      /\ Emit(d.calls \o <<Malloc(rhs), Use({rhs}), Use({d.regs.variable, d.regs.type, rhs}),
                           Free(d.regs.type), Free(rhs)>>, d.n + 1)
      /\ Declare(x, d.regs.variable, q)
      /\ llvmVarDeclarationLHSType' = 0
      /\ UNCHANGED <<header, pass, frames, llvmSubroutineReturnType, nodes, machine>>

BeginDeclaration ==
  \E x \in Undeclared, type \in Types \cup {noType}, q \in {"const", "var"} :
    LET d == DeclarationPrefix(type)
    IN  /\ BeginStatement("declaration", 1, d.calls, d.n,
             d.regs @@ [inferred |-> type = noType, qualifier |-> q], x)
        /\ llvmVarDeclarationLHSType' = IF type = noType THEN 0 ELSE d.regs.type
        /\ UNCHANGED llvmSubroutineReturnType

FinishDeclaration ==
  LET value == Top.done[1]
      type == IF Top.regs.inferred THEN R(1) ELSE Top.regs.type
      given == IF Top.regs.inferred THEN <<Malloc(type), Use({type})>> ELSE <<>>
  IN  /\ Due("declaration") /\ frames' = <<>>
      /\ Emit(given \o <<Use({Top.regs.variable, type, value.value})>> \o FreeIfNecessary(value)
                \o <<Free(type)>>, 1)
      /\ Declare(Top.name, Top.regs.variable, Top.regs.qualifier)
      /\ UNCHANGED <<header, pass, expectedTypes, nodes, statements, machine>>

\* The check of TypeWalk: only a sole target that is a variable, or the
\* first target when the type of the value is not known, must not be const.
IsConst(node) ==
  node.kind = "identifier" /\ node.of \in DOMAIN qualifier /\ qualifier[node.of] = "const"
AssignmentIsAccepted(targets, typeIsKnown) ==
  (Len(targets) = 1 \/ ~typeIsKnown) => ~IsConst(targets[1])

BeginAssignment == \E n \in {1, 2} :
  BeginStatement("assignment", n + 1, <<>>, 0, <<>>, nobody) /\ UNCHANGED expectedTypes

FinishAssignment == \E typeIsKnown \in BOOLEAN :
  LET targets == Front(Top.done)
      value == Last(Top.done)
      parallel(k) == <<Field(R(k), value.value), Use({targets[k].value, R(k)})>>
                       \o FreeIfNecessary(targets[k])
  IN  /\ Due("assignment") /\ AssignmentIsAccepted(targets, typeIsKnown)
      /\ Visited(0, <<>>)
      /\ Emit(IF Len(targets) = 1
              THEN <<Use({targets[1].value, value.value})>> \o FreeIfNecessary(value)
                     \o FreeIfNecessary(targets[1])
              ELSE FlattenSeq([k \in DOMAIN targets |-> parallel(k)]) \o FreeIfNecessary(value),
              Len(targets))
      /\ UNCHANGED <<header, pass, symbolTable, expectedTypes, statements, machine>>

\* ConstAssignmentError.
RejectAssignment ==
  /\ Due("assignment")
  /\ \E typeIsKnown \in BOOLEAN : ~AssignmentIsAccepted(Front(Top.done), typeIsKnown)
  /\ pass' = "error" /\ frames' = <<>>
  /\ UNCHANGED <<header, emitted, symbolTable, expectedTypes, nodes, statements, machine>>

\* The value read into is not freed, whatever it is.
BeginInput ==
  BeginStatement("input", 1, <<>>, 0, <<>>, nobody) /\ UNCHANGED expectedTypes
FinishInput ==
  LET target == Top.done[1]
  IN  /\ Due("input") /\ Visited(0, <<>>)
      /\ Emit(<<Use({target.value})>>
                \o IF IsFreed(target) THEN <<Abandon(target.value)>> ELSE <<>>, 0)
      /\ UNCHANGED <<header, pass, symbolTable, expectedTypes, statements, machine>>

\* Output, and the conditions of if and loop statements.
BeginOutput ==
  BeginStatement("output", 1, <<>>, 0, <<>>, nobody) /\ UNCHANGED expectedTypes
FinishOutput ==
  /\ Due("output") /\ Visited(0, <<>>)
  /\ Emit(<<Use(Values(Top.done))>> \o FreeAll(Top.done), 0)
  /\ UNCHANGED <<header, pass, symbolTable, expectedTypes, statements, machine>>

BeginCallStatement == \E callee \in Callees, n \in {1, 2} :
  /\ BeginStatement("callStatement", n, <<>>, 0, [callee |-> callee], nobody)
  /\ UNCHANGED expectedTypes
FinishCallStatement ==
  LET callee == Top.regs.callee
      call == IF callee.returns = noType THEN <<Use(Values(Top.done))>>
              ELSE <<Invoke(R(1), Values(Top.done)), Free(R(1))>>
  IN  /\ Due("callStatement") /\ Accepts(callee, Top.done) /\ Visited(0, <<>>)
      /\ Emit(call \o FreeAll(Top.done), 1)
      /\ UNCHANGED <<header, pass, symbolTable, expectedTypes, statements, machine>>

(***************************************************************************)
(* The ends of a subroutine.                                               *)
(***************************************************************************)
EndOfCode(calls, n) ==
  /\ Emit(calls, n) /\ pass' = "run" /\ frames' = <<>>
  /\ UNCHANGED <<header, symbolTable, expectedTypes, nodes, statements, machine>>

\* The type is built for each return statement, or for the body.
BeginResult(kind) ==
  LET t == TypeCode(header.returns, registers)
  IN  /\ pass = "body" /\ frames = <<>> /\ header.returns # noType
      /\ Emit(t.calls, t.n) /\ llvmSubroutineReturnType' = R(1)
      /\ Visited(0, <<Frame(kind, 1, [type |-> R(1)], nobody)>>)
      /\ UNCHANGED <<header, pass, symbolTable, llvmVarDeclarationLHSType, statements, machine>>

BeginReturn == header.body = "block" /\ BeginResult("return")
BeginExpressionBody == header.body = "expression" /\ BeginResult("expressionBody")

Result(value) ==
  <<Malloc(R(1)), Use({R(1), Top.regs.type, value.value}), Free(Top.regs.type)>>
    \o FreeIfNecessary(value)

FinishReturn == \E past \in {0, wild} :
  LET end == IF header.name = "main"
             THEN <<Use({R(1)})>> \o FreeVariablesOfBlock \o <<Free(R(1))>>
                    \o FreeGlobalVariables(R(1))
             ELSE FreeVariablesOfBlock \o <<Ret(R(1))>>
  IN  /\ Due("return")
      /\ EndOfCode(Result(Top.done[1]) \o FreeSubroutineParameters(R(1), past) \o end,
                   1 + Arity(header) + Len(Globals))

FinishExpressionBody == \E past \in {0, wild} :
  LET end == IF header.name = "main"
             THEN <<Use({R(1)}), Free(R(1))>> \o FreeGlobalVariables(R(1))
             ELSE <<Ret(R(1))>>
  IN  /\ Due("expressionBody")
      /\ EndOfCode(Result(Top.done[1]) \o FreeSubroutineParameters(R(1), past) \o end,
                   1 + Arity(header) + Len(Globals))

\* return; and the end of a block that does not return.
ReturnNothing == \E past \in {0, wild} :
  /\ pass = "body" /\ frames = <<>> /\ header.body = "block" /\ header.returns = noType
  /\ EndOfCode(FreeSubroutineParameters(registers, past) \o FreeVariablesOfBlock, Arity(header))
EndOfBlock == \E past \in {0, wild} :
  /\ pass = "body" /\ frames = <<>> /\ header.body = "block" /\ header.name # "main"
  /\ EndOfCode(FreeVariablesOfBlock \o FreeSubroutineParameters(registers, past), Arity(header))
\* The expression of a body without a return type is never visited.
DropExpressionBody == \E past \in {0, wild} :
  /\ pass = "body" /\ header.body = "expression" /\ header.returns = noType
  /\ EndOfCode(FreeSubroutineParameters(registers, past), Arity(header))

(***************************************************************************)
(* Running the code, from one branch to the next.                          *)
(***************************************************************************)
PositionOf(op, id) == CHOOSE j \in DOMAIN code : code[j].op = op /\ code[j].r = id

Run ==
  LET stops == {j \in machine.pc..Len(code) : code[j].op \in {"branch", "again"}}
      stop == IF stops = {} THEN Len(code) + 1 ELSE Min(stops)
      after[j \in (machine.pc - 1)..(stop - 1)] ==
        IF j < machine.pc THEN machine ELSE Execute(after[j - 1], code[j])
      ran == after[stop - 1]
      goto(pc, turn) == machine' = [ran EXCEPT !.pc = pc, !.turns = @ + turn]
  IN  /\ pass = "run"
      /\ IF stops = {} \/ ran.fault # "" THEN goto(stop, 0) /\ pass' = "done"
         ELSE /\ pass' = pass
              /\ LET i == code[stop]
                 IN  \/ i.op = "again" /\ goto(PositionOf("loop", i.r), 0)
                     \/ i.op = "branch" /\ goto(PositionOf("again", i.r) + 1, 0)
                     \/ i.op = "branch" /\ machine.turns < MaxTurns /\ goto(stop + 1, 1)
      /\ UNCHANGED <<header, frames, emitted, symbolTable, expectedTypes, nodes, statements>>

Expression ==
  \/ VisitAtom \/ VisitIdentityOrNull \/ VisitIdentifier
  \/ BeginOperation \/ FinishOperation
  \/ BeginIndexing \/ FinishIndexing \/ BeginCast \/ FinishCast
  \/ BeginLiteral \/ FinishLiteral \/ BeginTupleAccess \/ FinishTupleAccess
  \/ BeginCall \/ FinishCall \/ RejectCall
  \/ BeginGenerator \/ GeneratorLoop \/ FinishGenerator
  \/ BeginMatrixGenerator \/ MatrixGeneratorLoops \/ FinishMatrixGenerator
  \/ BeginFilter \/ FirstFilter \/ NextFilter \/ FinishFilter

StatementStep ==
  \/ DeclareWithoutValue \/ BeginDeclaration \/ FinishDeclaration
  \/ BeginAssignment \/ FinishAssignment \/ RejectAssignment
  \/ BeginInput \/ FinishInput \/ BeginOutput \/ FinishOutput
  \/ BeginCallStatement \/ FinishCallStatement

SubroutineStep ==
  \/ BeginGlobal \/ FinishGlobal \/ EndGlobals \/ InitializeSubroutineParameters
  \/ BeginReturn \/ FinishReturn \/ BeginExpressionBody \/ FinishExpressionBody
  \/ ReturnNothing \/ EndOfBlock \/ DropExpressionBody

Next == Expression \/ StatementStep \/ SubroutineStep \/ Run
Spec == Init /\ [][Next]_vars

(***************************************************************************)
(* Properties.                                                             *)
(***************************************************************************)
\* The shape of the state: open frames wait for what they have not visited,
\* every register is defined once outside of loops, and the code of loops
\* is bracketed.
TypeOK ==
  /\ header \in Headers
  /\ pass \in {"globals", "parameters", "body", "run", "done", "error"}
  /\ pass \in {"run", "done", "error"} => frames = <<>>
  /\ \A k \in DOMAIN frames : Len(frames[k].done) <= frames[k].wait
  /\ Range(symbols) \subseteq 1..registers /\ DOMAIN symbols \subseteq DOMAIN qualifier
  /\ \A i \in DOMAIN code : code[i].r \in 0..registers
  /\ pass \in {"run", "done"} =>
       \A i \in DOMAIN code : code[i].op = "branch" =>
         PositionOf("loop", code[i].r) < i /\ i < PositionOf("again", code[i].r)
  /\ machine.returned \in 0..Len(machine.heap)

\* No run of the code the compiler emits reads, writes or frees a variable, a
\* type or an array that is not alive: freeExpressionIfNecessary and the frees
\* at the ends of declarations, loops, blocks and subroutines never overlap.
OnlyLiveObjectsAreUsed == machine.fault = ""

\* A run that has reached the end of the subroutine has given back everything
\* it allocated, except what it returns and what no code frees: the tuple of an
\* access to a temporary, and the target of an input that is a temporary.
NothingLeaks ==
  pass = "done" /\ machine.fault = "" =>
    \A o \in DOMAIN machine.heap :
      \/ ~machine.heap[o].live \/ machine.heap[o].root # o \/ machine.heap[o].abandoned
      \/ o \in CallersObjects(header) \cup {machine.returned}

\* When a subroutine returns, each argument of its caller has the type again
\* that it had before the call, whatever variableSwapType gave it meanwhile.
\* This is true of the subroutines whose var parameters come before their const
\* ones (MCHeaders), and not of the others (MCConstFirst): there the index into
\* oldParameterTypes is that of another parameter, or past the end.
TypesAreGivenBack ==
  pass = "done" /\ machine.fault = "" =>
    \A i \in 1..(IF header.name = "main" THEN 0 ELSE Arity(header)) :
      /\ machine.heap[i].type = Arity(header) + i
      /\ IsLive(machine, i) /\ IsLive(machine, Arity(header) + i)

\* "Free all global variables" (LLVMGen.cpp:2332): at the end of main each
\* global variable is freed, and none of them twice.
GlobalsAreFreedOnce ==
  pass = "done" /\ header.name = "main" =>
    /\ machine.fault # "freed twice"
    /\ machine.fault = "" =>
         \A g \in Range(Globals) : ~IsLive(machine, machine.cells[g])
====
