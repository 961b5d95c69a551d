---------------------------- MODULE SymbolTables ----------------------------
(***************************************************************************)
(* Scopes and symbols: what DefWalk.cpp builds while it reads the program  *)
(* once, and what RefWalk.cpp resolves when it reads it again.  The        *)
(* program is chosen node by node as DefWalk visits it and is then read    *)
(* from the record.                                                        *)
(*                                                                         *)
(* A step visits one statement or declaration, up to the body of one that  *)
(* has a body, or leaves a body ("close").                                 *)
(***************************************************************************)
EXTENDS Integers, Sequences, SequencesExt, FiniteSetsExt

CONSTANTS
  Names,          \* the names variables may have
  Subroutines,    \* the names subroutines may have; "main" is one
  Typedefs,       \* the names typedefs may have
  ParameterLists, \* the lists of names parameters may have
  DomainLists,    \* how many domains an iterator loop may have
  MaxDepth,       \* bounds on the program: how deep its bodies nest,
  Shapes          \* and how many nodes it has, of each kind and in all

main == "main"
builtIn == "built-in type"
unset == "nullptr"
noName == "no name"
nullptr == <<>>

Openers == {"subroutine", "block", "loop", "conditional", "iterator"}
Kinds == Openers \cup
  {"close", "var", "use", "call", "return", "break", "generator", "typedef"}
all == "all"

ASSUME NamesAssumption ==
  noName \notin Names \cup Subroutines /\ "" \notin Names /\ Typedefs \cap {builtIn, unset} = {}
    /\ IsFiniteSet(Typedefs)
ASSUME SubroutinesAssumption == main \in Subroutines
ASSUME ListsAssumption ==
  ParameterLists \subseteq Seq(Names) /\ DomainLists \subseteq Nat \ {0}
ASSUME BoundsAssumption ==
  MaxDepth \in Nat /\ Shapes \subseteq [Kinds \cup {all} -> Nat]

VARIABLES
  shape,             \* how many nodes of each kind, and in all, it may have
  program,           \* the nodes read so far
  pass,              \* the walk at work, or how the compilation ended
  at,                \* RefWalk: the node it visits next
  open,              \* the nodes whose bodies are being visited, innermost last
  scopes,            \* every Scope, in the order of creation; the first is global
  currentScope,      \* DefWalk::currentScope
  subroutines,       \* the SubroutineSymbols
  typeSymbols,       \* GlobalScope::typeSymbols
  identifiers,       \* for each node, the t->scope of its IDENTIFIER_TOKENs
  hasMainProcedure,  \* DefWalk::hasMainProcedure
  named,             \* the parameters that RefWalk has given their names
  resolved           \* for each node, the t->symbol of its IDENTIFIER_TOKENs

tables == <<scopes, currentScope, subroutines, typeSymbols, identifiers, hasMainProcedure>>
vars == <<shape, program, pass, at, open, tables, named, resolved>>

(***************************************************************************)
(* Nodes.  "names" are those a node declares, "domains" the names its      *)
(* domain expressions use, "use" the name its own expression uses.         *)
(***************************************************************************)
Node(kind, line) ==
  [kind |-> kind, line |-> line, names |-> <<>>, domains |-> <<>>, use |-> noName,
   subroutine |-> noName, body |-> FALSE, const |-> FALSE]

\* What the k-th identifier of a node is; 0 is the one in its expression.
UsedName(node, k) == IF k = 0 THEN node.use ELSE node.domains[k]

\* A symbol is <<node, k>>: the k-th name that the node declares.
NameOf(sym) ==
  LET node == program[sym[1]]
  IN  IF node.kind = "subroutine" /\ sym \notin named THEN "" ELSE node.names[sym[2]]

(***************************************************************************)
(* Scopes.  A SubroutineSymbol keeps its parameters in a vector, the other *)
(* scopes a map.                                                           *)
(***************************************************************************)
Scope(enclosing, subroutine) ==
  [enclosingScope |-> enclosing, subroutine |-> subroutine, symbols |-> <<>>,
   parentIsLoop |-> FALSE, parentIsConditional |-> FALSE, containReturn |-> FALSE]

LocalScope(enclosing) == Scope(enclosing, noName)

\* BaseScope::define: the first symbol of a name stays (emplace).
Define(ss, s, name, sym) ==
  [ss EXCEPT ![s].symbols =
     [n \in DOMAIN @ \cup {name} |-> IF n \in DOMAIN @ THEN @[n] ELSE sym]]

\* The symbol of that name in scope s itself.
Here(name, s) ==
  LET args == subroutines[scopes[s].subroutine].orderedArgs
      arg == SelectInSeq(args, LAMBDA sym : NameOf(sym) = name)
  IN  IF scopes[s].subroutine # noName /\ arg # 0 THEN args[arg]
      ELSE IF name \in DOMAIN scopes[s].symbols THEN scopes[s].symbols[name]
      ELSE nullptr

\* BaseScope::resolve and SubroutineSymbol::resolve: here, else further out.
Resolve(name, scope) ==
  LET from[s \in 0..Len(scopes)] ==
        IF s = 0 THEN nullptr
        ELSE IF Here(name, s) # nullptr THEN Here(name, s)
        ELSE from[scopes[s].enclosingScope]
  IN  from[scope]

(***************************************************************************)
(* DefWalk.                                                                *)
(***************************************************************************)
NoSubroutine ==
  [scope |-> 0, orderedArgs |-> <<>>, numTimesDeclare |-> 0, numTimesDefined |-> 0]

Init ==
  /\ shape \in Shapes
  /\ program = <<>> /\ pass = "DefWalk" /\ at = 1 /\ open = <<>>
  /\ scopes = <<LocalScope(0)>> /\ currentScope = 1
  /\ subroutines = [f \in Subroutines |-> NoSubroutine]
  /\ typeSymbols = <<>> /\ identifiers = <<>> /\ resolved = <<>> /\ named = {}
  /\ hasMainProcedure \in BOOLEAN  \* the constructor leaves it uninitialised

AtGlobal == open = <<>>
This == Len(program) + 1
NextLine == IF program = <<>> THEN 1 ELSE Last(program).line + 1
SomeLine == IF program = <<>> THEN {1} ELSE {NextLine - 1, NextLine}

Read(node) ==
  /\ pass = "DefWalk"
  /\ Len(program) < shape[all]
  /\ Len(SelectSeq(program, LAMBDA n : n.kind = node.kind)) < shape[node.kind]
  /\ program' = Append(program, node)
  /\ UNCHANGED <<shape, at, named, resolved>>

Throw == pass' = "rejected" /\ UNCHANGED <<open, tables>>

\* visitIdentifier, of each identifier of the node just read.
Identify(scopeOf) == identifiers' = Append(identifiers, scopeOf)

\* The identifiers of a node with none.
NoIdentifiers == <<>>

Uses(node, scope) ==
  IF node.use = noName THEN NoIdentifiers ELSE [k \in {0} |-> scope]

VisitVariableDeclaration ==
  \E n \in Names, u \in Names \cup {noName}, line \in SomeLine,
     const \in IF AtGlobal THEN BOOLEAN ELSE {FALSE} :
    LET node == [Node("var", line) EXCEPT !.names = <<n>>, !.use = u, !.const = const]
    IN  /\ Read(node)
        /\ IF n \in DOMAIN scopes[currentScope].symbols THEN Throw
           ELSE /\ scopes' = Define(scopes, currentScope, n, <<This, 1>>)
                /\ Identify(Uses(node, currentScope))
                /\ UNCHANGED <<pass, open, currentScope, subroutines, typeSymbols,
                               hasMainProcedure>>

\* Any other statement with an expression in it.
VisitUse ==
  \E u \in Names, line \in SomeLine :
    LET node == [Node("use", line) EXCEPT !.use = u]
    IN  /\ ~AtGlobal
        /\ Read(node) /\ Identify(Uses(node, currentScope))
        /\ UNCHANGED <<pass, open, scopes, currentScope, subroutines, typeSymbols,
                       hasMainProcedure>>

VisitCall ==
  \E f \in Subroutines :
    /\ ~AtGlobal
    /\ Read([Node("call", NextLine) EXCEPT !.subroutine = f])
    /\ Identify(NoIdentifiers)
    /\ UNCHANGED <<pass, open, scopes, currentScope, subroutines, typeSymbols,
                   hasMainProcedure>>

Declared_Slip(node) ==
  LET sub == subroutines[node.subroutine]
  IN  [sub EXCEPT
        !.scope = IF @ = 0 THEN Len(scopes) + 1 ELSE @,
        !.orderedArgs = @ \o [k \in DOMAIN node.names |-> <<This, k>>],
        !.numTimesDeclare = @ + 1,
        !.numTimesDefined = @ + 1]

\* The symbol after one more declaration, or definition, of the subroutine.
Declared(node) ==
  LET sub == subroutines[node.subroutine]
  IN  [sub EXCEPT
        !.scope = IF @ = 0 THEN Len(scopes) + 1 ELSE @,
        !.orderedArgs = @ \o [k \in DOMAIN node.names |-> <<This, k>>],
        !.numTimesDeclare = @ + 1,
        !.numTimesDefined = IF node.body THEN @ + 1 ELSE @]

VisitSubroutineDeclDef ==
  \E f \in Subroutines, parameters \in ParameterLists, body \in BOOLEAN :
    LET node == [Node("subroutine", NextLine) EXCEPT !.subroutine = f,
                   !.names = parameters, !.body = body]
        sub == Declared(node)
        known == IF subroutines[f].scope = 0 THEN Append(scopes, Scope(1, f)) ELSE scopes
    IN  /\ AtGlobal
        /\ Read(node)
        /\ IF sub.numTimesDeclare > 2 THEN Throw
           ELSE /\ subroutines' = [subroutines EXCEPT ![f] = sub]
                /\ hasMainProcedure' = (hasMainProcedure \/ f = main)
                /\ Identify(NoIdentifiers)
                /\ UNCHANGED <<pass, typeSymbols>>
                /\ IF body
                   THEN /\ open' = Append(open, This)
                        /\ scopes' = Append(known, LocalScope(sub.scope))
                        /\ currentScope' = Len(known) + 1
                   ELSE /\ scopes' = known
                        /\ UNCHANGED <<open, currentScope>>

\* visitBlock: a block of its own, or the body of a loop or a conditional.
VisitBlock ==
  \E kind \in {"block", "loop", "conditional"} :
    /\ ~AtGlobal /\ Len(open) < MaxDepth
    /\ Read(Node(kind, NextLine))
    /\ open' = Append(open, This)
    /\ scopes' = Append(scopes, LocalScope(currentScope))
    /\ currentScope' = Len(scopes) + 1
    /\ Identify(NoIdentifiers)
    /\ UNCHANGED <<pass, subroutines, typeSymbols, hasMainProcedure>>

\* visitDomainExpression, of each domain: the variable goes in a scope of its
\* own, where the first of a name stays; the domain is visited in the enclosing
\* one.
DefineDomains(ss, s, node) ==
  [ss EXCEPT ![s].symbols =
     [n \in Range(node.names) |-> <<This, SelectInSeq(node.names, LAMBDA m : m = n)>>]]

DomainScope_Slip(ss, s) == s

DomainScope(ss, s) == ss[s].enclosingScope

VisitIteratorLoop ==
  \E k \in DomainLists : \E ns, ds \in [1..k -> Names] :
    LET node == [Node("iterator", NextLine) EXCEPT !.names = ns, !.domains = ds]
        domains == Len(scopes) + 1
        inner == Append(scopes, LocalScope(currentScope))
    IN  /\ ~AtGlobal /\ Len(open) < MaxDepth
        /\ Read(node)
        /\ open' = Append(open, This)
        /\ scopes' = Append(DefineDomains(inner, domains, node), LocalScope(domains))
        /\ currentScope' = domains + 1
        /\ Identify([i \in 1..k |-> DomainScope(inner, domains)])
        /\ UNCHANGED <<pass, subroutines, typeSymbols, hasMainProcedure>>

\* visitGenerator and visitFilter.
VisitGenerator ==
  \E n, d, u \in Names :
    LET node == [Node("generator", NextLine) EXCEPT !.names = <<n>>, !.domains = <<d>>,
                   !.use = u]
        own == Len(scopes) + 1
        inner == Append(scopes, LocalScope(currentScope))
    IN  /\ ~AtGlobal
        /\ Read(node)
        /\ scopes' = DefineDomains(inner, own, node)
        /\ Identify([k \in {0, 1} |-> IF k = 0 THEN own ELSE DomainScope(inner, own)])
        /\ UNCHANGED <<pass, open, currentScope, subroutines, typeSymbols, hasMainProcedure>>

numLoopAncestors == Cardinality({i \in DOMAIN open : program[open[i]].kind \in {"loop", "iterator"}})

\* visitBreak and visitContinue.
VisitBreak ==
  /\ ~AtGlobal
  /\ Read(Node("break", NextLine))
  /\ IF numLoopAncestors = 0 THEN Throw
     ELSE Identify(NoIdentifiers) /\ UNCHANGED <<pass, open, scopes, currentScope,
                                          subroutines, typeSymbols, hasMainProcedure>>

VisitReturn ==
  /\ ~AtGlobal
  /\ Read(Node("return", NextLine))
  /\ scopes' = [scopes EXCEPT ![currentScope].containReturn = TRUE]
  /\ Identify(NoIdentifiers)
  /\ UNCHANGED <<pass, open, currentScope, subroutines, typeSymbols, hasMainProcedure>>

VisitTypedefStatement ==
  \E t \in Typedefs, target \in Typedefs \cup {builtIn} :
    /\ AtGlobal
    /\ Read([Node("typedef", NextLine) EXCEPT !.names = <<t>>, !.use = target])
    /\ IF t \in DOMAIN typeSymbols THEN Throw
       ELSE /\ typeSymbols' = [s \in DOMAIN typeSymbols \cup {t} |-> unset]
            /\ Identify(NoIdentifiers)
            /\ UNCHANGED <<pass, open, scopes, currentScope, subroutines, hasMainProcedure>>

Marked_Slip(kind) ==
  [scopes EXCEPT
     ![IF kind = "iterator" THEN scopes[currentScope].enclosingScope ELSE currentScope].parentIsLoop =
        @ \/ kind \in {"loop", "iterator"},
     ![currentScope].parentIsConditional = @ \/ kind = "conditional"]

\* What a loop and a conditional note in the scope of their block, once they
\* have visited it.
Marked(kind) ==
  [scopes EXCEPT
     ![currentScope].parentIsLoop = @ \/ kind \in {"loop", "iterator"},
     ![currentScope].parentIsConditional = @ \/ kind = "conditional"]

PoppedScope_Slip(kind) == scopes[scopes[currentScope].enclosingScope].enclosingScope

\* The end of a body: the handlers pop the scopes they pushed.
PoppedScope(kind) ==
  LET outer == scopes[currentScope].enclosingScope
  IN  IF kind \in {"iterator", "subroutine"} THEN scopes[outer].enclosingScope ELSE outer

Leave ==
  /\ ~AtGlobal
  /\ Read(Node("close", NextLine))
  /\ LET kind == program[Last(open)].kind
     IN  scopes' = Marked(kind) /\ currentScope' = PoppedScope(kind)
  /\ open' = Front(open)
  /\ Identify(NoIdentifiers)
  /\ UNCHANGED <<pass, subroutines, typeSymbols, hasMainProcedure>>

\* main.cpp, between the walks.
CheckMain ==
  /\ pass = "DefWalk" /\ AtGlobal
  /\ pass' = IF hasMainProcedure THEN "RefWalk" ELSE "rejected"
  /\ UNCHANGED <<shape, program, at, open, tables, named, resolved>>

(***************************************************************************)
(* RefWalk.                                                                *)
(***************************************************************************)
Visit(kinds) == pass = "RefWalk" /\ at \in DOMAIN program /\ program[at].kind \in kinds

Reject == pass' = "rejected" /\ UNCHANGED <<at, open, tables, named, resolved>>

\* The identifiers of the node visited, resolved.
Symbols ==
  [k \in DOMAIN identifiers[at] |-> Resolve(UsedName(program[at], k), identifiers[at][k])]

UsedBeforeDefinition_Slip(sym, line) ==
  sym # nullptr /\ program[sym[1]].kind = "var" /\ program[sym[1]].line >= line

\* visitIdentifier's test: line numbers, of variables declared by a statement.
UsedBeforeDefinition(sym, line) ==
  sym # nullptr /\ program[sym[1]].kind = "var" /\ program[sym[1]].line > line

IsGlobalVariable(node) ==
  \E n \in DOMAIN scopes[1].symbols : scopes[1].symbols[n] = <<node, 1>>

\* visitIdentifier, visitVariableDeclaration, visitChildren of the rest.
RefIdentifiers ==
  /\ Visit({"var", "use", "generator", "iterator", "block", "loop", "conditional",
            "return", "break"})
  /\ IF \/ \E k \in DOMAIN Symbols : UsedBeforeDefinition(Symbols[k], program[at].line)
        \/ IsGlobalVariable(at) /\ ~program[at].const
     THEN Reject
     ELSE /\ resolved' = Append(resolved, Symbols)
          /\ at' = at + 1
          /\ open' = IF program[at].kind \in Openers THEN Append(open, at) ELSE open
          /\ UNCHANGED <<pass, tables, named>>

RefCall ==
  /\ Visit({"call"})
  /\ IF subroutines[program[at].subroutine].numTimesDeclare = 0 THEN Reject
     ELSE /\ at' = at + 1 /\ resolved' = Append(resolved, Symbols)
          /\ UNCHANGED <<pass, open, tables, named>>

WithoutDuplicates_Slip(sub) ==
  IF sub.numTimesDeclare = 1 THEN sub
  ELSE [sub EXCEPT
          !.orderedArgs = SubSeq(@, 1, Len(@) \div 2),
          !.numTimesDeclare = @ - 1]

\* The end of visitSubroutineDeclDef: the parameters were pushed once for
\* each of two declarations, and the second half is kept.
WithoutDuplicates(sub) ==
  IF sub.numTimesDeclare = 1 THEN sub
  ELSE [sub EXCEPT
          !.orderedArgs = SubSeq(@, Len(@) \div 2 + 1, Len(@)),
          !.numTimesDeclare = @ - 1]

FinishSubroutine(f) ==
  /\ subroutines' = [subroutines EXCEPT ![f] = WithoutDuplicates(@)]
  /\ pass' = IF subroutines[f].numTimesDefined = 0 THEN "rejected" ELSE pass
  /\ at' = at + 1 /\ resolved' = Append(resolved, Symbols)
  /\ UNCHANGED <<scopes, currentScope, typeSymbols, identifiers, hasMainProcedure>>

\* visitParameterAtom, of each parameter, and what follows of a declaration;
\* the body of a definition comes next.
RefSubroutine ==
  /\ Visit({"subroutine"})
  /\ named' = named \cup {<<at, k>> : k \in DOMAIN program[at].names}
  /\ IF program[at].body
     THEN /\ at' = at + 1 /\ resolved' = Append(resolved, Symbols)
          /\ open' = Append(open, at)
          /\ UNCHANGED <<pass, tables>>
     ELSE FinishSubroutine(program[at].subroutine) /\ UNCHANGED open

RefLeave ==
  /\ Visit({"close"})
  /\ open' = Front(open)
  /\ UNCHANGED named
  /\ LET opener == program[Last(open)]
     IN  IF opener.kind = "subroutine" THEN FinishSubroutine(opener.subroutine)
         ELSE /\ at' = at + 1 /\ resolved' = Append(resolved, Symbols)
              /\ UNCHANGED <<pass, tables>>

Target_Slip(t) == typeSymbols[t]

\* TypedefTypeSymbol::resolveTargetType: where the chain of typedefs ends.
Target(t) ==
  LET chain[k \in 0..Cardinality(Typedefs)] ==
        IF k = 0 THEN typeSymbols[t]
        ELSE IF chain[k - 1] \in DOMAIN typeSymbols THEN typeSymbols[chain[k - 1]]
        ELSE chain[k - 1]
  IN  chain[Cardinality(Typedefs)]

\* visitTypedefStatement, with the visitSingleTokenType it begins with.  The
\* chain of a typedef that RefWalk has not reached ends in a null pointer,
\* which the loop reads through.
RefTypedef ==
  /\ Visit({"typedef"})
  /\ LET t == program[at].names[1]
         target == program[at].use
     IN  CASE target \in DOMAIN typeSymbols /\ Target(target) = unset ->
                pass' = "crashed" /\ UNCHANGED <<at, open, tables, named, resolved>>
           [] OTHER ->
                /\ typeSymbols' =
                     IF target \in DOMAIN typeSymbols
                     THEN [typeSymbols EXCEPT ![target] = Target(target), ![t] = target]
                     ELSE [typeSymbols EXCEPT ![t] = IF target = builtIn THEN builtIn ELSE unset]
                /\ at' = at + 1 /\ resolved' = Append(resolved, Symbols)
                /\ UNCHANGED <<pass, open, scopes, currentScope, subroutines, identifiers,
                               hasMainProcedure, named>>

\* RefWalk has left an identifier without a symbol.
Unresolved ==
  \E i \in DOMAIN resolved : \E k \in DOMAIN resolved[i] : resolved[i][k] = nullptr

\* TypeWalk::visitIdentifier throws on an identifier with no symbol, if TypeWalk
\* comes to it: it does not visit the ends of an interval, the target of an
\* input, nor a declaration without an initialiser.  Nodes do not say which of
\* their identifiers are there, so one without a symbol may be accepted.
TypeWalkIdentifiers ==
  /\ pass = "RefWalk" /\ at = Len(program) + 1
  /\ pass' = "accepted" \/ (Unresolved /\ pass' = "rejected")
  /\ UNCHANGED <<shape, program, at, open, tables, named, resolved>>

DefWalk ==
  \/ VisitVariableDeclaration \/ VisitUse \/ VisitCall \/ VisitSubroutineDeclDef
  \/ VisitBlock \/ VisitIteratorLoop \/ VisitGenerator \/ VisitBreak \/ VisitReturn
  \/ VisitTypedefStatement \/ Leave

RefWalk == RefIdentifiers \/ RefCall \/ RefSubroutine \/ RefLeave \/ RefTypedef

Next == DefWalk \/ CheckMain \/ (RefWalk /\ UNCHANGED <<shape, program>>) \/ TypeWalkIdentifiers

Spec == Init /\ [][Next]_vars

(***************************************************************************)
(* The reference: what the names of a program mean, read off its text      *)
(* alone.  The body that a node is in is the innermost opener before it    *)
(* that is not yet closed; 0 is the top level.                             *)
(***************************************************************************)
HasBody(node) == node.kind \in Openers /\ (node.kind = "subroutine" => node.body)

Depths(p) ==
  LET depth[i \in 1..(Len(p) + 1)] ==
        IF i = 1 THEN 0
        ELSE IF HasBody(p[i - 1]) THEN depth[i - 1] + 1
        ELSE IF p[i - 1].kind = "close" THEN depth[i - 1] - 1
        ELSE depth[i - 1]
  IN  depth

Depth == Depths(program)

Enclosing(i) ==
  {j \in 1..(i - 1) : Depth[j + 1] > Depth[j] /\ \A k \in (j + 1)..i : Depth[k] > Depth[j]}

Body(i) == IF Enclosing(i) = {} THEN 0 ELSE Max(Enclosing(i))

DeclaredIn(body, name) ==
  {i \in DOMAIN program : program[i].kind = "var" /\ program[i].names = <<name>> /\ Body(i) = body}

\* The first of the names in a node's header: its parameters or domains.
InHeader(i, name) ==
  LET k == SelectInSeq(program[i].names, LAMBDA n : n = name)
  IN  IF k = 0 THEN nullptr ELSE <<i, k>>

\* What a name means in node i: the innermost declaration in a body around
\* it that does not come after it; a body's own are inside its header's.
Meaning(i, name) ==
  LET before(body) == {d \in DeclaredIn(body, name) : d <= i}
      in[body \in 0..Len(program)] ==
        CASE before(body) # {} -> <<Max(before(body)), 1>>
          [] before(body) = {} /\ body = 0 -> nullptr
          [] before(body) = {} /\ body # 0 /\ InHeader(body, name) # nullptr ->
               InHeader(body, name)
          [] OTHER -> in[Body(body)]
  IN  in[Body(i)]

\* The k-th identifier of node i; only the expression of a generator is
\* inside its header.
MeaningOf(i, k) ==
  LET name == UsedName(program[i], k)
      own == InHeader(i, name)
  IN  IF k = 0 /\ program[i].kind = "generator" /\ own # nullptr THEN own
      ELSE Meaning(i, name)

\* A later declaration of the name, in a body around node i.
LaterNamesakes(i, name) ==
  {d \in DOMAIN program : d > i /\ d \in UNION {DeclaredIn(b, name) : b \in Enclosing(i) \cup {0}}}

Identifiers == UNION {{i} \X DOMAIN identifiers[i] : i \in DOMAIN identifiers}

Declarations(f) ==
  {j \in DOMAIN program : program[j].kind = "subroutine" /\ program[j].subroutine = f}

\* A program whose names all have a meaning before they are used, that
\* declares nothing twice in a body, no subroutine without defining it, and
\* none with different numbers of parameters.
WellFormed ==
  /\ \A id \in Identifiers :
       LET name == UsedName(program[id[1]], id[2])
       IN  MeaningOf(id[1], id[2]) # nullptr /\ LaterNamesakes(id[1], name) = {}
  /\ \A i, j \in DOMAIN program :
       (i # j /\ {program[i].kind, program[j].kind} \in {{"var"}, {"typedef"}} /\ Body(i) = Body(j))
         => program[i].names # program[j].names
  /\ \A i \in DOMAIN program :
       LET node == program[i]
           declarations == Declarations(node.subroutine)
       IN  /\ node.kind = "var" /\ Body(i) = 0 => node.const
           /\ node.kind \in {"call", "subroutine"} =>
                /\ Cardinality(declarations) <= 2 /\ \E j \in declarations : program[j].body
                /\ \A j, k \in declarations : Len(program[j].names) = Len(program[k].names)
           /\ node.kind = "break" => \E j \in Enclosing(i) : program[j].kind \in {"loop", "iterator"}
           /\ node.kind = "typedef" /\ node.use # builtIn =>
                \E j \in 1..(i - 1) : program[j].kind = "typedef" /\ program[j].names = <<node.use>>
  /\ Declarations(main) # {}

(***************************************************************************)
(* Properties.                                                             *)
(***************************************************************************)
\* The symbols that the nodes read so far declare.
SymbolIds == UNION {{i} \X DOMAIN program[i].names : i \in DOMAIN program}

Nodes ==
  [kind : Kinds, line : Nat, names : Seq(Names \cup Typedefs), domains : Seq(Names),
   use : Names \cup Typedefs \cup {noName, builtIn},
   subroutine : Subroutines \cup {noName}, body : BOOLEAN, const : BOOLEAN]

\* Every variable of the model has its type.
TypeOK ==
  /\ shape \in Shapes /\ hasMainProcedure \in BOOLEAN
  /\ pass \in {"DefWalk", "RefWalk", "accepted", "rejected", "crashed"}
  /\ program \in Seq(Nodes) /\ Len(program) <= shape[all]
  /\ at \in 1..(Len(program) + 1) /\ Len(resolved) = at - 1
  /\ open \in Seq(DOMAIN program)
  /\ \A s \in DOMAIN scopes :
       /\ scopes[s].enclosingScope \in 0..(s - 1)
       /\ scopes[s].subroutine \in Subroutines \cup {noName}
       /\ \A n \in DOMAIN scopes[s].symbols : n \in Names /\ scopes[s].symbols[n] \in SymbolIds
  /\ currentScope \in DOMAIN scopes
  /\ \A f \in Subroutines :
       /\ subroutines[f].scope \in 0..Len(scopes)
       /\ subroutines[f].orderedArgs \in Seq(SymbolIds)
       /\ subroutines[f].numTimesDeclare \in 0..2 /\ subroutines[f].numTimesDefined \in 0..2
  /\ \A t \in DOMAIN typeSymbols : t \in Typedefs /\ typeSymbols[t] \in Typedefs \cup {builtIn, unset}
  /\ \A i \in DOMAIN identifiers : \A k \in DOMAIN identifiers[i] : identifiers[i][k] \in DOMAIN scopes
  /\ named \subseteq SymbolIds
  /\ \A i \in DOMAIN resolved : \A k \in DOMAIN resolved[i] : resolved[i][k] \in SymbolIds \cup {nullptr}

\* The walk compares lines (RefWalk.cpp:209): a name may be taken for a
\* declaration later on its own line.
NamesakeOnItsLine(i, name) ==
  \E d \in LaterNamesakes(i, name) : program[d].line = program[i].line

\* Half of the parameters of two declarations are kept (RefWalk.cpp:99), however
\* many each has.  In the body of the second a name may be taken for a
\* parameter of the first, if that one has more of them, and parameters are
\* lost if it has two less.
Misdeclared(i, name) ==
  \E f \in Subroutines : \E j, k \in Declarations(f) :
    LET more == Len(program[j].names) - Len(program[k].names)
    IN  j \in Enclosing(i) /\ k < j /\ (more > 1 \/ (more < 0 /\ InHeader(k, name) # nullptr))

\* In a program that is accepted every other name means the innermost
\* declaration around it that comes before it.
UsesResolveLexically ==
  pass = "accepted" =>
    \A id \in Identifiers :
      LET i == id[1]
          name == UsedName(program[i], id[2])
      IN  \/ resolved[i][id[2]] = MeaningOf(i, id[2])
          \/ NamesakeOnItsLine(i, name) \/ Misdeclared(i, name)

\* Where the definition comes last and every declaration has as many
\* parameters, a name that means a parameter gets the symbol that LLVMGen binds
\* to that argument, though DefWalk made one symbol for each declaration.
ParametersAreBound ==
  pass = "accepted" =>
    \A id \in Identifiers :
      LET sym == MeaningOf(id[1], id[2])
          f == program[sym[1]].subroutine
          arity(j) == Len(program[j].names)
      IN  (/\ sym # nullptr /\ f \in Subroutines
           /\ ~NamesakeOnItsLine(id[1], UsedName(program[id[1]], id[2]))
           /\ sym[1] = Max(Declarations(f))
           /\ \A j \in Declarations(f) : arity(j) = arity(sym[1]))
            => resolved[id[1]][id[2]] = sym /\ subroutines[f].orderedArgs[sym[2]] = sym

\* A call in a program that is accepted reaches a subroutine with a body.
CallsReachABody ==
  pass = "accepted" =>
    \A i \in DOMAIN program :
      program[i].kind = "call" =>
        \E j \in Declarations(program[i].subroutine) : program[j].body

NodesOf(kinds) == {i \in DOMAIN program : program[i].kind \in kinds}

LoopBlocks == {s \in DOMAIN scopes : scopes[s].parentIsLoop}
ConditionalBlocks == {s \in DOMAIN scopes : scopes[s].parentIsConditional}
ReturningBlocks == {s \in DOMAIN scopes : scopes[s].containReturn}

\* When DefWalk is done, the scopes on which LLVMGen bases its branches are
\* marked as the program nests: the blocks of loops, of conditionals, and the
\* blocks with a return of their own.
MarksFollowNesting ==
  pass = "RefWalk" =>
    /\ Cardinality(NodesOf({"loop", "iterator"})) = Cardinality(LoopBlocks)
    /\ \A s \in LoopBlocks : \A n \in DOMAIN scopes[s].symbols :
         program[scopes[s].symbols[n][1]].kind = "var"
    /\ Cardinality(NodesOf({"conditional"})) = Cardinality(ConditionalBlocks)
    /\ Cardinality({Body(i) : i \in NodesOf({"return"})}) = Cardinality(ReturningBlocks)

\* No well-formed program is rejected, and none crashes the compiler.
WellFormedIsAccepted ==
  pass \in {"rejected", "crashed"} => ~WellFormed

\* A typedef of a typedef, in a program that is accepted, ends at a type of
\* the language, and a typedef that was used names that type directly.
TypedefsAreResolved ==
  pass = "accepted" =>
    \A t \in DOMAIN typeSymbols :
      typeSymbols[t] \in Typedefs =>
        Target(t) = builtIn /\ typeSymbols[typeSymbols[t]] = builtIn
=============================================================================
