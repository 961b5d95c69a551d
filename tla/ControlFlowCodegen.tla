------------------------- MODULE ControlFlowCodegen -------------------------
(***************************************************************************)
(* Code generation for blocks, conditionals, the four loops, break,        *)
(* continue and return: LLVMGen.cpp and LLVMIRBranch.cpp.  The program     *)
(* being compiled is chosen statement by statement as the generator visits *)
(* it; the model keeps the basic blocks emitted so far and, for each       *)
(* block, the states in which the generated code can enter it: which heap  *)
(* allocated variables are live and how high the runtime stack is.         *)
(*                                                                         *)
(* A step visits one statement, up to the body of a compound one, or       *)
(* leaves a body and emits what follows it.                                *)
(***************************************************************************)
EXTENDS Integers, Sequences, FiniteSets, SequencesExt

CONSTANTS
  Loops,          \* the kinds of loop the program may hold
  Domains,        \* how many domains an iterator loop may have
  ElseIfs,        \* how many else-ifs a conditional may have
  NestedDomains,  \* whether a loop with several domains may be inside a loop
  MaxStatements,  \* bounds on the program: its length,
  MaxDepth        \* and how deep its blocks nest

LoopKinds == {"infinite", "prepred", "postpred", "iterator"}

ASSUME LoopsAssumption == Loops \subseteq LoopKinds
ASSUME DomainsAssumption == Domains \subseteq Nat \ {0}
ASSUME ElseIfsAssumption == ElseIfs \subseteq Nat
ASSUME NestedDomainsAssumption == NestedDomains \in BOOLEAN
ASSUME BoundsAssumption == MaxStatements \in Nat /\ MaxDepth \in Nat

VARIABLES
  ir,             \* the function emitted so far, and where the IRBuilder is
  blockStack,     \* LLVMIRBranch::blockStack
  hitReturnStat,  \* LLVMIRBranch::hitReturnStat
  open,           \* the local scopes being visited, innermost last
  jump,           \* the statement just visited, if it was a jump
  statements      \* how many statements have been visited

branch == <<blockStack, hitReturnStat>>
vars == <<ir, branch, open, jump, statements>>

(***************************************************************************)
(* The IRBuilder.  A block is a number; nullptr is block 0.                *)
(***************************************************************************)
nullptr == 0

Fresh == [placed |-> 0, closed |-> 0, targeted |-> FALSE, entry |-> {}]

Fault(i, what, holds) == [i EXCEPT !.faults = IF holds THEN @ \cup {what} ELSE @]

\* BasicBlock::Create, with and without a parent function; the new block is
\* the last one.
Create(i) == [i EXCEPT !.blocks = Append(@, [Fresh EXCEPT !.placed = 1])]
CreateDetached(i) == [i EXCEPT !.blocks = Append(@, Fresh)]

\* getBasicBlockList().push_back
Place(i, b) ==
  IF b \in DOMAIN i.blocks THEN [i EXCEPT !.blocks[b].placed = @ + 1]
  ELSE Fault(i, "nullptr", TRUE)

SetInsertPoint(i, b) ==
  IF b \in DOMAIN i.blocks THEN [i EXCEPT !.at = b, !.paths = i.blocks[b].entry]
  ELSE Fault(i, "nullptr", TRUE)

\* Any instruction: nothing may follow a block's terminator.
Emit(i) == Fault(i, "after terminator", i.blocks[i.at].closed > 0)

Terminate(i, targets) ==
  [Fault(Emit(i), "nullptr", nullptr \in targets) EXCEPT
     !.blocks = [b \in DOMAIN i.blocks |->
       [i.blocks[b] EXCEPT
          !.closed   = IF b = i.at THEN @ + 1 ELSE @,
          !.targeted = @ \/ b \in targets,
          !.entry    = IF b \in targets THEN @ \cup i.paths ELSE @]],
     !.paths = {}]

CreateBr(i, b) == Terminate(i, {b})
CreateCondBr(i, b, c) == Terminate(i, {b, c})

\* variableMalloc and variableDestructThenFree, of each of some variables.
Allocate(i, variables) ==
  [Emit(i) EXCEPT !.paths = {[p EXCEPT !.live = @ \cup variables] : p \in @}]

Free(i, variables) ==
  [Fault(Emit(i), "double free", \E p \in i.paths : ~(variables \subseteq p.live))
     EXCEPT !.paths = {[p EXCEPT !.live = @ \ variables] : p \in @}]

\* The runtime stack, counted from where the subroutine found it: the items
\* an iterator loop allocates on it count as one.
StackAllocate(i) == [Emit(i) EXCEPT !.paths = {[p EXCEPT !.height = @ + 1] : p \in @}]

StackRestore(i, height) ==
  [Fault(Emit(i), "invalid restore", \E p \in i.paths : p.height < height)
     EXCEPT !.paths = {[p EXCEPT !.height = height] : p \in @}]

\* What runtimeStackSave returns here; no path arrives in unreachable code.
StackSave(i) == IF i.paths = {} THEN 0 ELSE (CHOOSE p \in i.paths : TRUE).height

CreateRet(i) ==
  Terminate(Fault(i, "leak", \E p \in i.paths : p.live # {} \/ p.height # 0), {})

(***************************************************************************)
(* Scopes.  The domain variables of an iterator loop live in a scope of    *)
(* their own around its body, kept here as the body's `outer` variables.   *)
(***************************************************************************)
\* A variable is named by the statement that declares it, and by its domain.
Variable(domain) == <<statements + 1, domain>>
Parameter == <<0, 0>>

Scope(kind, own) ==
  [kind |-> kind, own |-> own, variables |-> {}, outer |-> {},
   containReturn |-> FALSE, height |-> 0,
   elseIfs |-> 0, hasElse |-> FALSE, residual |-> nullptr]

Inner == open[Len(open)]
IsLoop(scope) == scope.kind \in LoopKinds
InLoop == \E d \in DOMAIN open : IsLoop(open[d])

InnermostLoop == CHOOSE d \in DOMAIN open :
  IsLoop(open[d]) /\ \A e \in d + 1 .. Len(open) : ~IsLoop(open[e])

\* A slip: only the innermost scope is freed.
VariablesFrom_OwnScopeOnly(depth) == Inner.variables

VariablesFrom(depth) == UNION {open[d].variables : d \in depth .. Len(open)}
AllVariables == UNION {open[d].variables \cup open[d].outer : d \in DOMAIN open}

\* blockStack[size - n], and the stack without its last n blocks.
FromTop(n) == blockStack[Len(blockStack) - n + 1]

\* A slip: one block too few is popped.
Popped_OneLeft(n) == SubSeq(blockStack, 1, Len(blockStack) - n + 1)

Popped(n) == SubSeq(blockStack, 1, Len(blockStack) - n)

\* A statement may come next.  Nothing follows a return in its block.
Statement ==
  /\ open # <<>> /\ ~Inner.containReturn
  /\ statements < MaxStatements
  /\ statements' = statements + 1

CompoundStatement == Statement /\ Len(open) < MaxDepth

NoJump == [statement |-> "none", target |-> nullptr]

Init ==
  /\ ir = LET entered == {[live |-> {Parameter}, height |-> 0]}
          IN  [blocks |-> <<[Fresh EXCEPT !.placed = 1, !.entry = entered]>>,
               at |-> 1, paths |-> entered, faults |-> {}]
  /\ blockStack = <<>>
  /\ hitReturnStat = FALSE
  /\ open = <<Scope("subroutine", <<>>)>>
  /\ jump = NoJump
  /\ statements = 0

(***************************************************************************)
(* Blocks.                                                                 *)
(***************************************************************************)
Enter(scope) ==
  /\ open' = Append(open, scope)
  /\ hitReturnStat' = FALSE
  /\ jump' = NoJump

\* visitVarDeclarationStatement; one per scope is enough.
Declare ==
  /\ Statement /\ Inner.variables = {}
  /\ ir' = Allocate(ir, {Variable(0)})
  /\ open' = [open EXCEPT ![Len(open)].variables = {Variable(0)}]
  /\ jump' = NoJump
  /\ UNCHANGED branch

EnterBlock ==
  /\ CompoundStatement
  /\ Enter(Scope("bare", <<>>))
  /\ UNCHANGED <<ir, blockStack>>

\* A slip: the variables of a block are kept until the subroutine returns.
EndBlock_NotFreed(scope) ==
  IF scope.kind = "bare" /\ hitReturnStat
  THEN SetInsertPoint(Create(ir), Len(ir.blocks) + 1) ELSE ir

\* The end of visitBlock: a return that ends a bare block gets an exit block.
EndBlock(scope) ==
  LET after == IF scope.kind = "bare" /\ hitReturnStat
               THEN SetInsertPoint(Create(ir), Len(ir.blocks) + 1) ELSE ir
  IN  IF scope.containReturn THEN after ELSE Free(after, scope.variables)

Leave ==
  /\ open' = Front(open)
  /\ hitReturnStat' = FALSE
  /\ jump' = NoJump
  /\ UNCHANGED statements

LeaveBlock ==
  /\ open # <<>> /\ Inner.kind = "bare"
  /\ ir' = EndBlock(Inner)
  /\ Leave
  /\ UNCHANGED blockStack

\* A subroutine that ends without a return statement gets a ret.
LeaveSubroutine ==
  /\ open # <<>> /\ Inner.kind = "subroutine"
  /\ ir' = IF Inner.containReturn THEN EndBlock(Inner)
           ELSE CreateRet(Free(EndBlock(Inner), {Parameter}))
  /\ open' = <<>>
  /\ jump' = NoJump
  /\ UNCHANGED <<branch, statements>>

(***************************************************************************)
(* Conditionals.  A body's `own` blocks are the first else-if's header,    *)
(* the else block and the merge block; the later headers pass through      *)
(* `residual`.                                                             *)
(***************************************************************************)
EnterConditional(elseIfs, hasElse) ==
  LET n == Len(ir.blocks)
      header == n + 1  body == n + 2  elseIf == n + 3  otherwise == n + 4  merge == n + 5
      created == CreateDetached(CreateDetached(CreateDetached(Create(Create(ir)))))
      next == IF elseIfs > 0 THEN elseIf ELSE IF hasElse THEN otherwise ELSE merge
  IN  /\ CompoundStatement
      /\ ir' = SetInsertPoint(
                 CreateCondBr(SetInsertPoint(CreateBr(created, header), header), body, next),
                 body)
      /\ Enter([Scope("arm", <<elseIf, otherwise, merge>>) EXCEPT
                  !.elseIfs = elseIfs, !.hasElse = hasElse])
      /\ UNCHANGED blockStack

\* A slip: the branch to the merge block is emitted after a return too.
EndArm_AlwaysBranches == CreateBr(EndBlock(Inner), Inner.own[3])
\* The end of a branch's body.
EndArm ==
  IF hitReturnStat THEN EndBlock(Inner) ELSE CreateBr(EndBlock(Inner), Inner.own[3])

\* Go on with the next branch of the conditional.
NextArm(arm) ==
  /\ open' = [open EXCEPT ![Len(open)] = arm]
  /\ hitReturnStat' = FALSE
  /\ jump' = NoJump
  /\ UNCHANGED <<blockStack, statements>>

ElseIf ==
  LET first == Inner.residual = nullptr
      header == IF first THEN Inner.own[1] ELSE Inner.residual
      last == Inner.elseIfs = 1
      placed == IF first THEN Place(EndArm, header) ELSE EndArm
      bodied == Create(SetInsertPoint(placed, header))
      body == Len(bodied.blocks)
      created == IF last THEN bodied ELSE Create(bodied)
      next == IF ~last THEN body + 1
              ELSE IF Inner.hasElse THEN Inner.own[2] ELSE Inner.own[3]
  IN  /\ open # <<>> /\ Inner.kind = "arm" /\ Inner.elseIfs > 0
      /\ ir' = SetInsertPoint(CreateCondBr(created, body, next), body)
      /\ NextArm([Scope("arm", Inner.own) EXCEPT
                    !.elseIfs = Inner.elseIfs - 1, !.hasElse = Inner.hasElse,
                    !.residual = IF last THEN Inner.residual ELSE next])

Else ==
  /\ open # <<>> /\ Inner.kind = "arm" /\ Inner.elseIfs = 0 /\ Inner.hasElse
  /\ ir' = SetInsertPoint(Place(EndArm, Inner.own[2]), Inner.own[2])
  /\ NextArm(Scope("arm", Inner.own))

\* A slip: the merge block is never added to the function.
LeaveConditional_MergeNotPlaced ==
  /\ open # <<>> /\ Inner.kind = "arm" /\ Inner.elseIfs = 0 /\ ~Inner.hasElse
  /\ ir' = SetInsertPoint(EndArm, Inner.own[3])
  /\ Leave
  /\ UNCHANGED blockStack

LeaveConditional ==
  /\ open # <<>> /\ Inner.kind = "arm" /\ Inner.elseIfs = 0 /\ ~Inner.hasElse
  /\ ir' = SetInsertPoint(Place(EndArm, Inner.own[3]), Inner.own[3])
  /\ Leave
  /\ UNCHANGED blockStack

(***************************************************************************)
(* Loops.  A loop's `own` blocks are the ones it pushes on blockStack.     *)
(***************************************************************************)
\* A slip: the merge block is pushed but was not created.
EnterInfiniteLoop_NoMerge ==
  LET body == Len(ir.blocks) + 1
      own == <<body, nullptr, body + 1>>
  IN  /\ CompoundStatement /\ "infinite" \in Loops
      /\ ir' = SetInsertPoint(CreateBr(Create(ir), body), body)
      /\ blockStack' = blockStack \o own
      /\ Enter(Scope("infinite", own))

EnterInfiniteLoop ==
  LET body == Len(ir.blocks) + 1
      own == <<body, nullptr, body + 1>>
  IN  /\ CompoundStatement /\ "infinite" \in Loops
      /\ ir' = SetInsertPoint(CreateBr(CreateDetached(Create(ir)), body), body)
      /\ blockStack' = blockStack \o own
      /\ Enter(Scope("infinite", own))

LeaveInfiniteLoop ==
  LET own == Inner.own
      closed == IF hitReturnStat THEN EndBlock(Inner) ELSE CreateBr(EndBlock(Inner), own[1])
  IN  /\ open # <<>> /\ Inner.kind = "infinite"
      /\ ir' = SetInsertPoint(Place(closed, own[3]), own[3])
      /\ blockStack' = Popped(3)
      /\ Leave

EnterPrePredicatedLoop ==
  LET condition == Len(ir.blocks) + 1
      own == <<condition, condition + 1, condition + 2>>
      created == CreateDetached(Create(Create(ir)))
      entered == SetInsertPoint(CreateBr(created, condition), condition)
  IN  /\ CompoundStatement /\ "prepred" \in Loops
      /\ ir' = SetInsertPoint(CreateCondBr(entered, own[2], own[3]), own[2])
      /\ blockStack' = blockStack \o own
      /\ Enter(Scope("prepred", own))

LeavePrePredicatedLoop ==
  LET merge == FromTop(1)
      closed == IF hitReturnStat THEN EndBlock(Inner)
                ELSE CreateBr(EndBlock(Inner), FromTop(3))
  IN  /\ open # <<>> /\ Inner.kind = "prepred"
      /\ ir' = SetInsertPoint(Place(closed, merge), merge)
      /\ blockStack' = Popped(3)
      /\ Leave

EnterPostPredicatedLoop ==
  LET body == Len(ir.blocks) + 1
      own == <<body, body + 1, body + 2>>
      created == CreateDetached(Create(Create(ir)))
  IN  /\ CompoundStatement /\ "postpred" \in Loops
      /\ ir' = SetInsertPoint(CreateBr(created, body), body)
      /\ blockStack' = blockStack \o own
      /\ Enter(Scope("postpred", own))

LeavePostPredicatedLoop ==
  LET condition == FromTop(2)
      merge == FromTop(1)
      closed == IF hitReturnStat THEN EndBlock(Inner)
                ELSE CreateBr(EndBlock(Inner), condition)
      tested == CreateCondBr(SetInsertPoint(closed, condition), FromTop(3), merge)
  IN  /\ open # <<>> /\ Inner.kind = "postpred"
      /\ ir' = SetInsertPoint(Place(tested, merge), merge)
      /\ blockStack' = Popped(3)
      /\ Leave

(***************************************************************************)
(* The iterator loop.  Domain d has three blocks, its header, body and     *)
(* merge, d = 1 being the outermost; each header leads to the next one,    *)
(* the last one to the loop's body.                                        *)
(***************************************************************************)
\* Header d tests its index: on to header d + 1 or the body, or out.
TestDomain(i, own, d) ==
  CreateCondBr(SetInsertPoint(i, own[3 * d - 2]),
               IF 3 * d = Len(own) THEN own[3 * d - 1] ELSE own[3 * d + 1],
               own[3 * d])

\* The blocks of all the domains.
CreateDomains(i, domains) ==
  LET created[d \in 0 .. domains] ==
        IF d = 0 THEN i ELSE CreateDetached(CreateDetached(Create(created[d - 1])))
  IN  created[domains]

TestDomains(i, own, domains) ==
  LET tested[d \in 0 .. domains] ==
        IF d = 0 THEN i ELSE TestDomain(tested[d - 1], own, d)
  IN  tested[domains]

EnterIteratorLoop(domains) ==
  LET n == Len(ir.blocks)
      preHeader == n + 1
      own == [k \in 1 .. 3 * domains |-> preHeader + k]
      start == SetInsertPoint(CreateBr(Create(ir), preHeader), preHeader)
      domainVariables == {Variable(d) : d \in 1 .. domains}
      allocated == Allocate(StackAllocate(start), domainVariables)
      created == CreateDomains(allocated, domains)
      tested == TestDomains(CreateBr(created, own[1]), own, domains)
      body == own[3 * domains - 1]
  IN  /\ CompoundStatement /\ "iterator" \in Loops
      /\ InLoop /\ ~NestedDomains => domains = 1
      /\ ir' = SetInsertPoint(Place(tested, body), body)
      /\ blockStack' = blockStack \o own
      /\ Enter([Scope("iterator", own) EXCEPT
                  !.outer = domainVariables, !.height = StackSave(start)])

\* Domain d is left by its merge block, for the next iteration of domain d - 1.
\* Its blocks are looked up in the block stack as it is after the body.
LeaveDomain(i, domains, d) ==
  LET offset == 3 * (domains - d + 1)
      header == FromTop(offset)
      body == FromTop(offset - 1)
      merge == FromTop(offset - 2)
      closed == CreateBr(SetInsertPoint(Place(i, body), body), header)
      merged == SetInsertPoint(Place(closed, merge), merge)
  IN  IF d = 1 THEN merged ELSE CreateBr(merged, FromTop(offset + 2))

\* The domains outside the innermost one, from the inside out.
LeaveDomains(i, domains) ==
  LET left[d \in 0 .. domains - 1] ==
        IF d = 0 THEN i ELSE LeaveDomain(left[d - 1], domains, domains - d)
  IN  left[domains - 1]

LeaveIteratorLoop ==
  LET own == Inner.own
      domains == Len(own) \div 3
      header == own[3 * domains - 2]
      merge == own[3 * domains]
      closed == IF hitReturnStat THEN EndBlock(Inner) ELSE CreateBr(EndBlock(Inner), header)
      merged == SetInsertPoint(Place(closed, merge), merge)
      innermost == IF domains = 1 THEN merged ELSE CreateBr(merged, own[3 * domains - 4])
      left == LeaveDomains(innermost, domains)
  IN  /\ open # <<>> /\ Inner.kind = "iterator"
      /\ ir' = StackRestore(Free(left, Inner.outer), Inner.height)
      /\ blockStack' = Popped(3)
      /\ Leave

(***************************************************************************)
(* Jumps.                                                                  *)
(***************************************************************************)
\* visitBreak and visitContinue, but for the target: the variables of the
\* scopes up to the loop's body are freed, and what follows is unreachable.
JumpTo(statement, target) ==
  LET n == Len(ir.blocks)
      freed == Free(ir, VariablesFrom(InnermostLoop))
      jumped == CreateBr(SetInsertPoint(CreateBr(Create(Create(freed)), n + 1), n + 1), target)
  IN  /\ Statement /\ InLoop
      /\ ir' = SetInsertPoint(jumped, n + 2)
      /\ jump' = [statement |-> statement, target |-> target]
      /\ UNCHANGED <<branch, open>>

Break == InLoop /\ JumpTo("break", FromTop(1))

Continue == InLoop /\ JumpTo("continue", FromTop(3))

\* visitReturn: everything the subroutine holds is released.
Return ==
  /\ Statement
  /\ ir' = CreateRet(StackRestore(Free(Free(ir, {Parameter}), AllVariables), 0))
  /\ hitReturnStat' = TRUE
  /\ open' = [open EXCEPT ![Len(open)].containReturn = TRUE]
  /\ jump' = NoJump
  /\ UNCHANGED blockStack

Next ==
  \/ Declare
  \/ EnterBlock \/ LeaveBlock \/ LeaveSubroutine
  \/ \E elseIfs \in ElseIfs, hasElse \in BOOLEAN : EnterConditional(elseIfs, hasElse)
  \/ ElseIf \/ Else \/ LeaveConditional
  \/ EnterInfiniteLoop \/ LeaveInfiniteLoop
  \/ EnterPrePredicatedLoop \/ LeavePrePredicatedLoop
  \/ EnterPostPredicatedLoop \/ LeavePostPredicatedLoop
  \/ \E domains \in Domains : EnterIteratorLoop(domains)
  \/ LeaveIteratorLoop
  \/ Break \/ Continue \/ Return

Spec == Init /\ [][Next]_vars

(***************************************************************************)
(* Properties.                                                             *)
(***************************************************************************)
Paths == [live : SUBSET ((0 .. MaxStatements) \X Nat), height : Nat]

Faults == {"after terminator", "nullptr", "double free", "invalid restore", "leak"}

TypeOK ==
  /\ ir.at \in DOMAIN ir.blocks
  /\ \A b \in DOMAIN ir.blocks :
       ir.blocks[b] \in [placed : Nat, closed : Nat, targeted : BOOLEAN, entry : SUBSET Paths]
  /\ ir.paths \subseteq Paths
  /\ ir.faults \subseteq Faults
  /\ blockStack \in Seq(DOMAIN ir.blocks \cup {nullptr})
  /\ hitReturnStat \in BOOLEAN
  /\ \A d \in DOMAIN open :
       open[d] \in [kind : LoopKinds \cup {"subroutine", "bare", "arm"},
                    own : Seq(DOMAIN ir.blocks \cup {nullptr}),
                    variables : SUBSET ((0 .. MaxStatements) \X Nat),
                    outer : SUBSET ((0 .. MaxStatements) \X Nat),
                    containReturn : BOOLEAN, height : Nat, elseIfs : Nat,
                    hasElse : BOOLEAN, residual : DOMAIN ir.blocks \cup {nullptr}]
  /\ jump \in [statement : {"none", "break", "continue"},
              target : DOMAIN ir.blocks \cup {nullptr}]
  /\ statements \in 0 .. MaxStatements

(***************************************************************************)
(* A break goes to the merge block of the loop it is in.  A continue goes  *)
(* to the first block of that loop (of its innermost domain), whatever     *)
(* else has been pushed on the block stack: the block of the condition of  *)
(* a pre-predicated loop, the header of an iterator loop, the body of an   *)
(* infinite and also of a post-predicated loop.  In the last of these that *)
(* is the code's behaviour and not what one would want: the condition,     *)
(* which comes after the body (LLVMIRBranch.cpp:65), is not tested, and    *)
(* the body runs once more whatever it says.                               *)
(***************************************************************************)
JumpsStayInTheirLoop ==
  LET own == open[InnermostLoop].own IN
  /\ jump.statement = "break" => jump.target = Last(own)
  /\ jump.statement = "continue" => jump.target = own[Len(own) - 2]

(***************************************************************************)
(* At every point of the generated code, whichever way it was reached,     *)
(* the live variables are those declared so far in the scopes around it,   *)
(* and the runtime stack holds the items of the iterator loops around it.  *)
(***************************************************************************)
LiveIsLexical ==
  \A p \in ir.paths :
    /\ p.live = {Parameter} \cup UNION {open[d].variables \cup open[d].outer : d \in DOMAIN open}
    /\ p.height = Cardinality({d \in DOMAIN open : open[d].kind = "iterator"})

\* All ways into a block agree on what is live, so a variable is freed once
\* whichever of them is taken.
PathsAgree == \A b \in DOMAIN ir.blocks : Cardinality(ir.blocks[b].entry) <= 1

(***************************************************************************)
(* Along every path of the generated code, no variable is freed twice, a   *)
(* return leaves nothing behind, no restore is refused by the runtime      *)
(* stack, and no instruction follows a terminator.                         *)
(***************************************************************************)
EmittedCodeIsSound == ir.faults = {}

\* In a finished function every block that is in it or branched to is in it
\* once and ends in one terminator: what LLVM demands of a function.
FunctionIsWellFormed ==
  open = <<>> =>
    \A b \in DOMAIN ir.blocks :
      ir.blocks[b].placed > 0 \/ ir.blocks[b].targeted =>
        ir.blocks[b].placed = 1 /\ ir.blocks[b].closed = 1

\* "clear the block stack": the stack holds the blocks of the loops the
\* generator is in, and nothing of the loops it has left.
BlockStackIsCleared ==
  blockStack = FlattenSeq([d \in DOMAIN open |-> IF IsLoop(open[d]) THEN open[d].own ELSE <<>>])
=============================================================================
