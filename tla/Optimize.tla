------------------------------ MODULE Optimize ------------------------------
(***************************************************************************)
(* WithLogs<Project>::optimize: the passes that simplify a program in      *)
(* normal form, in the order in which they run, and a machine that         *)
(* executes the program before and after each of them.                     *)
(*                                                                         *)
(* The program is one function, a sequence of blocks with expressions from *)
(* the module Expressions, that calls external functions.  The graph of    *)
(* get_program_cfg is reduced to its edges between blocks.  The dataflow   *)
(* analyses are iterated over all blocks until nothing changes; the        *)
(* worklist that does it in the program is the module Fixpoint.            *)
(***************************************************************************)
EXTENDS Expressions

CONSTANTS
  Programs,            \* the programs in normal form, with the register values they start with
  PhysicalRegisters,   \* Project::register_set
  StackPointer,
  MaxRecursionDepth,   \* InputExpressionPropagationPass::MAX_RECURSION_DEPTH
  MaxBlocks            \* how many blocks the machine executes

VARIABLES
  input,     \* the program before the first pass: its blocks, initial
             \* register values and whether it has callers
  blocks,    \* Sub::blocks
  pass       \* the next pass

vars == <<input, blocks, pass>>

Passes ==
  <<"InputExpressionPropagation", "TrivialExpressionSubstitution", "DeadVariableElim",
    "ControlFlowPropagation", "StackPointerAlignmentSubstitution", "done">>

Init ==
  /\ input \in Programs
  /\ blocks = input.blocks
  /\ pass = Head(Passes)

Run(name) ==
  /\ pass = name
  /\ pass' = Passes[(CHOOSE i \in DOMAIN Passes : Passes[i] = name) + 1]
  /\ UNCHANGED input

-----------------------------------------------------------------------------
(* Terms.                                                                  *)

Assign(var, value) == [kind |-> "Assign", var |-> var, value |-> value]
Load(var, address) == [kind |-> "Load", var |-> var, address |-> address]
Store(address, value) == [kind |-> "Store", address |-> address, value |-> value]

\* Jumps: expr is a condition or a computed target, target the block the jump
\* leads to or the call returns to.
Jmp(kind, expr, target) == [kind |-> kind, expr |-> expr, target |-> target]
HasExpr(j) == j.kind \in {"BranchInd", "CBranch", "CallInd", "Return"}
IsCall(j) == j.kind \in {"Call", "CallInd", "CallOther"}

Tids(blks) == {blks[i].tid : i \in DOMAIN blks}
BlockAt(blks, tid) == blks[CHOOSE i \in DOMAIN blks : blks[i].tid = tid]

\* The edges that lead from one block to another: the jump taken and, for the
\* second of two jumps, the condition that was not met.
Edges(blks) ==
  {<<b, k>> \in Range(blks) \X {1, 2} :
     /\ k \in DOMAIN b.jmps
     /\ b.jmps[k].target \in Tids(blks)}
EdgeJmp(edge) == edge[1].jmps[edge[2]]
Untaken(edge) == IF edge[2] = 2 THEN edge[1].jmps[1].expr ELSE None

Incoming(blks, tid) == {edge \in Edges(blks) : EdgeJmp(edge).target = tid}
Outgoing(blks, tid) == {edge \in Edges(blks) : edge[1].tid = tid}

\* The callers of the function have edges to its first block.
HasIncoming(blks, tid) ==
  Incoming(blks, tid) # {} \/ (input.called /\ tid = blks[1].tid)

\* Apply an operation to every expression of a definition, jump or program.
MapDef(d, Op(_)) ==
  CASE d.kind = "Assign" -> [d EXCEPT !.value = Op(@)]
    [] d.kind = "Load"   -> [d EXCEPT !.address = Op(@)]
    [] d.kind = "Store"  -> [d EXCEPT !.address = Op(@), !.value = Op(@)]
MapJmp(j, Op(_)) == IF HasExpr(j) THEN [j EXCEPT !.expr = Op(@)] ELSE j

DefExprs(d) ==
  CASE d.kind = "Assign" -> {d.value}
    [] d.kind = "Load"   -> {d.address}
    [] d.kind = "Store"  -> {d.address, d.value}
Exprs(blks) ==
  UNION {UNION {DefExprs(b.defs[i]) : i \in DOMAIN b.defs}
         \cup {b.jmps[k].expr : k \in {k \in DOMAIN b.jmps : HasExpr(b.jmps[k])}} :
           b \in Range(blks)}

-----------------------------------------------------------------------------
(* InputExpressionPropagationPass                                          *)

\* Term<Def>::recursion_depth of an assignment.
MergeTwo(acc, d) ==
  LET last == Last(acc)
      merged == [d EXCEPT !.value = substitute_input_var(@, last.var, last.value)]
  IN  IF /\ acc # <<>>
         /\ d.kind = "Assign" /\ last.kind = "Assign"
         /\ d.var = last.var
         /\ recursion_depth(merged.value) < MaxRecursionDepth
      THEN Front(acc) \o <<merged>>
      ELSE Append(acc, d)

\* Consecutive assignments to the same variable become one.
merge_def_assignments_to_same_var(defs) == FoldLeft(MergeTwo, <<>>, defs)

IfPerformed(result) == IF result.performed THEN result.e ELSE None

\* Mutant: no limit on the depth.
ExtendWithoutLimit(e, insertable) ==
  LET Insert(acc, v) ==
        IF v \in DOMAIN insertable
        THEN [e |-> substitute_input_var(acc.e, v, insertable[v]), performed |-> TRUE]
        ELSE acc
      start == [e |-> substitute_trivial_operations(e), performed |-> FALSE]
  IN  IfPerformed(FoldLeft(Insert, start, input_vars(e)))

\* Insert what is known about the inputs, unless the expression gets too deep.
\* None: nothing can be inserted.
extend_expression(e, insertable) ==
  LET Insert(acc, v) ==
        IF /\ v \in DOMAIN insertable
           /\ recursion_depth(acc.e) + recursion_depth(insertable[v]) < MaxRecursionDepth
        THEN [e |-> substitute_input_var(acc.e, v, insertable[v]), performed |-> TRUE]
        ELSE acc
      start == [e |-> substitute_trivial_operations(e), performed |-> FALSE]
  IN  IfPerformed(FoldLeft(Insert, start, input_vars(e)))

OrElse(extended, otherwise) == IF extended = None THEN otherwise ELSE extended
ExtendOr(e, insertable, otherwise) == OrElse(extend_expression(e, insertable), otherwise)

NothingInsertable == [v \in {} |-> None]

\* Mutant: an assignment leaves expressions that read the variable insertable.
KeepReaders(insertable, v) == insertable

\* Expressions that depend on the variable are no longer insertable.
KillReaders(insertable, v) ==
  Restrict(insertable, {w \in DOMAIN insertable : v \notin InputVars(insertable[w])})

\* The effect of a definition on the insertable expressions.
PropagateDef(insertable, d) ==
  CASE d.kind = "Assign" ->
         LET value == ExtendOr(d.value, insertable, substitute_trivial_operations(d.value))
         IN  KillReaders((d.var :> value) @@ insertable, d.var)
    [] d.kind = "Load"   ->
         KillReaders(Restrict(insertable, DOMAIN insertable \ {d.var}), d.var)
    [] d.kind = "Store"  -> insertable

MergeInsertable(a, b) == Restrict(a, {v \in DOMAIN a \cap DOMAIN b : a[v] = b[v]})

MergeAll(all) ==
  IF all = {} THEN None
  ELSE FoldFunction(MergeInsertable, CHOOSE a \in all : TRUE, [a \in all |-> a])

\* What is known at the start of every block; None where nothing has arrived.
\* Calls bring no knowledge back.
InsertableAfter(edge, value) ==
  IF IsCall(EdgeJmp(edge)) THEN NothingInsertable
  ELSE FoldLeft(PropagateDef, value, edge[1].defs)

ForwardStep(blks, value) ==
  LET Arriving(tid) ==
        {InsertableAfter(edge, value[edge[1].tid]) :
           edge \in {edge \in Incoming(blks, tid) : value[edge[1].tid] # None}}
  IN  [tid \in DOMAIN value |-> MergeAll(Arriving(tid) \cup ({value[tid]} \ {None}))]

RECURSIVE SolveForward(_, _, _)
SolveForward(blks, before, value) ==
  IF value = before THEN value ELSE SolveForward(blks, value, ForwardStep(blks, value))

compute_expression_propagation(blks) ==
  SolveForward(blks, <<>>, [tid \in Tids(blks) |->
    IF ~HasIncoming(blks, tid) \/ tid = blks[1].tid THEN NothingInsertable ELSE None])

\* Insert what is known into the definitions and jumps of a block.
propagate_input_expressions(b, known) ==
  LET Taken(acc, d, new) ==
        [defs |-> Append(acc.defs, new),
         insertable |->
           IF d.kind = "Assign"
           THEN KillReaders((d.var :> new.value) @@ acc.insertable, d.var)
           ELSE PropagateDef(acc.insertable, d)]
      Step(acc, d) ==
        LET Ext(e) == ExtendOr(e, acc.insertable,
                               IF d.kind = "Assign" THEN substitute_trivial_operations(e) ELSE e)
        IN  Taken(acc, d, MapDef(d, Ext))
      start == [defs |-> <<>>,
                insertable |-> IF known = None THEN NothingInsertable ELSE known]
      Finished(end) ==
        LET ExtJmp(e) == ExtendOr(e, end.insertable, e)
        IN  [b EXCEPT !.defs = end.defs,
                      !.jmps = [k \in DOMAIN b.jmps |-> MapJmp(b.jmps[k], ExtJmp)]]
  IN  Finished(FoldLeft(Step, start, b.defs))

InputExpressionPropagation ==
  /\ Run("InputExpressionPropagation")
  /\ LET merged == [i \in DOMAIN blocks |->
                      [blocks[i] EXCEPT !.defs = merge_def_assignments_to_same_var(@)]]
         known == compute_expression_propagation(merged)
     IN  blocks' = [i \in DOMAIN blocks |->
                      propagate_input_expressions(merged[i], known[merged[i].tid])]

-----------------------------------------------------------------------------
(* TrivialExpressionSubstitutionPass                                       *)

TrivialExpressionSubstitution ==
  /\ Run("TrivialExpressionSubstitution")
  /\ blocks' = [i \in DOMAIN blocks |->
       [blocks[i] EXCEPT
          !.defs = [k \in DOMAIN @ |-> MapDef(@[k], substitute_trivial_operations)],
          !.jmps = [k \in DOMAIN @ |-> MapJmp(@[k], substitute_trivial_operations)]]]

-----------------------------------------------------------------------------
(* DeadVariableElimPass                                                    *)

\* The variables alive before a definition, from those alive after it.
update_alive_vars_by_def(d, alive) ==
  CASE d.kind = "Assign" ->
         IF d.var \in alive THEN (alive \ {d.var}) \cup InputVars(d.value) ELSE alive
    [] d.kind = "Load"   -> (alive \ {d.var}) \cup InputVars(d.address)
    [] d.kind = "Store"  -> alive \cup InputVars(d.address) \cup InputVars(d.value)

\* update_jumpsite and update_call_stub, for one edge.
AliveBefore(edge, alive_at_target) ==
  LET j == EdgeJmp(edge)
      inputs == IF HasExpr(j) THEN InputVars(j.expr) ELSE {}
  IN  IF IsCall(j) THEN PhysicalRegisters \cup inputs
      ELSE alive_at_target \cup inputs
           \cup (IF Untaken(edge) = None THEN {} ELSE InputVars(Untaken(edge)))

\* Where the function ends, or the graph does, all registers are alive.
DeadEnd(b) ==
  PhysicalRegisters \cup
    UNION {InputVars(b.jmps[k].expr) :
             k \in {k \in DOMAIN b.jmps : b.jmps[k].kind \in {"CallInd", "BranchInd", "CBranch"}}}

AliveAtStart(b, alive) == FoldRight(update_alive_vars_by_def, b.defs, alive)

RECURSIVE SolveBackward(_, _)
SolveBackward(blks, alive) ==
  LET new == [tid \in DOMAIN alive |->
        alive[tid] \cup
          UNION {LET target == BlockAt(blks, EdgeJmp(edge).target)
                 IN  AliveBefore(edge, AliveAtStart(target, alive[target.tid])) :
                   edge \in Outgoing(blks, tid)}]
  IN  IF new = alive THEN alive ELSE SolveBackward(blks, new)

\* The variables alive at the end of every block.
compute_alive_vars(blks) ==
  SolveBackward(blks, [tid \in Tids(blks) |->
    IF Outgoing(blks, tid) = {} THEN DeadEnd(BlockAt(blks, tid)) ELSE {}])

remove_dead_var_assignments_of_block(b, alive_at_end) ==
  LET Step(d, acc) ==
        IF d.kind = "Assign" /\ d.var \notin acc.alive THEN acc
        ELSE [defs |-> <<d>> \o acc.defs, alive |-> update_alive_vars_by_def(d, acc.alive)]
  IN  [b EXCEPT !.defs = FoldRight(Step, @, [defs |-> <<>>, alive |-> alive_at_end]).defs]

DeadVariableElim ==
  /\ Run("DeadVariableElim")
  /\ LET alive == compute_alive_vars(blocks)
     IN  blocks' = [i \in DOMAIN blocks |->
                      remove_dead_var_assignments_of_block(blocks[i], alive[blocks[i].tid])]

-----------------------------------------------------------------------------
(* ControlFlowPropagationPass                                              *)

negate_condition(e) == IF e.kind = "UnOp" /\ e.op = "BoolNegate" THEN e.arg ELSE UnOp("BoolNegate", e)

\* The condition under which an edge is taken, or None.
EdgeCondition(edge) ==
  CASE EdgeJmp(edge).kind = "CBranch" -> EdgeJmp(edge).expr
    [] EdgeJmp(edge).kind = "Branch" /\ Untaken(edge) # None -> negate_condition(Untaken(edge))
    [] OTHER -> None

\* The condition that holds on all edges to a block: a set with one or no element.
get_precondition_from_incoming_edges(blks, tid) ==
  LET conditions == {EdgeCondition(edge) : edge \in Incoming(blks, tid)}
  IN  IF Cardinality(conditions) = 1 THEN conditions \ {None} ELSE {}

get_block_precondition_after_defs(blks, b) ==
  IF b.tid = blks[1].tid THEN {}
  ELSE {c \in get_precondition_from_incoming_edges(blks, b.tid) :
          \A i \in DOMAIN b.defs : b.defs[i].kind # "Store" => b.defs[i].var \notin InputVars(c)}

IsIfElse(b) == Len(b.jmps) = 2 /\ b.jmps[1].kind = "CBranch" /\ b.jmps[2].kind = "Branch"

\* The block an empty block leads to if all true_conditions hold, or None.
check_for_retargetable_block(b, true_conditions) ==
  LET Resolved(c) ==
        IF b.jmps[1].expr = c THEN b.jmps[1].target
        ELSE IF b.jmps[1].expr = negate_condition(c) THEN b.jmps[2].target ELSE None
  IN  CASE b.defs # <<>> -> None
        [] b.defs = <<>> /\ Len(b.jmps) = 1 /\ b.jmps[1].kind = "Branch" -> b.jmps[1].target
        [] b.defs = <<>> /\ IsIfElse(b) ->
             LET found == SelectSeq([i \in DOMAIN true_conditions |-> Resolved(true_conditions[i])],
                                    LAMBDA t : t # None)
             IN  IF found = <<>> THEN None ELSE found[1]
        [] OTHER -> None

RECURSIVE FollowJumps(_, _, _, _)
FollowJumps(blks, target, visited, true_conditions) ==
  IF target \notin Tids(blks) THEN target
  ELSE LET next == check_for_retargetable_block(BlockAt(blks, target), true_conditions)
       IN  IF next \in visited \cup {None} THEN target
           ELSE FollowJumps(blks, next, visited \cup {next}, true_conditions)

find_target_for_retargetable_jump(blks, target, true_conditions) ==
  FollowJumps(blks, target, {target}, true_conditions)

\* The jumps of a block with the targets that the pass finds for them.
RetargetBlock(blks, b) ==
  LET known == SetToSeq(get_block_precondition_after_defs(blks, b))
      New(k, conditions) ==
        [b.jmps[k] EXCEPT !.target = find_target_for_retargetable_jump(blks, @, conditions)]
  IN  CASE Len(b.jmps) = 1 /\ IsCall(b.jmps[1]) /\ b.jmps[1].target # None ->
             [b EXCEPT !.jmps = <<New(1, <<>>)>>]
        [] Len(b.jmps) = 1 /\ b.jmps[1].kind = "Branch" -> [b EXCEPT !.jmps = <<New(1, known)>>]
        [] IsIfElse(b) ->
             [b EXCEPT !.jmps = <<New(1, known \o <<b.jmps[1].expr>>),
                                  New(2, known \o <<negate_condition(b.jmps[1].expr)>>)>>]
        [] OTHER -> b

get_nodes_without_incoming_edge(blks) == {tid \in Tids(blks) : ~HasIncoming(blks, tid)}

ControlFlowPropagation ==
  /\ Run("ControlFlowPropagation")
  /\ LET retargeted == [i \in DOMAIN blocks |-> RetargetBlock(blocks, blocks[i])]
         orphans == get_nodes_without_incoming_edge(retargeted)
                      \ get_nodes_without_incoming_edge(blocks)
     IN  blocks' = SelectSeq(retargeted, LAMBDA b : b.tid \notin orphans)

-----------------------------------------------------------------------------
(* StackPointerAlignmentSubstitutionPass                                   *)

\* The first block with definitions on the way of unconditional jumps, or None.
RECURSIVE FirstWithDefs(_, _, _)
FirstWithDefs(blks, b, visited) ==
  CASE b.defs # <<>> -> b.tid
    [] b.defs = <<>> /\ b.jmps # <<>> /\ b.tid \notin visited ->
         IF b.jmps[1].kind = "Branch" /\ b.jmps[1].target \in Tids(blks)
         THEN FirstWithDefs(blks, BlockAt(blks, b.jmps[1].target), visited \cup {b.tid})
         ELSE None
    [] OTHER -> None

get_first_blk_with_defs(blks) == FirstWithDefs(blks, blks[1], {})

\* The constant of an operation on a variable and a constant, or None.
ConstOperand(e) ==
  CASE e.lhs.kind = "Var" /\ IsConst(e.rhs) -> e.rhs
    [] IsConst(e.lhs) /\ e.rhs.kind = "Var" -> e.lhs
    [] OTHER                                -> None
VarOperand(e) == IF e.lhs.kind = "Var" THEN e.lhs ELSE e.rhs

\* The journaled value is that of the stack pointer relative to its initial one.
\* An AND with a mask becomes the subtraction with the same effect on it.
substitute(e, journaled_sp) ==
  LET mask == ConstOperand(e)
      masked == FromBits(Bits(journaled_sp, mask.size) \cap Bits(mask.value, mask.size), mask.size)
  IN  BinOp("IntSub", VarOperand(e), Const(Wrap(journaled_sp - masked, mask.size), mask.size))

\* One definition: the journal is None once the stack pointer was lost.
JournalDef(acc, d) ==
  LET keep == [acc EXCEPT !.defs = Append(@, d)]
      lost == [keep EXCEPT !.sp = None]
      c == ConstOperand(d.value)
  IN  CASE acc.sp = None \/ d.kind # "Assign" -> keep
        [] acc.sp # None /\ d.kind = "Assign" ->
             IF d.var # StackPointer THEN keep
             ELSE IF d.value.kind # "BinOp" THEN lost
             ELSE IF c = None THEN lost
             ELSE IF d.value.op \in {"IntAdd", "IntSub"}
             THEN IF VarOperand(d.value).var # StackPointer THEN lost
                  ELSE [keep EXCEPT !.sp = IF d.value.op = "IntAdd" THEN @ + c.value ELSE @ - c.value]
             ELSE IF d.value.op = "IntAnd"
             THEN [acc EXCEPT !.defs = Append(@, [d EXCEPT !.value = substitute(@, acc.sp)])]
             ELSE lost

substitute_and_on_stackpointer(blks) ==
  [i \in DOMAIN blks |->
     IF blks[i].tid # get_first_blk_with_defs(blks) THEN blks[i]
     ELSE [blks[i] EXCEPT !.defs = FoldLeft(JournalDef, [defs |-> <<>>, sp |-> 0], @).defs]]

StackPointerAlignmentSubstitution ==
  /\ Run("StackPointerAlignmentSubstitution")
  /\ blocks' = substitute_and_on_stackpointer(blocks)

-----------------------------------------------------------------------------

Next ==
  \/ InputExpressionPropagation
  \/ TrivialExpressionSubstitution
  \/ DeadVariableElim
  \/ ControlFlowPropagation
  \/ StackPointerAlignmentSubstitution
  \/ pass = "done" /\ UNCHANGED vars

Spec == Init /\ [][Next]_vars

-----------------------------------------------------------------------------
(* The machine.  Its trace is what others can see of an execution: memory  *)
(* accesses, calls and the end of the function, with the registers that    *)
(* callees and callers can read.                                           *)

Visible(regs) == Restrict(regs, PhysicalRegisters)

ExecDef(m, d) ==
  CASE d.kind = "Assign" -> [m EXCEPT !.regs[d.var] = Evaluate(d.value, m.regs)]
    [] d.kind = "Load"   ->
         LET a == Evaluate(d.address, m.regs)
         IN  [m EXCEPT !.regs[d.var] = IF a \in DOMAIN m.mem THEN m.mem[a] ELSE 0,
                       !.trace = Append(@, <<"load", a>>)]
    [] d.kind = "Store"  ->
         LET a == Evaluate(d.address, m.regs)
             v == Evaluate(d.value, m.regs)
         IN  [m EXCEPT !.mem = (a :> v) @@ @, !.trace = Append(@, <<"store", a, v>>)]

\* A callee may change all registers, and uses the temporaries for itself.
AfterCall(regs) ==
  [v \in DOMAIN regs |->
     IF v \in PhysicalRegisters /\ regs[v] # None THEN Wrap(1 - regs[v], SizeOf[v]) ELSE 0]

Finish(m, event) == [m EXCEPT !.at = None, !.trace = Append(@, event)]

ExecJmps(m, jmps) ==
  LET j == IF Len(jmps) = 2 /\ Evaluate(jmps[1].expr, m.regs) = 0 THEN jmps[2] ELSE jmps[1]
      target == IF HasExpr(j) THEN Evaluate(j.expr, m.regs) ELSE None
      called == Append(m.trace, <<"call", Visible(m.regs), target>>)
  IN  CASE j.kind \in {"Branch", "CBranch"} -> [m EXCEPT !.at = j.target]
        [] IsCall(j) -> [m EXCEPT !.at = j.target, !.trace = called, !.regs = AfterCall(@)]
        [] j.kind = "BranchInd" -> Finish(m, <<"jump", Visible(m.regs), target>>)
        [] j.kind = "Return"    -> Finish(m, <<"return", Visible(m.regs)>>)

\* Execute at most n blocks.
RECURSIVE Exec(_, _, _)
Exec(blks, m, n) ==
  IF m.at = None \/ n = 0 THEN m
  ELSE IF m.at \notin Tids(blks) THEN Finish(m, <<"missing">>)
  ELSE LET b == BlockAt(blks, m.at)
       IN  Exec(blks, ExecJmps(FoldLeft(ExecDef, m, b.defs), b.jmps), n - 1)

Execute(blks, regs) ==
  Exec(blks, [at |-> blks[1].tid, regs |-> regs, mem |-> <<>>, trace |-> <<>>], MaxBlocks)

-----------------------------------------------------------------------------
(* Properties.                                                             *)

\* optimize transforms the program into an equivalent one (project.rs): however
\* far the passes have come, every execution makes the same memory accesses and
\* calls, with the same register values, as in the program before them.
SameBehaviour ==
  LET Agree(before, after) ==
        IF before.at = None THEN after.at = None /\ after.trace = before.trace
        ELSE IsPrefix(before.trace, after.trace)
  IN  blocks # input.blocks => \A regs \in input.regs :
        Agree(Execute(input.blocks, regs), Execute(blocks, regs))

\* However expressions are inserted into each other along loops and chains of
\* assignments, none gets deeper than MAX_RECURSION_DEPTH allows.
DepthIsBounded ==
  \A e \in Exprs(blocks) :
    \/ recursion_depth(e) < MaxRecursionDepth
    \/ \E o \in Exprs(input.blocks) : recursion_depth(e) <= recursion_depth(o)
=============================================================================
