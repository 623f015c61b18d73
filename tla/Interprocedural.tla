--------------------------- MODULE Interprocedural ---------------------------
(***************************************************************************)
(* analysis/graph.rs builds the interprocedural control flow graph of a    *)
(* program, and the forward and backward GeneralizedContext turn an        *)
(* analysis into a fixpoint problem on it.  The module builds the graph,   *)
(* solves one forward and one backward problem and then runs the program.  *)
(*                                                                         *)
(* The analysis collects the states of a machine with one global register  *)
(* x and one local variable l per call, so that a result is wrong exactly  *)
(* if an execution leaves it.  The order of the computation is Fixpoint's  *)
(* concern: here some edge that is not stable is applied until all are.    *)
(***************************************************************************)
EXTENDS Naturals, Sequences

CONSTANTS
  Words,      \* what x and l can hold
  Programs,   \* records: subs, blks, extern_symbols, entry
  None,
  MaxDepth    \* bound on the call depth of an execution

ASSUME DepthAssumption == MaxDepth \in Nat
ASSUME WordsAssumption == 0 \in Words

States == [x : Words, l : Words]

-----------------------------------------------------------------------------
(* Programs.  def is the effect of the Defs of a block, ind the known      *)
(* targets of its indirect jump.  The condition of a CBranch is x # 0.     *)

IsJmp(j, blks) ==
  /\ j.kind \in {"Branch", "CBranch", "BranchInd", "Call", "CallInd", "CallOther", "Return"}
  /\ j.kind \in {"Branch", "CBranch"} => j.target \in blks
  /\ j.kind \in {"Call", "CallInd"} => j.return \in blks \cup {None}

\* Of two jumps at the end of a block the first one is conditional, and the
\* second one is not.
IsBlk(b, blks) ==
  /\ b.def \in [States -> States]
  /\ b.ind \subseteq blks
  /\ DOMAIN b.jmps \in {{}, {1}, {1, 2}}
  /\ \A k \in DOMAIN b.jmps : IsJmp(b.jmps[k], blks)
  /\ 2 \in DOMAIN b.jmps => b.jmps[1].kind = "CBranch" /\ b.jmps[2].kind # "CBranch"

ASSUME ProgramsAssumption ==
  \A p \in Programs :
    /\ None \notin DOMAIN p.blks
    /\ \A b \in DOMAIN p.blks : IsBlk(p.blks[b], DOMAIN p.blks)
    /\ \A f \in DOMAIN p.subs : p.subs[f] \in Seq(DOMAIN p.blks)
    /\ p.entry \in DOMAIN p.subs /\ p.subs[p.entry] # <<>>

VARIABLES
  program,
  builder,    \* the GraphBuilder
  phase,
  forward,    \* node values of the forward analysis, None if there is none
  backward,   \* node values of the backward analysis
  machine,    \* the execution: position, state and suspended callers, the last one first
  visited     \* history: the nodes and states the execution went through

vars == <<program, builder, phase, forward, backward, machine, visited>>

Jmps(b) == program.blks[b].jmps

-----------------------------------------------------------------------------
(* Nodes and edges.  A block occurs once per function it is reached in.    *)

BlkStart(b, f) == [kind |-> "BlkStart", blk |-> b, sub |-> f]
BlkEnd(b, f) == [kind |-> "BlkEnd", blk |-> b, sub |-> f]
CallSource(source, target) == [kind |-> "CallSource", source |-> source, target |-> target]
CallReturn(call, return) == [kind |-> "CallReturn", call |-> call, return |-> return]

\* jmp is the position of the jump in its block, 0 for edges without one.
Edge(from, to, kind, jmp) == [from |-> from, to |-> to, kind |-> kind, jmp |-> jmp]

-----------------------------------------------------------------------------
(* GraphBuilder.  Graph, work list and return addresses are sets: their    *)
(* order does not influence the result.                                    *)

\* add_block for the pairs of a block and a function that have no node yet.
AddBlocks(g, blocks) ==
  LET new == blocks \ g.jump_targets
  IN  [nodes |-> g.nodes \cup {BlkStart(p[1], p[2]) : p \in new}
                          \cup {BlkEnd(p[1], p[2]) : p \in new},
       edges |-> g.edges
         \cup {Edge(BlkStart(p[1], p[2]), BlkEnd(p[1], p[2]), "Block", 0) : p \in new},
       jump_targets |-> g.jump_targets \cup new,
       block_worklist |-> g.block_worklist \cup {BlkEnd(p[1], p[2]) : p \in new},
       return_addresses |-> g.return_addresses]

EmptyBuilder ==
  [nodes |-> {}, edges |-> {}, jump_targets |-> {}, block_worklist |-> {},
   return_addresses |-> [f \in DOMAIN program.subs |-> {}]]

add_program_blocks ==
  AddBlocks(EmptyBuilder,
            UNION {{<<program.subs[f][i], f>> : i \in DOMAIN program.subs[f]} :
                     f \in DOMAIN program.subs})

call_targets ==
  [f \in {f \in DOMAIN program.subs : program.subs[f] # <<>>} |-> BlkStart(program.subs[f][1], f)]

IsExternCall(j) == j.kind = "CallInd" \/ (j.kind = "Call" /\ j.target \in program.extern_symbols)

\* Calls of functions without code are neither internal nor external.
IsInternalCall(j) ==
  j.kind = "Call" /\ j.target \notin program.extern_symbols /\ j.target \in DOMAIN call_targets

\* The blocks a jump leads to in the same function, after the return for a call.
\* CallOther is a dead end, returns are handled in add_return_edges.
NextBlocks(b, jmp) ==
  LET j == Jmps(b)[jmp]
  IN  CASE j.kind \in {"Branch", "CBranch"} -> {j.target}
        [] j.kind = "BranchInd" -> program.blks[b].ind
        [] j.kind \in {"Call", "CallInd"} -> {j.return} \ {None}
        [] OTHER -> {}

EdgesTo(source, jmp, kind) ==
  {Edge(source, BlkStart(t, source.sub), kind, jmp) : t \in NextBlocks(source.blk, jmp)}

CallNode(source, j) == CallSource(source, call_targets[j.target])

\* The edges add_jump_edge adds for a jump.
JumpEdges(source, jmp) ==
  LET j == Jmps(source.blk)[jmp]
  IN  CASE j.kind \in {"Branch", "CBranch", "BranchInd"} -> EdgesTo(source, jmp, "Jump")
        [] IsExternCall(j) -> EdgesTo(source, jmp, "ExternCallStub")
        [] IsInternalCall(j) ->
             {Edge(source, CallNode(source, j), "CallCombine", jmp),
              Edge(CallNode(source, j), call_targets[j.target], "Call", jmp)}
        [] OTHER -> {}

\* The call nodes it adds, and where they return to.
InternalCalls(source) ==
  {jmp \in DOMAIN Jmps(source.blk) : IsInternalCall(Jmps(source.blk)[jmp])}
CallNodes(source) == {CallNode(source, Jmps(source.blk)[jmp]) : jmp \in InternalCalls(source)}
ReturnAddresses(source, f) ==
  {<<CallNode(source, Jmps(source.blk)[jmp]), BlkStart(Jmps(source.blk)[jmp].return, source.sub)>> :
     jmp \in {k \in InternalCalls(source) :
                Jmps(source.blk)[k].target = f /\ Jmps(source.blk)[k].return # None}}

\* Mutant: only the last call of a function is remembered.
LastReturnAddresses(addresses, source) ==
  [f \in DOMAIN addresses |->
     IF ReturnAddresses(source, f) = {} THEN addresses[f] ELSE ReturnAddresses(source, f)]

WithReturnAddresses(addresses, source) ==
  [f \in DOMAIN addresses |-> addresses[f] \cup ReturnAddresses(source, f)]

add_outgoing_edges(g, source) ==
  LET jmps == DOMAIN Jmps(source.blk)
  IN  [AddBlocks(g, (UNION {NextBlocks(source.blk, jmp) : jmp \in jmps}) \X {source.sub}) EXCEPT
         !.nodes = @ \cup CallNodes(source),
         !.edges = @ \cup UNION {JumpEdges(source, jmp) : jmp \in jmps},
         !.return_addresses = WithReturnAddresses(@, source)]

HasReturn(b) == \E k \in DOMAIN Jmps(b) : Jmps(b)[k].kind = "Return"

CallJmp(b) == CHOOSE k \in DOMAIN Jmps(b) : Jmps(b)[k].kind = "Call"

\* Every return of f and every call of f: the CallReturn node that connects
\* them, the node of the call and the node it returns to.
Returns(g) ==
  UNION {{[node |-> CallReturn(r[1].source, n), call |-> r[1], to |-> r[2]] :
            r \in g.return_addresses[n.sub]} :
           n \in {n \in g.nodes : n.kind = "BlkEnd" /\ HasReturn(n.blk)}}

add_return_edges(g) ==
  [g EXCEPT
     !.nodes = @ \cup {c.node : c \in Returns(g)},
     !.edges = @ \cup {Edge(c.call, c.node, "CrCallStub", 0) : c \in Returns(g)}
                 \cup {Edge(c.node.return, c.node, "CrReturnStub", 0) : c \in Returns(g)}
                 \cup {Edge(c.node, c.to, "ReturnCombine", CallJmp(c.node.call.blk)) :
                         c \in Returns(g)}]

-----------------------------------------------------------------------------
(* The collecting analysis: a callee starts with l = 0, and external       *)
(* functions leave any x.  The operators named after methods of the        *)
(* Context traits are those of this analysis.                              *)

InCallee(s) == [s EXCEPT !.l = 0]

\* The state after a return, from the state of the callee and the one at the call.
AfterReturn(callee, caller) == [x |-> callee.x, l |-> caller.l]

update_def(v, def) == {def[s] : s \in v}
specialize_conditional(v, is_true) ==
  LET taken == {s \in v : (s.x # 0) = is_true} IN IF taken = {} THEN None ELSE taken
update_call(v) == {InCallee(s) : s \in v}
update_call_stub(v) == {[s EXCEPT !.x = i] : s \in v, i \in Words}
update_return(v, before) ==
  IF v = None \/ before = None THEN None ELSE {AfterReturn(s, c) : s \in v, c \in before}

bw_update_def(v, def) == {s \in States : def[s] \in v}
bw_update_call_stub(v) == {s \in States : \E i \in Words : [s EXCEPT !.x = i] \in v}
split_call_stub(v) == v
split_return_stub(v) == {s \in States : \E c \in v : c.x = s.x}
update_callsite(target, return) ==
  IF target = None \/ return = None THEN None
  ELSE {s \in States : InCallee(s) \in target /\ \E c \in return : c.l = s.l}

-----------------------------------------------------------------------------
(* GeneralizedContext                                                      *)

PlainValues == [kind : {"Value"}, value : SUBSET States]
CombinatorValues ==
  [kind : {"CallFlowCombinator"}, call_stub : (SUBSET States) \cup {None},
   interprocedural_flow : (SUBSET States) \cup {None}]

ASSUME NoneAssumption ==
  \A v \in PlainValues \cup CombinatorValues \cup SUBSET States : v # None

Value(v) == IF v = None THEN None ELSE [kind |-> "Value", value |-> v]
CallFlowCombinator(call, flow) ==
  [kind |-> "CallFlowCombinator", call_stub |-> call, interprocedural_flow |-> flow]

MergeOption(v, w) == IF v = None THEN w ELSE IF w = None THEN v ELSE v \cup w

merge(v, w) ==
  IF v = None THEN w
  ELSE IF w = None THEN v
  ELSE IF v.kind = "Value" /\ w.kind = "Value" THEN Value(v.value \cup w.value)
  ELSE CallFlowCombinator(MergeOption(v.call_stub, w.call_stub),
                          MergeOption(v.interprocedural_flow, w.interprocedural_flow))

\* The condition of the jump, or of the untaken conditional jump before it.
ConditionalValue(v, b, jmp) ==
  IF Jmps(b)[jmp].kind = "CBranch" THEN specialize_conditional(v, TRUE)
  ELSE IF jmp > 1 THEN specialize_conditional(v, FALSE)
  ELSE v

FromCallSite(nv) == CallFlowCombinator(nv.value, None)

\* Mutant: the two values are swapped.
CombineSwapped(nv) == Value(update_return(nv.call_stub, nv.interprocedural_flow))

ReturnCombine(nv) == Value(update_return(nv.interprocedural_flow, nv.call_stub))

update_edge(nv, e) ==
  CASE e.kind = "Block" -> Value(update_def(nv.value, program.blks[e.from.blk].def))
    [] e.kind = "CallCombine" -> nv
    [] e.kind = "Call" -> Value(update_call(nv.value))
    [] e.kind = "CrCallStub" -> FromCallSite(nv)
    [] e.kind = "CrReturnStub" -> CallFlowCombinator(None, nv.value)
    [] e.kind = "ReturnCombine" -> ReturnCombine(nv)
    [] e.kind = "ExternCallStub" -> Value(update_call_stub(nv.value))
    [] e.kind = "Jump" -> Value(ConditionalValue(nv.value, e.from.blk, e.jmp))

\* Mutant: the two values are swapped.
CallCombineSwapped(nv) == Value(update_callsite(nv.call_stub, nv.interprocedural_flow))

CallCombine(nv) == Value(update_callsite(nv.interprocedural_flow, nv.call_stub))

\* The backward context does not refine values at conditional jumps.
bw_update_edge(nv, e) ==
  CASE e.kind = "Block" -> Value(bw_update_def(nv.value, program.blks[e.to.blk].def))
    [] e.kind = "ReturnCombine" -> nv
    [] e.kind = "Call" -> CallFlowCombinator(None, nv.value)
    [] e.kind = "CrCallStub" -> CallFlowCombinator(split_call_stub(nv.value), None)
    [] e.kind = "CrReturnStub" -> Value(split_return_stub(nv.value))
    [] e.kind = "CallCombine" -> CallCombine(nv)
    [] e.kind = "ExternCallStub" -> Value(bw_update_call_stub(nv.value))
    [] e.kind = "Jump" -> nv

-----------------------------------------------------------------------------
Init ==
  /\ program \in Programs
  /\ builder = add_program_blocks
  /\ phase = "edges"
  /\ forward = <<>>
  /\ backward = <<>>
  /\ machine = None
  /\ visited = {}

\* One iteration of add_jump_and_call_edges.
PopBlock ==
  /\ phase = "edges"
  /\ \E source \in builder.block_worklist :
       builder' = add_outgoing_edges([builder EXCEPT !.block_worklist = @ \ {source}], source)
  /\ UNCHANGED <<program, phase, forward, backward, machine, visited>>

Entry == call_targets[program.entry]

\* What the backward analysis looks for: returns from the entry point with x # 0.
Goal == {s \in States : s.x # 0}

\* The graph is complete; the forward analysis starts at the entry point with
\* any state, the backward analysis at the goal.
StartAnalyses ==
  /\ phase = "edges"
  /\ builder.block_worklist = {}
  /\ builder' = add_return_edges(builder)
  /\ forward' = [n \in builder'.nodes |-> IF n = Entry THEN Value(States) ELSE None]
  /\ backward' = [n \in builder'.nodes |->
                    IF n.kind = "BlkEnd" /\ n.sub = program.entry /\ HasReturn(n.blk)
                    THEN Value(Goal) ELSE None]
  /\ phase' = "solve"
  /\ UNCHANGED <<program, machine, visited>>

\* The value of the target of an edge after the edge is applied once more.
ForwardUpdated(e) == merge(forward[e.to], update_edge(forward[e.from], e))
BackwardUpdated(e) == merge(backward[e.from], bw_update_edge(backward[e.to], e))

ForwardUnstable ==
  {e \in builder.edges : forward[e.from] # None /\ ForwardUpdated(e) # forward[e.to]}
BackwardUnstable ==
  {e \in builder.edges : backward[e.to] # None /\ BackwardUpdated(e) # backward[e.from]}

SolveForward ==
  /\ phase = "solve"
  /\ ForwardUnstable # {}
  /\ LET e == CHOOSE e \in ForwardUnstable : TRUE
     IN  forward' = [forward EXCEPT ![e.to] = ForwardUpdated(e)]
  /\ UNCHANGED <<program, builder, phase, backward, machine, visited>>

\* The two analyses are independent; the backward one is solved second.
SolveBackward ==
  /\ phase = "solve"
  /\ ForwardUnstable = {}
  /\ BackwardUnstable # {}
  /\ LET e == CHOOSE e \in BackwardUnstable : TRUE
     IN  backward' = [backward EXCEPT ![e.from] = BackwardUpdated(e)]
  /\ UNCHANGED <<program, builder, phase, forward, machine, visited>>

-----------------------------------------------------------------------------
(* An execution of the program.                                            *)

\* The state of the machine at the start or end (at) of block b of function f.
Machine(f, b, at, s, callers) ==
  [sub |-> f, blk |-> b, at |-> at, x |-> s.x, l |-> s.l, callers |-> callers]

StateOf(m) == [x |-> m.x, l |-> m.l]
NodeOf(m) == IF m.at = "start" THEN BlkStart(m.blk, m.sub) ELSE BlkEnd(m.blk, m.sub)

MoveTo(m) ==
  /\ machine' = m
  /\ visited' = visited \cup {<<NodeOf(m), StateOf(m)>>}
  /\ UNCHANGED <<program, builder, forward, backward>>

StartExecution ==
  /\ phase = "solve"
  /\ ForwardUnstable = {} /\ BackwardUnstable = {}
  /\ phase' = "run"
  /\ \E s \in States : MoveTo(Machine(Entry.sub, Entry.blk, "start", s, <<>>))

ExecuteDefs ==
  /\ phase = "run" /\ machine.at = "start"
  /\ MoveTo(Machine(machine.sub, machine.blk, "end",
                    program.blks[machine.blk].def[StateOf(machine)], machine.callers))
  /\ UNCHANGED phase

\* The jump that is taken at the end of the block.
IsTaken(jmp) ==
  /\ phase = "run" /\ machine.at = "end"
  /\ jmp \in DOMAIN Jmps(machine.blk)
  /\ Jmps(machine.blk)[jmp].kind = "CBranch" => machine.x # 0
  /\ jmp > 1 => machine.x = 0

ContinueAt(b, s) == MoveTo(Machine(machine.sub, b, "start", s, machine.callers))

ExecuteBranch(jmp) ==
  /\ IsTaken(jmp)
  /\ Jmps(machine.blk)[jmp].kind \in {"Branch", "CBranch", "BranchInd"}
  /\ \E t \in NextBlocks(machine.blk, jmp) : ContinueAt(t, StateOf(machine))
  /\ UNCHANGED phase

ExecuteExternCall(jmp) ==
  /\ IsTaken(jmp)
  /\ IsExternCall(Jmps(machine.blk)[jmp])
  /\ \E t \in NextBlocks(machine.blk, jmp), i \in Words :
       ContinueAt(t, [StateOf(machine) EXCEPT !.x = i])
  /\ UNCHANGED phase

ExecuteCall(jmp) ==
  LET target == call_targets[Jmps(machine.blk)[jmp].target]
      caller == [sub |-> machine.sub, blk |-> machine.blk, l |-> machine.l]
  IN  /\ IsTaken(jmp)
      /\ IsInternalCall(Jmps(machine.blk)[jmp])
      /\ Len(machine.callers) < MaxDepth
      /\ MoveTo(Machine(target.sub, target.blk, "start", InCallee(StateOf(machine)),
                        <<caller>> \o machine.callers))
      /\ UNCHANGED phase

ReturnOf(caller) == Jmps(caller.blk)[CallJmp(caller.blk)].return

\* Back to the block the call of the caller returns to, if it returns.
ExecuteReturn(jmp) ==
  /\ IsTaken(jmp)
  /\ Jmps(machine.blk)[jmp].kind = "Return"
  /\ machine.callers # <<>>
  /\ LET caller == Head(machine.callers)
     IN  /\ ReturnOf(caller) # None
         /\ MoveTo(Machine(caller.sub, ReturnOf(caller), "start",
                           AfterReturn(StateOf(machine), caller), Tail(machine.callers)))
  /\ UNCHANGED phase

Exit(jmp) ==
  /\ IsTaken(jmp)
  /\ Jmps(machine.blk)[jmp].kind = "Return"
  /\ machine.callers = <<>>
  /\ phase' = "exited"
  /\ UNCHANGED <<program, builder, forward, backward, machine, visited>>

Next ==
  \/ PopBlock \/ StartAnalyses \/ SolveForward \/ SolveBackward
  \/ StartExecution \/ ExecuteDefs
  \/ \E jmp \in 1 .. 2 :
       ExecuteBranch(jmp) \/ ExecuteExternCall(jmp) \/ ExecuteCall(jmp)
         \/ ExecuteReturn(jmp) \/ Exit(jmp)

Spec == Init /\ [][Next]_vars

-----------------------------------------------------------------------------
(* Properties.                                                             *)

\* The forward analysis misses no execution: whatever calls, returns, shared
\* blocks and recursion it went through, the state is part of the value of the
\* node the execution has reached, in the function it is executed in.
ForwardCoversExecution ==
  phase = "run" =>
    /\ NodeOf(machine) \in builder.nodes
    /\ forward[NodeOf(machine)] # None
    /\ StateOf(machine) \in forward[NodeOf(machine)].value

\* The backward analysis misses no execution that reaches the goal: every state
\* it went through, in callees too, is part of the value of its node.
BackwardCoversExecution ==
  phase = "exited" /\ StateOf(machine) \in Goal =>
    \A v \in visited : backward[v[1]] # None /\ v[2] \in backward[v[1]].value

\* Values are not mixed between callers: a value of l at the block a call returns
\* to, if the block is reached in no other way (the entry point is), is one the
\* caller had at the call.
ReturnKeepsCallerState ==
  phase = "run" =>
    \A e \in builder.edges :
      /\ e.kind = "ReturnCombine" /\ e.to # Entry
      /\ forward[e.to] # None
      /\ \A d \in builder.edges : d.to = e.to => d.kind = "ReturnCombine" /\ d.from.call = e.from.call
      => \A s \in forward[e.to].value : \E c \in forward[e.from.call].value : c.l = s.l
=============================================================================
