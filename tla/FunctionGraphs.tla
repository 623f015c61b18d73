--------------------------- MODULE FunctionGraphs ---------------------------
(***************************************************************************)
(* The graphs that are built per function or over all functions: call      *)
(* graphs, intraprocedural control flow graphs with dominators and natural *)
(* loops, and the searches on them.                                        *)
(*                                                                         *)
(* A program p has the functions' first blocks p.entry, the blocks p.blks  *)
(* with their function, definitions and jumps, and the imported symbols    *)
(* p.symbols.  After normalisation a block ends in one jump or in a        *)
(* conditional jump and a jump, and every call returns to a block of the   *)
(* same function.                                                          *)
(***************************************************************************)
EXTENDS Integers, Sequences, FiniteSets, SequencesExt, FiniteSetsExt

CONSTANT None

\* The nodes that nodes leads to along the edges.  Every round but the last
\* uses an edge that was not used before.
Successors(nodes, edges) == nodes \cup {e[3] : e \in {e \in edges : e[1] \in nodes}}
Rounds(nodes, edges) ==
  LET reached[i \in 0..Cardinality(edges)] ==
        IF i = 0 THEN nodes ELSE Successors(reached[i - 1], edges)
  IN  reached
Reach(nodes, edges) == Rounds(nodes, edges)[Cardinality(edges)]

Reversed(edges) == {<<e[3], e[2], e[1]>> : e \in edges}

Tid(b, i) == 100 * b + i
JmpTid(p, b, k) == Tid(b, Len(p.blks[b].defs) + k)

BlocksOf(p, f) == {b \in DOMAIN p.blks : p.blks[b].sub = f}
FirstJmp(p, b) == p.blks[b].jmps[1]
IsCall(j) == j.kind \in {"Call", "ExternCall"}

-----------------------------------------------------------------------------
(* analysis/callgraph.rs *)

\* Direct calls of internal functions: caller, call, callee.
get_program_callgraph(p) ==
  UNION {{<<p.blks[b].sub, JmpTid(p, b, k), p.blks[b].jmps[k].target>> :
            k \in {k \in DOMAIN p.blks[b].jmps : p.blks[b].jmps[k].kind = "Call"}} :
           b \in DOMAIN p.blks}

\* Mutant: the calls that leave the functions on the paths.
CallsLeavingPaths(callgraph, source, target) ==
  LET from == Reach({source}, callgraph)
      to == Reach({target}, Reversed(callgraph))
  IN  {e[2] : e \in {e \in callgraph : e[1] \in from /\ e[1] \in to}}

find_call_sequences_to_target(callgraph, source, target) ==
  LET from == Reach({source}, callgraph)
      to == Reach({target}, Reversed(callgraph))
  IN  {e[2] : e \in {e \in callgraph : e[1] \in from}} \cap {e[2] : e \in {e \in callgraph : e[3] \in to}}

-----------------------------------------------------------------------------
(* analysis/graph/intraprocedural_cfg.rs *)

Start(b) == <<"BlkStart", b>>
End(b) == <<"BlkEnd", b>>
CallSource(b) == <<"CallSource", b>>
\* The intraprocedural graph has one such node per call, r = None.
CallReturn(b, r) == <<"CallReturn", b, r>>

IsBlock(n) == n[1] \in {"BlkStart", "BlkEnd"}

add_block(b) == <<Start(b), "Block", End(b)>>

\* Edges of all jumps but calls of internal functions.  Only in this graph an
\* instruction without semantics, CallOther, leads on to its return block.
PlainJumps(p, b) ==
  LET jmps == p.blks[b].jmps
      j == jmps[1]
  IN  CASE Len(jmps) = 2 -> {<<End(b), "Jump", Start(jmps[k].target), k>> : k \in 1..2}
        [] j.kind = "Branch" -> {<<End(b), "Jump", Start(j.target)>>}
        [] j.kind \in {"ExternCall", "CallInd", "CallOther"} ->
             {<<End(b), "ExternCallStub", Start(j.return)>>}
        [] j.kind = "BranchInd" -> {<<End(b), "Jump", Start(t)>> : t \in j.targets}
        [] OTHER -> {}

\* rs: the CallReturn nodes of the call are those for the blocks rs.  add_jump
\* here, add_jump_edge and add_call_return_node_and_edges in graph.rs.
CallEdges(p, b, rs) ==
  IF FirstJmp(p, b).kind # "Call" THEN {}
  ELSE {<<End(b), "CallCombine", CallSource(b)>>}
         \cup {<<CallSource(b), "CrCallStub", CallReturn(b, r)>> : r \in rs}
         \cup {<<CallReturn(b, r), "ReturnCombine", Start(FirstJmp(p, b).return)>> : r \in rs}

add_jump(p, b) == PlainJumps(p, b) \cup CallEdges(p, b, {None})

IntraproceduralCfg(p, f) ==
  {add_block(b) : b \in BlocksOf(p, f)} \cup UNION {add_jump(p, b) : b \in BlocksOf(p, f)}

CfgNodes(p, f) ==
  UNION {{e[1], e[3]} : e \in IntraproceduralCfg(p, f)}

\* Returning blocks of the callee; a call of a function without one does not return.
ReturnBlocks(p, f) == {r \in BlocksOf(p, f) : FirstJmp(p, r).kind = "Return"}

\* In the interprocedural graph of graph.rs CallOther is a dead end.
add_jump_edge(p, b) == IF FirstJmp(p, b).kind = "CallOther" THEN {} ELSE PlainJumps(p, b)

\* The edges of the interprocedural graph that stay in a function.
GraphWithoutCalls(p) ==
  {add_block(b) : b \in DOMAIN p.blks}
    \cup UNION {add_jump_edge(p, b) \cup
                  CallEdges(p, b, IF FirstJmp(p, b).kind = "Call"
                                  THEN ReturnBlocks(p, FirstJmp(p, b).target) ELSE {}) :
                  b \in DOMAIN p.blks}

\* Blocks whose only jump is a call of a known function.
get_call_targets(p, b) ==
  IF Len(p.blks[b].jmps) = 1 /\ IsCall(FirstJmp(p, b)) THEN {FirstJmp(p, b).target} ELSE {}

call_sites(p, f) == {b \in BlocksOf(p, f) : get_call_targets(p, b) # {}}

callees(p, f) ==
  LET targets == UNION {get_call_targets(p, b) : b \in call_sites(p, f)}
  IN  [t \in targets |-> Cardinality({b \in call_sites(p, f) : t \in get_call_targets(p, b)})]

num_insn(p, f) ==
  MapThenSumSet(LAMBDA b : Len(p.blks[b].defs) + Len(p.blks[b].jmps), BlocksOf(p, f))

-----------------------------------------------------------------------------
(* dom.rs: forward analysis with sets of blocks.  Top, a block without     *)
(* dominators, is the empty set.                                           *)

new_single(b) == {b}

\* Mutant: the sets of several predecessors are joined.
DomUnion(vs) == UNION vs

\* The common dominators of the predecessors.
DomMerge(vs) == {b \in UNION vs : \A v \in vs : b \in v}

\* The value that an edge passes on: a block that is entered dominates itself.
DomUpdate(v, edge) ==
  IF edge[2] \in {"Jump", "ExternCallStub", "ReturnCombine"} THEN v \cup {edge[3][2]} ELSE v

\* One iteration at the node n of the function's graph.
DomStep(p, f, values, n) ==
  LET out == {e \in IntraproceduralCfg(p, f) : e[1] = n}
      Incoming(m) == ({values[m]} \ {None}) \cup {DomUpdate(values[n], e) : e \in {e \in out : e[3] = m}}
  IN  [m \in DOMAIN values |-> IF Incoming(m) = {} THEN None ELSE DomMerge(Incoming(m))]

\* The blocks with a value and their dominators.
compute_dominators(p, f, values) ==
  [b \in {b \in BlocksOf(p, f) : values[Start(b)] # None} |-> values[Start(b)]]

-----------------------------------------------------------------------------
(* natural_loops.rs and properties.rs *)

BackEdges(p, f, doms) ==
  {<<e[1][2], e[3][2]>> :
     e \in {e \in IntraproceduralCfg(p, f) :
              /\ e[2] # "Block" /\ IsBlock(e[1]) /\ IsBlock(e[3])
              /\ e[1][2] \in DOMAIN doms
              /\ e[3][2] \in doms[e[1][2]]}}

\* Mutant: the search does not stop at the head of the loop.
LoopPastHead(p, f, tail, head) ==
  LET visited == Reach({End(tail)}, Reversed(IntraproceduralCfg(p, f)))
  IN  [head |-> head, blocks |-> {n[2] : n \in {n \in visited : IsBlock(n)}}]

natural_loop(p, f, tail, head) ==
  LET backwards == {e \in Reversed(IntraproceduralCfg(p, f)) : e[1] # Start(head)}
      visited == Reach({End(tail)}, backwards) \cup {Start(head)}
  IN  [head |-> head, blocks |-> {n[2] : n \in {n \in visited : IsBlock(n)}}]

compute_natural_loops(p, f, doms) ==
  {natural_loop(p, f, be[1], be[2]) : be \in BackEdges(p, f, doms)}

ConnectedComponents(p, f) ==
  LET edges == IntraproceduralCfg(p, f)
  IN  {Reach({n}, edges \cup Reversed(edges)) : n \in CfgNodes(p, f)}

cyclomatic_complexity(p, f) ==
  Cardinality(IntraproceduralCfg(p, f)) - Cardinality(CfgNodes(p, f))
    + 2 * Cardinality(ConnectedComponents(p, f))

\* In millionths: the dominators of a loop head, at most, per block.
flattening_score(p, f, doms, loops) ==
  LET heads == {Cardinality(doms[l.head]) : l \in loops}
  IN  (Max(heads \cup {0}) * 1000000) \div Cardinality(BlocksOf(p, f))

-----------------------------------------------------------------------------
(* analysis/graph/call.rs *)

\* The edges to the functions called by f, each with all its call sites.
analyze_callees(p, f) ==
  [callee \in DOMAIN callees(p, f) |->
     {JmpTid(p, b, 1) : b \in {b \in call_sites(p, f) : callee \in get_call_targets(p, b)}}]

CallGraphNew(p) ==
  [nodes |-> p.symbols \cup DOMAIN p.entry,
   edges |-> UNION {{<<f, analyze_callees(p, f)[g], g>> : g \in DOMAIN analyze_callees(p, f)} :
                      f \in DOMAIN p.entry}]

\* The call sites at all edges to g.
num_cs(p, g) == Cardinality(UNION {{e} \X e[2] : e \in {e \in CallGraphNew(p).edges : e[3] = g}})

\* caller/src/cfg_stats.rs
CfgProperties(p, doms) ==
  [internal_fns |->
     [f \in {f \in DOMAIN p.entry : f # "artificial_sink_function"} |->
        [cyclomatic_complexity |-> cyclomatic_complexity(p, f),
         flattening_score |-> flattening_score(p, f, doms[f], compute_natural_loops(p, f, doms[f])),
         num_bb |-> Cardinality(BlocksOf(p, f)),
         num_insn |-> num_insn(p, f)]],
   external_fns |-> [s \in p.symbols |-> num_cs(p, s)]]
==============================================================================
