------------------------------ MODULE Fixpoint ------------------------------
(***************************************************************************)
(* The generic worklist fixpoint engine of analysis/fixpoint.rs.           *)
(*                                                                         *)
(* A Computation owns a context (a directed graph whose edges carry        *)
(* transfer functions), the values found so far and a worklist of the      *)
(* PRIORITIES of the nodes that are not yet stabilized.  Every data-flow   *)
(* analysis of the program runs on it.  The variables are the fields of    *)
(* the struct plus the local variables of the running loop; one edge       *)
(* update is one step, so a node's value may change between two of its     *)
(* own outgoing edges (self loops, parallel edges).                        *)
(***************************************************************************)
EXTENDS Integers, FiniteSets

CONSTANTS
    NodeCount,    \* number of nodes of the graph
    Edge,         \* edge indices
    Value,        \* the values a node may get assigned
    NoValue,      \* the Option::None of get_node_value and of update_edge
    Leq(_, _),    \* the partial order on values
    Merge(_, _),  \* Context::merge
    Contexts,     \* the fixpoint problems: edge endpoints and transfer functions
    StepLimits,   \* arguments of compute_with_max_steps
    MaxClientOps  \* bound on the calls made by the client of the Computation

NodeIndex == 0 .. NodeCount - 1

OptValue == Value \cup {NoValue}

ASSUME NodeCountAssumption == NodeCount \in Nat \ {0}

ASSUME NoValueAssumption == NoValue \notin Value

ASSUME StepLimitsAssumption == StepLimits \subseteq Nat

ASSUME MaxClientOpsAssumption == MaxClientOps \in Nat

(***************************************************************************)
(* A context: edge e leads from start[e] to end[e] and transforms a value  *)
(* v to update[e][v], or to NoValue if no information flows through it.    *)
(***************************************************************************)
Context == [start : [Edge -> NodeIndex],
            end : [Edge -> NodeIndex],
            update : [Edge -> [Value -> OptValue]]]

ASSUME ContextsAssumption == Contexts \subseteq Context

(***************************************************************************)
(* What the engine requires of a value domain: Leq is a partial order and  *)
(* merge returns an upper bound (it may be larger than the least one: the  *)
(* analyses widen in merge).                                               *)
(***************************************************************************)
ASSUME OrderAssumption ==
    /\ \A u \in Value : Leq(u, u)
    /\ \A u, v, w \in Value : Leq(u, v) /\ Leq(v, w) => Leq(u, w)

ASSUME MergeAssumption ==
    \A u, v \in Value : /\ Merge(u, v) \in Value
                        /\ Leq(u, Merge(u, v))
                        /\ Leq(v, Merge(u, v))

VARIABLES
    fp_context,             \* the context of the computation
    priority_to_node_list,  \* the node of each priority
    worklist,               \* priorities of the nodes not yet stabilized
    node_values,            \* the value of each node, NoValue if there is none
    mode,                   \* the method that is running
    max_steps, steps,       \* argument and visit counters of compute_with_max_steps
    non_stabilized_nodes,   \* its local set of priorities that ran out of visits
    edges,                  \* edges that update_node has yet to process
    seeds,                  \* history: every <<node, value>> set by the client
    clientOps               \* calls made by the client so far

problem == <<fp_context, priority_to_node_list>>
loop == <<mode, max_steps, steps, non_stabilized_nodes>>
vars == <<problem, worklist, node_values, loop, edges, seeds, clientOps>>

Modes == {"setup", "idle", "compute", "compute_with_max_steps"}

Running == mode \in {"compute", "compute_with_max_steps"}

(* All orders of the nodes; from_node_priority_list accepts any of them. *)
NodeOrders == {f \in [NodeIndex -> NodeIndex] :
                  /\ \A i, j \in NodeIndex : f[i] = f[j] => i = j
                  /\ \A n \in NodeIndex : \E i \in NodeIndex : f[i] = n}

(* The inverse of priority_to_node_list: the priority of a node. *)
node_priority_list ==
    [n \in NodeIndex |-> CHOOSE p \in NodeIndex : priority_to_node_list[p] = n]

TypeOK ==
    /\ fp_context \in Contexts
    /\ priority_to_node_list \in NodeOrders
    /\ worklist \subseteq NodeIndex
    /\ node_values \in [NodeIndex -> OptValue]
    /\ mode \in Modes
    /\ max_steps \in StepLimits \cup {0}
    /\ steps \in [NodeIndex -> Nat]
    /\ non_stabilized_nodes \subseteq NodeIndex
    /\ edges \subseteq Edge
    /\ seeds \subseteq NodeIndex \X Value
    /\ clientOps \in 0 .. MaxClientOps
-----------------------------------------------------------------------------
(***************************************************************************)
(* The constructors: with a default value every node gets it and is put    *)
(* into the worklist; without one the computation starts empty.  `new`     *)
(* passes the order of petgraph's kosaraju_scc, its callers their own.     *)
(***************************************************************************)
FromNodePriorityList(default) ==
    /\ worklist = IF default = NoValue THEN {} ELSE NodeIndex
    /\ node_values = [n \in NodeIndex |-> default]
    /\ seeds = IF default = NoValue THEN {} ELSE NodeIndex \X {default}

Init ==
    /\ fp_context \in Contexts
    /\ priority_to_node_list \in NodeOrders
    /\ \E default \in OptValue : FromNodePriorityList(default)
    /\ mode = "setup"
    /\ max_steps = 0
    /\ steps = [n \in NodeIndex |-> 0]
    /\ non_stabilized_nodes = {}
    /\ edges = {}
    /\ clientOps = 0

(***************************************************************************)
(* set_node_value: store the value and mark the node as not stabilized.    *)
(***************************************************************************)
set_node_value(n, v) ==
    /\ node_values' = [node_values EXCEPT ![n] = v]
    /\ worklist' = worklist \cup {node_priority_list[n]}

ClientCall ==
    /\ ~Running
    /\ clientOps < MaxClientOps
    /\ clientOps' = clientOps + 1

(* Every caller sets the starting values before the first computation. *)
ClientSetNodeValue(n, v) ==
    /\ ClientCall
    /\ mode = "setup"
    /\ set_node_value(n, v)
    /\ seeds' = seeds \cup {<<n, v>>}
    /\ UNCHANGED <<problem, loop, edges>>

(***************************************************************************)
(* node_values_mut hands out every stored value for modification and puts  *)
(* the nodes that have one back into the worklist.                         *)
(***************************************************************************)
NodesWithValue == {n \in NodeIndex : node_values[n] # NoValue}

node_values_mut(new) ==
    /\ ClientCall
    /\ node_values' = [n \in NodeIndex |->
                          IF n \in NodesWithValue THEN new[n] ELSE NoValue]
    /\ worklist' = worklist \cup {node_priority_list[n] : n \in NodesWithValue}
    /\ seeds' = seeds \cup {<<n, new[n]>> : n \in NodesWithValue}
    /\ UNCHANGED <<problem, loop, edges>>

(***************************************************************************)
(* compute and compute_with_max_steps start their loops (with an empty     *)
(* worklist they return at once and change nothing).                       *)
(***************************************************************************)
StartCompute ==
    /\ ~Running
    /\ worklist # {}
    /\ mode' = "compute"
    /\ UNCHANGED <<problem, worklist, node_values, max_steps, steps,
                   non_stabilized_nodes, edges, seeds, clientOps>>

StartComputeWithMaxSteps(limit) ==
    /\ ClientCall
    /\ worklist # {}
    /\ mode' = "compute_with_max_steps"
    /\ max_steps' = limit
    /\ steps' = [n \in NodeIndex |-> 0]
    /\ non_stabilized_nodes' = {}
    /\ UNCHANGED <<problem, worklist, node_values, edges, seeds>>

(***************************************************************************)
(* Remove the highest priority from the worklist.                          *)
(***************************************************************************)
LowestPriorityFirst(p) == \A q \in worklist : q >= p

IsNextPriority(p) == \A q \in worklist : q <= p

OutgoingEdges(n) == {e \in Edge : fp_context.start[e] = n}

(* One round of the loop of compute; update_node collects the edges first. *)
take_next_node_from_worklist(p) ==
    /\ mode = "compute"
    /\ edges = {}
    /\ p \in worklist
    /\ IsNextPriority(p)
    /\ worklist' = worklist \ {p}
    /\ edges' = OutgoingEdges(priority_to_node_list[p])
    /\ UNCHANGED <<problem, node_values, loop, seeds, clientOps>>

(* One round of the loop of compute_with_max_steps. *)
MaxStepsVisit(p) ==
    /\ mode = "compute_with_max_steps"
    /\ edges = {}
    /\ p \in worklist
    /\ IsNextPriority(p)
    /\ steps[priority_to_node_list[p]] < max_steps
    /\ worklist' = worklist \ {p}
    /\ steps' = [steps EXCEPT ![priority_to_node_list[p]] = @ + 1]
    /\ edges' = OutgoingEdges(priority_to_node_list[p])
    /\ UNCHANGED <<problem, node_values, mode, max_steps, non_stabilized_nodes,
                   seeds, clientOps>>

MaxStepsGiveUpForgets(p) ==
    /\ mode = "compute_with_max_steps"
    /\ edges = {}
    /\ p \in worklist
    /\ IsNextPriority(p)
    /\ steps[priority_to_node_list[p]] >= max_steps
    /\ worklist' = worklist \ {p}
    /\ UNCHANGED <<problem, node_values, loop, edges, seeds, clientOps>>

MaxStepsGiveUp(p) ==
    /\ mode = "compute_with_max_steps"
    /\ edges = {}
    /\ p \in worklist
    /\ IsNextPriority(p)
    /\ steps[priority_to_node_list[p]] >= max_steps
    /\ worklist' = worklist \ {p}
    /\ non_stabilized_nodes' = non_stabilized_nodes \cup {p}
    /\ UNCHANGED <<problem, node_values, mode, max_steps, steps, edges, seeds,
                   clientOps>>

(***************************************************************************)
(* merge_node_value: the node is queued again only if its value changed.   *)
(***************************************************************************)
MergeNodeValueAlwaysQueues(n, v) ==
    IF node_values[n] = NoValue THEN set_node_value(n, v)
    ELSE set_node_value(n, Merge(v, node_values[n]))

merge_node_value(n, v) ==
    IF node_values[n] = NoValue THEN set_node_value(n, v)
    ELSE IF Merge(v, node_values[n]) = node_values[n]
    THEN UNCHANGED <<node_values, worklist>>
    ELSE set_node_value(n, Merge(v, node_values[n]))

(* The value that flows through edge e under the values vals. *)
Flow(vals, e) ==
    IF vals[fp_context.start[e]] = NoValue THEN NoValue
    ELSE fp_context.update[e][vals[fp_context.start[e]]]

(***************************************************************************)
(* One iteration of the loop of update_node.  petgraph leaves the order of *)
(* the outgoing edges unspecified.                                         *)
(***************************************************************************)
UpdateEdgeIgnoresNone(e) ==
    /\ e \in edges
    /\ edges' = edges \ {e}
    /\ IF node_values[fp_context.start[e]] = NoValue
       THEN UNCHANGED <<node_values, worklist>>
       ELSE merge_node_value(fp_context.end[e], node_values[fp_context.start[e]])
    /\ UNCHANGED <<problem, loop, seeds, clientOps>>

update_edge(e) ==
    /\ e \in edges
    /\ edges' = edges \ {e}
    /\ IF Flow(node_values, e) = NoValue
       THEN UNCHANGED <<node_values, worklist>>
       ELSE merge_node_value(fp_context.end[e], Flow(node_values, e))
    /\ UNCHANGED <<problem, loop, seeds, clientOps>>

(* The loops end; compute_with_max_steps restores what it gave up on. *)
FinishCompute ==
    /\ mode = "compute"
    /\ edges = {}
    /\ worklist = {}
    /\ mode' = "idle"
    /\ UNCHANGED <<problem, worklist, node_values, max_steps, steps,
                   non_stabilized_nodes, edges, seeds, clientOps>>

FinishComputeWithMaxSteps ==
    /\ mode = "compute_with_max_steps"
    /\ edges = {}
    /\ worklist = {}
    /\ mode' = "idle"
    /\ worklist' = non_stabilized_nodes
    /\ non_stabilized_nodes' = {}
    /\ UNCHANGED <<problem, node_values, max_steps, steps, edges, seeds, clientOps>>

ClientStep ==
    \/ \E n \in NodeIndex, v \in Value : ClientSetNodeValue(n, v)
    \/ \E new \in [NodeIndex -> Value] : node_values_mut(new)
    \/ \E limit \in StepLimits : StartComputeWithMaxSteps(limit)

LoopStep ==
    \/ \E p \in NodeIndex : take_next_node_from_worklist(p)
    \/ \E p \in NodeIndex : MaxStepsVisit(p)
    \/ \E p \in NodeIndex : MaxStepsGiveUp(p)
    \/ \E e \in Edge : update_edge(e)
    \/ FinishCompute
    \/ FinishComputeWithMaxSteps

Next == ClientStep \/ StartCompute \/ LoopStep

Spec == Init /\ [][Next]_vars

(* A loop that was entered keeps running: it is sequential code. *)
FairSpec == Spec /\ WF_vars(LoopStep)
-----------------------------------------------------------------------------
(***************************************************************************)
(* Properties.                                                             *)
(***************************************************************************)
LeqOpt(u, v) == u = NoValue \/ (v # NoValue /\ Leq(u, v))

(* The constraint of an edge: e(val(start)) <= val(end). *)
Satisfied(vals, e) == LeqOpt(Flow(vals, e), vals[fp_context.end[e]])

IsPostFixpoint(vals) == \A e \in Edge : Satisfied(vals, e)

(***************************************************************************)
(* The invariant behind the worklist algorithm: an edge whose constraint   *)
(* does not hold starts at a node that is queued or was given up on, or it *)
(* is still to be processed by the running update_node.  It has to survive *)
(* self loops, parallel edges and values replaced by the client.           *)
(***************************************************************************)
Pending(e) ==
    \/ e \in edges
    \/ node_priority_list[fp_context.start[e]] \in worklist \cup non_stabilized_nodes

UnsatisfiedEdgesArePending == \A e \in Edge : Satisfied(node_values, e) \/ Pending(e)

(***************************************************************************)
(* has_stabilized is meaningful: between two calls, an empty worklist      *)
(* means that the values are a fixpoint in the sense of the module docs,   *)
(* whatever mixture of calls and step limits led there.                    *)
(***************************************************************************)
StabilizedIsFixpoint ==
    (~Running /\ worklist = {}) => IsPostFixpoint(node_values)

(***************************************************************************)
(* Running a computation never lowers or removes a value: only the client  *)
(* replaces values.                                                        *)
(***************************************************************************)
ValuesOnlyGrow ==
    [][Running =>
        \A n \in NodeIndex : LeqOpt(node_values[n], node_values'[n])]_vars

(***************************************************************************)
(* Smallest fixpoint: if transfers are monotone and merge is the least     *)
(* upper bound, the values never exceed any fixpoint above the values the  *)
(* client has set.                                                         *)
(***************************************************************************)
MonotoneContext(c) ==
    \A e \in Edge, u, v \in Value :
        Leq(u, v) => LeqOpt(c.update[e][u], c.update[e][v])

MergeIsLeast ==
    \A u, v, w \in Value : Leq(u, w) /\ Leq(v, w) => Leq(Merge(u, v), w)

BelowEveryFixpoint ==
    MergeIsLeast /\ MonotoneContext(fp_context) =>
        \A w \in [NodeIndex -> OptValue] :
            IsPostFixpoint(w) /\ (\A s \in seeds : LeqOpt(s[2], w[s[1]]))
                => \A n \in NodeIndex : LeqOpt(node_values[n], w[n])

(***************************************************************************)
(* "order the nodes in weak topological order": if every edge leads to a   *)
(* lower priority, the nodes are visited in descending order, so that each *)
(* is visited after all its predecessors and only once.                    *)
(***************************************************************************)
TopologicalOrder ==
    \A e \in Edge : node_priority_list[fp_context.start[e]]
                        > node_priority_list[fp_context.end[e]]

TopologicalVisits ==
    TopologicalOrder =>
        \A e \in edges, q \in worklist : q < node_priority_list[fp_context.start[e]]

(***************************************************************************)
(* On a domain without infinite ascending chains every started computation *)
(* returns to its caller.                                                  *)
(***************************************************************************)
ComputationTerminates == Running ~> ~Running
=============================================================================
