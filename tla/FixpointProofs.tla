--------------------------- MODULE FixpointProofs ---------------------------
(***************************************************************************)
(* Proofs about the fixpoint engine for every graph, every value domain    *)
(* with an upper-bound merge, every node order and every client.           *)
(***************************************************************************)
EXTENDS Fixpoint, TLAPS

(***************************************************************************)
(* node_priority_list really is the inverse of priority_to_node_list.      *)
(***************************************************************************)
LEMMA PriorityInverse ==
    ASSUME priority_to_node_list \in NodeOrders
    PROVE  /\ node_priority_list \in [NodeIndex -> NodeIndex]
           /\ \A n \in NodeIndex : priority_to_node_list[node_priority_list[n]] = n
           /\ \A p \in NodeIndex : node_priority_list[priority_to_node_list[p]] = p
<1>1. ASSUME NEW n \in NodeIndex
      PROVE  /\ node_priority_list[n] \in NodeIndex
             /\ priority_to_node_list[node_priority_list[n]] = n
  <2>1. \E p \in NodeIndex : priority_to_node_list[p] = n
    BY DEF NodeOrders
  <2>2. node_priority_list[n] = CHOOSE p \in NodeIndex : priority_to_node_list[p] = n
    BY DEF node_priority_list
  <2>. QED BY <2>1, <2>2
<1>2. ASSUME NEW p \in NodeIndex
      PROVE  node_priority_list[priority_to_node_list[p]] = p
  <2>1. priority_to_node_list[p] \in NodeIndex
    BY DEF NodeOrders
  <2>2. priority_to_node_list[node_priority_list[priority_to_node_list[p]]]
            = priority_to_node_list[p]
    BY <1>1, <2>1
  <2>. QED BY <1>1, <2>1, <2>2 DEF NodeOrders
<1>3. node_priority_list \in [NodeIndex -> NodeIndex]
  BY <1>1 DEF node_priority_list
<1>. QED BY <1>1, <1>2, <1>3

(* Facts about the context that every step needs. *)
LEMMA ContextType ==
    ASSUME fp_context \in Contexts
    PROVE  /\ \A e \in Edge : fp_context.start[e] \in NodeIndex
           /\ \A e \in Edge : fp_context.end[e] \in NodeIndex
           /\ \A e \in Edge, v \in Value : fp_context.update[e][v] \in OptValue
BY ContextsAssumption DEF Context

(* What flows through an edge is a value or nothing. *)
LEMMA FlowType ==
    ASSUME fp_context \in Contexts, NEW e \in Edge,
           NEW vals \in [NodeIndex -> OptValue]
    PROVE  Flow(vals, e) \in OptValue
BY ContextType DEF Flow, OptValue

(* merge_node_value leaves a value that is an upper bound of both inputs.  *)
LEMMA MergeNodeValueStep ==
    ASSUME TypeOK, NEW n \in NodeIndex, NEW v \in Value, merge_node_value(n, v)
    PROVE  /\ node_values' \in [NodeIndex -> OptValue]
           /\ worklist' \subseteq NodeIndex
           /\ worklist \subseteq worklist'
           /\ worklist' \subseteq worklist \cup {node_priority_list[n]}
           /\ \A m \in NodeIndex \ {n} : node_values'[m] = node_values[m]
           /\ node_values'[n] \in Value
           /\ Leq(v, node_values'[n])
           /\ LeqOpt(node_values[n], node_values'[n])
           /\ node_values'[n] # node_values[n] => node_priority_list[n] \in worklist'
           /\ \/ node_values[n] = NoValue /\ node_values'[n] = v
              \/ node_values[n] # NoValue /\ node_values'[n] = Merge(v, node_values[n])
<1>. USE DEF TypeOK
<1>1. node_priority_list[n] \in NodeIndex
  BY PriorityInverse
<1>2. node_values[n] \in OptValue
  OBVIOUS
<1>3. CASE node_values[n] = NoValue
  BY <1>1, <1>3, NoValueAssumption, OrderAssumption
     DEF merge_node_value, set_node_value, LeqOpt, OptValue
<1>4. CASE node_values[n] # NoValue
  <2>1. node_values[n] \in Value
    BY <1>2, <1>4 DEF OptValue
  <2>2. /\ Merge(v, node_values[n]) \in Value
        /\ Leq(v, Merge(v, node_values[n]))
        /\ Leq(node_values[n], Merge(v, node_values[n]))
    BY <2>1, MergeAssumption
  <2>3. CASE Merge(v, node_values[n]) = node_values[n]
    BY <1>4, <2>1, <2>2, <2>3, NoValueAssumption
       DEF merge_node_value, LeqOpt
  <2>4. CASE Merge(v, node_values[n]) # node_values[n]
    BY <1>1, <1>4, <2>1, <2>2, <2>4, NoValueAssumption
       DEF merge_node_value, set_node_value, LeqOpt, OptValue
  <2>. QED BY <2>3, <2>4
<1>. QED BY <1>3, <1>4

(* The step of update_edge in terms of what it does to the values. *)
LEMMA UpdateEdgeStep ==
    ASSUME TypeOK, NEW e \in Edge, update_edge(e)
    PROVE  /\ node_values' \in [NodeIndex -> OptValue]
           /\ worklist' \subseteq NodeIndex
           /\ worklist \subseteq worklist'
           /\ worklist' \subseteq worklist \cup {node_priority_list[fp_context.end[e]]}
           /\ \A m \in NodeIndex \ {fp_context.end[e]} : node_values'[m] = node_values[m]
           /\ LeqOpt(node_values[fp_context.end[e]], node_values'[fp_context.end[e]])
           /\ LeqOpt(Flow(node_values, e), node_values'[fp_context.end[e]])
           /\ node_values'[fp_context.end[e]] # node_values[fp_context.end[e]]
                => node_priority_list[fp_context.end[e]] \in worklist'
<1>1. /\ fp_context.end[e] \in NodeIndex
      /\ Flow(node_values, e) \in OptValue
      /\ node_values[fp_context.end[e]] \in OptValue
  BY ContextType, FlowType DEF TypeOK
<1>2. CASE Flow(node_values, e) = NoValue
  BY <1>1, <1>2, OrderAssumption DEF update_edge, TypeOK, LeqOpt, OptValue
<1>3. CASE Flow(node_values, e) # NoValue
  <2>1. /\ Flow(node_values, e) \in Value
        /\ merge_node_value(fp_context.end[e], Flow(node_values, e))
    BY <1>1, <1>3 DEF update_edge, OptValue
  <2>. QED BY <1>1, <2>1, MergeNodeValueStep, NoValueAssumption DEF LeqOpt
<1>. QED BY <1>2, <1>3

(***************************************************************************)
(* Type correctness: in particular only real priorities enter the worklist *)
(* and only values or None are stored.                                     *)
(***************************************************************************)
THEOREM TypeCorrect == Spec => []TypeOK
<1>1. Init => TypeOK
  <2>. SUFFICES ASSUME Init PROVE TypeOK
    OBVIOUS
  <2>1. PICK default \in OptValue : FromNodePriorityList(default)
    BY DEF Init
  <2>. QED BY <2>1, MaxClientOpsAssumption
          DEF Init, FromNodePriorityList, TypeOK, OptValue, Modes
<1>2. TypeOK /\ [Next]_vars => TypeOK'
  <2>. SUFFICES ASSUME TypeOK, [Next]_vars PROVE TypeOK'
    OBVIOUS
  <2>. USE DEF TypeOK
  <2>1. node_priority_list \in [NodeIndex -> NodeIndex]
    BY PriorityInverse
  <2>2. ASSUME NEW n \in NodeIndex, NEW v \in Value, ClientSetNodeValue(n, v)
        PROVE  TypeOK'
    BY <2>1, <2>2, MaxClientOpsAssumption
       DEF ClientSetNodeValue, ClientCall, set_node_value, problem, loop, OptValue
  <2>3. ASSUME NEW new \in [NodeIndex -> Value], node_values_mut(new)
        PROVE  TypeOK'
    BY <2>1, <2>3, MaxClientOpsAssumption
       DEF node_values_mut, ClientCall, NodesWithValue, problem, loop, OptValue
  <2>4. ASSUME NEW limit \in StepLimits, StartComputeWithMaxSteps(limit)
        PROVE  TypeOK'
    BY <2>4, MaxClientOpsAssumption
       DEF StartComputeWithMaxSteps, ClientCall, problem, Modes
  <2>5. CASE StartCompute
    BY <2>5 DEF StartCompute, problem, Modes
  <2>6. ASSUME NEW p \in NodeIndex, take_next_node_from_worklist(p)
        PROVE  TypeOK'
    BY <2>6 DEF take_next_node_from_worklist, OutgoingEdges, problem, loop
  <2>7. ASSUME NEW p \in NodeIndex, MaxStepsVisit(p)
        PROVE  TypeOK'
    BY <2>7 DEF MaxStepsVisit, OutgoingEdges, problem, NodeOrders
  <2>8. ASSUME NEW p \in NodeIndex, MaxStepsGiveUp(p)
        PROVE  TypeOK'
    BY <2>8 DEF MaxStepsGiveUp, problem
  <2>9. ASSUME NEW e \in Edge, update_edge(e)
        PROVE  TypeOK'
    <3>1. node_values' \in [NodeIndex -> OptValue] /\ worklist' \subseteq NodeIndex
      BY <2>9, UpdateEdgeStep
    <3>. QED BY <2>9, <3>1 DEF update_edge, problem, loop
  <2>10. CASE FinishCompute
    BY <2>10 DEF FinishCompute, problem, Modes
  <2>11. CASE FinishComputeWithMaxSteps
    BY <2>11 DEF FinishComputeWithMaxSteps, problem, Modes
  <2>12. CASE UNCHANGED vars
    BY <2>12 DEF vars, problem, loop
  <2>. QED BY <2>2, <2>3, <2>4, <2>5, <2>6, <2>7, <2>8, <2>9, <2>10, <2>11, <2>12
          DEF Next, ClientStep, LoopStep
<1>. QED BY <1>1, <1>2, PTL DEF Spec

(***************************************************************************)
(* The inductive invariant of the worklist algorithm.  The conjuncts added *)
(* to UnsatisfiedEdgesArePending say where unfinished work can hide.       *)
(***************************************************************************)
WorkIsAccountedFor ==
    /\ ~Running => edges = {} /\ non_stabilized_nodes = {}
    /\ mode = "compute" => non_stabilized_nodes = {}
    /\ mode = "setup" => \A n \in NodesWithValue : node_priority_list[n] \in worklist

WorklistInv == UnsatisfiedEdgesArePending /\ WorkIsAccountedFor

(* Replacing the values of queued nodes only leaves every edge pending. *)
LEMMA ValuelessSourceSatisfied ==
    ASSUME NEW vals, NEW e \in Edge, vals[fp_context.start[e]] = NoValue
    PROVE  Satisfied(vals, e)
BY DEF Satisfied, Flow, LeqOpt

(***************************************************************************)
(* An edge whose constraint does not hold is never forgotten.              *)
(***************************************************************************)
THEOREM WorklistCorrect == Spec => []WorklistInv
<1>1. Init => WorklistInv
  <2>. SUFFICES ASSUME Init PROVE WorklistInv
    OBVIOUS
  <2>1. PICK default \in OptValue : FromNodePriorityList(default)
    BY DEF Init
  <2>2. priority_to_node_list \in NodeOrders /\ fp_context \in Contexts
    BY DEF Init
  <2>3. CASE default = NoValue
    <3>1. \A e \in Edge : node_values[fp_context.start[e]] = NoValue
      BY <2>1, <2>2, <2>3, ContextType DEF FromNodePriorityList
    <3>2. UnsatisfiedEdgesArePending
      BY <3>1, ValuelessSourceSatisfied DEF UnsatisfiedEdgesArePending
    <3>. QED BY <2>1, <2>3, <3>2
            DEF Init, FromNodePriorityList, WorklistInv, WorkIsAccountedFor,
                Running, NodesWithValue
  <2>4. CASE default # NoValue
    <3>1. worklist = NodeIndex
      BY <2>1, <2>4 DEF FromNodePriorityList
    <3>2. \A n \in NodeIndex : node_priority_list[n] \in worklist
      BY <2>2, <3>1, PriorityInverse
    <3>3. UnsatisfiedEdgesArePending
      BY <2>2, <3>2, ContextType DEF UnsatisfiedEdgesArePending, Pending
    <3>. QED BY <3>2, <3>3
            DEF Init, WorklistInv, WorkIsAccountedFor, Running, NodesWithValue
  <2>. QED BY <2>3, <2>4
<1>2. TypeOK /\ WorklistInv /\ [Next]_vars => WorklistInv'
  <2>. SUFFICES ASSUME TypeOK, WorklistInv, [Next]_vars PROVE WorklistInv'
    OBVIOUS
  <2>1. /\ fp_context \in Contexts
        /\ priority_to_node_list \in NodeOrders
        /\ worklist \subseteq NodeIndex
    BY DEF TypeOK
  <2>2. node_priority_list \in [NodeIndex -> NodeIndex]
    BY <2>1, PriorityInverse
  <2>3. /\ problem' = problem
        /\ node_priority_list' = node_priority_list
    <3>1. problem' = problem
      BY DEF Next, ClientStep, LoopStep, vars, ClientSetNodeValue, node_values_mut,
             StartComputeWithMaxSteps, StartCompute, take_next_node_from_worklist,
             MaxStepsVisit, MaxStepsGiveUp, update_edge, FinishCompute,
             FinishComputeWithMaxSteps
    <3>. QED BY <3>1 DEF problem, node_priority_list
  <2>4. ASSUME NEW n \in NodeIndex, NEW v \in Value, ClientSetNodeValue(n, v)
        PROVE  WorklistInv'
    <3>1. \A m \in NodesWithValue' : node_priority_list[m] \in worklist'
      BY <2>2, <2>4 DEF ClientSetNodeValue, ClientCall, set_node_value, WorklistInv,
                        WorkIsAccountedFor, NodesWithValue, TypeOK
    <3>2. UnsatisfiedEdgesArePending'
      BY <2>1, <2>3, <3>1, ContextType
         DEF UnsatisfiedEdgesArePending, Pending, NodesWithValue, Satisfied, Flow,
             LeqOpt, problem
    <3>. QED BY <2>3, <2>4, <3>1, <3>2
            DEF ClientSetNodeValue, ClientCall, WorklistInv, WorkIsAccountedFor,
                Running, loop
  <2>5. ASSUME NEW new \in [NodeIndex -> Value], node_values_mut(new)
        PROVE  WorklistInv'
    <3>1. \A m \in NodesWithValue' : node_priority_list[m] \in worklist'
      BY <2>5 DEF node_values_mut, NodesWithValue, TypeOK
    <3>2. UnsatisfiedEdgesArePending'
      BY <2>1, <2>3, <3>1, ContextType
         DEF UnsatisfiedEdgesArePending, Pending, NodesWithValue, Satisfied, Flow,
             LeqOpt, problem
    <3>. QED BY <2>3, <2>5, <3>1, <3>2
            DEF node_values_mut, ClientCall, WorklistInv, WorkIsAccountedFor,
                Running, loop
  <2>6. ASSUME NEW limit \in StepLimits, StartComputeWithMaxSteps(limit)
        PROVE  WorklistInv'
    BY <2>3, <2>6 DEF StartComputeWithMaxSteps, ClientCall, WorklistInv,
          WorkIsAccountedFor, Running, UnsatisfiedEdgesArePending, Pending,
          Satisfied, Flow, problem
  <2>7. CASE StartCompute
    BY <2>3, <2>7 DEF StartCompute, WorklistInv, WorkIsAccountedFor, Running,
          UnsatisfiedEdgesArePending, Pending, Satisfied, Flow, problem
  <2>8. ASSUME NEW p \in NodeIndex, take_next_node_from_worklist(p)
        PROVE  WorklistInv'
    <3>1. \A e \in Edge : node_priority_list[fp_context.start[e]] = p => e \in edges'
      BY <2>1, <2>8, ContextType, PriorityInverse
         DEF take_next_node_from_worklist, OutgoingEdges
    <3>. QED BY <2>3, <2>8, <3>1
            DEF take_next_node_from_worklist, WorklistInv, WorkIsAccountedFor,
                Running, UnsatisfiedEdgesArePending, Pending, Satisfied, Flow,
                problem, loop
  <2>9. ASSUME NEW p \in NodeIndex, MaxStepsVisit(p)
        PROVE  WorklistInv'
    <3>1. \A e \in Edge : node_priority_list[fp_context.start[e]] = p => e \in edges'
      BY <2>1, <2>9, ContextType, PriorityInverse DEF MaxStepsVisit, OutgoingEdges
    <3>. QED BY <2>3, <2>9, <3>1
            DEF MaxStepsVisit, WorklistInv, WorkIsAccountedFor, Running,
                UnsatisfiedEdgesArePending, Pending, Satisfied, Flow, problem
  <2>10. ASSUME NEW p \in NodeIndex, MaxStepsGiveUp(p)
        PROVE  WorklistInv'
    BY <2>3, <2>10 DEF MaxStepsGiveUp, WorklistInv, WorkIsAccountedFor, Running,
          UnsatisfiedEdgesArePending, Pending, Satisfied, Flow, problem
  <2>11. ASSUME NEW e \in Edge, update_edge(e)
         PROVE  WorklistInv'
    <3>1. ASSUME NEW f \in Edge, ~Satisfied(node_values, f)' PROVE Pending(f)'
      <4>. DEFINE n == fp_context.end[e]
      <4>1. /\ n \in NodeIndex /\ fp_context.start[f] \in NodeIndex
            /\ fp_context.end[f] \in NodeIndex
        BY <2>1, ContextType
      <4>2. CASE node_values'[fp_context.start[f]] # node_values[fp_context.start[f]]
        BY <2>3, <2>11, <4>1, <4>2, UpdateEdgeStep DEF Pending, problem
      <4>3. CASE node_values'[fp_context.start[f]] = node_values[fp_context.start[f]]
        <5>1. Flow(node_values, f)' = Flow(node_values, f)
          BY <2>3, <4>3 DEF Flow, problem
        <5>2. ~Satisfied(node_values, f)
          <6>1. /\ Flow(node_values, f) \in OptValue
                /\ node_values[fp_context.end[f]] \in OptValue
                /\ node_values'[fp_context.end[f]] \in OptValue
            BY <2>1, <2>11, <4>1, FlowType, UpdateEdgeStep DEF TypeOK
          <6>2. LeqOpt(node_values[fp_context.end[f]], node_values'[fp_context.end[f]])
            BY <2>11, <4>1, <6>1, UpdateEdgeStep, OrderAssumption DEF LeqOpt, OptValue
          <6>3. ~LeqOpt(Flow(node_values, f), node_values'[fp_context.end[f]])
            BY <2>3, <3>1, <5>1 DEF Satisfied, problem
          <6>. QED BY <6>1, <6>2, <6>3, OrderAssumption
                  DEF Satisfied, LeqOpt, OptValue
        <5>3. f # e
          <6>1. ~LeqOpt(Flow(node_values, f), node_values'[fp_context.end[f]])
            BY <2>3, <3>1, <5>1 DEF Satisfied, problem
          <6>. QED BY <2>11, <6>1, UpdateEdgeStep
        <5>4. Pending(f)
          BY <5>2 DEF WorklistInv, UnsatisfiedEdgesArePending
        <5>. QED BY <2>3, <2>11, <5>3, <5>4, UpdateEdgeStep
                DEF Pending, update_edge, loop, problem
      <4>. QED BY <4>2, <4>3
    <3>2. UnsatisfiedEdgesArePending'
      BY <3>1 DEF UnsatisfiedEdgesArePending
    <3>. QED BY <2>3, <2>11, <3>2, UpdateEdgeStep
            DEF update_edge, WorklistInv, WorkIsAccountedFor, Running, loop
  <2>12. CASE FinishCompute
    BY <2>3, <2>12 DEF FinishCompute, WorklistInv, WorkIsAccountedFor, Running,
          UnsatisfiedEdgesArePending, Pending, Satisfied, Flow, problem
  <2>13. CASE FinishComputeWithMaxSteps
    BY <2>3, <2>13 DEF FinishComputeWithMaxSteps, WorklistInv, WorkIsAccountedFor,
          Running, UnsatisfiedEdgesArePending, Pending, Satisfied, Flow, problem
  <2>14. CASE UNCHANGED vars
    BY <2>3, <2>14 DEF vars, loop, WorklistInv, WorkIsAccountedFor, Running,
          NodesWithValue, UnsatisfiedEdgesArePending, Pending, Satisfied, Flow, problem
  <2>. QED BY <2>4, <2>5, <2>6, <2>7, <2>8, <2>9, <2>10, <2>11, <2>12, <2>13, <2>14
          DEF Next, ClientStep, LoopStep
<1>. QED BY <1>1, <1>2, TypeCorrect, PTL DEF Spec

(***************************************************************************)
(* The worklist never loses an edge whose constraint does not hold.        *)
(***************************************************************************)
THEOREM UnsatisfiedEdgesTracked == Spec => []UnsatisfiedEdgesArePending
<1>1. WorklistInv => UnsatisfiedEdgesArePending
  BY DEF WorklistInv
<1>. QED BY <1>1, WorklistCorrect, PTL

(***************************************************************************)
(* A computation that reports has_stabilized holds a fixpoint.             *)
(***************************************************************************)
THEOREM StabilizedCorrect == Spec => []StabilizedIsFixpoint
<1>1. WorklistInv => StabilizedIsFixpoint
  BY DEF WorklistInv, WorkIsAccountedFor, UnsatisfiedEdgesArePending, Pending,
         StabilizedIsFixpoint, IsPostFixpoint
<1>. QED BY <1>1, WorklistCorrect, PTL

(***************************************************************************)
(* A running computation only raises values.                               *)
(***************************************************************************)
THEOREM ValuesGrow == Spec => ValuesOnlyGrow
<1>1. TypeOK /\ [Next]_vars
        => [Running => \A n \in NodeIndex : LeqOpt(node_values[n], node_values'[n])]_vars
  <2>. SUFFICES ASSUME TypeOK, Next, Running, NEW n \in NodeIndex
                PROVE  LeqOpt(node_values[n], node_values'[n])
    OBVIOUS
  <2>1. node_values[n] \in OptValue
    BY DEF TypeOK
  <2>2. LeqOpt(node_values[n], node_values[n])
    BY <2>1, OrderAssumption DEF LeqOpt, OptValue
  <2>3. CASE ClientStep \/ StartCompute
    BY <2>3 DEF ClientStep, StartCompute, ClientSetNodeValue, node_values_mut,
                StartComputeWithMaxSteps, ClientCall
  <2>4. ASSUME NEW e \in Edge, update_edge(e)
        PROVE  LeqOpt(node_values[n], node_values'[n])
    BY <2>2, <2>4, UpdateEdgeStep
  <2>5. CASE LoopStep
    BY <2>2, <2>4, <2>5 DEF LoopStep, take_next_node_from_worklist, MaxStepsVisit,
          MaxStepsGiveUp, FinishCompute, FinishComputeWithMaxSteps
  <2>. QED BY <2>3, <2>5 DEF Next
<1>. QED BY <1>1, TypeCorrect, PTL DEF Spec, ValuesOnlyGrow

(***************************************************************************)
(* Leastness, for one fixpoint w that lies above everything the client     *)
(* set: the values stay below w.                                           *)
(***************************************************************************)
LEMMA LeqOptTransitive ==
    ASSUME NEW u \in OptValue, NEW v \in OptValue, NEW w \in OptValue,
           LeqOpt(u, v), LeqOpt(v, w)
    PROVE  LeqOpt(u, w)
BY OrderAssumption DEF LeqOpt, OptValue

LEMMA MonotoneFlow ==
    ASSUME TypeOK, MonotoneContext(fp_context), NEW e \in Edge,
           NEW w \in [NodeIndex -> OptValue],
           \A n \in NodeIndex : LeqOpt(node_values[n], w[n])
    PROVE  LeqOpt(Flow(node_values, e), Flow(w, e))
<1>1. fp_context.start[e] \in NodeIndex
  BY ContextType DEF TypeOK
<1>2. CASE node_values[fp_context.start[e]] = NoValue
  BY <1>2 DEF Flow, LeqOpt
<1>3. CASE node_values[fp_context.start[e]] # NoValue
  <2>1. /\ node_values[fp_context.start[e]] \in Value
        /\ w[fp_context.start[e]] \in Value
        /\ Leq(node_values[fp_context.start[e]], w[fp_context.start[e]])
    BY <1>1, <1>3 DEF TypeOK, OptValue, LeqOpt
  <2>. QED BY <2>1, NoValueAssumption DEF MonotoneContext, Flow
<1>. QED BY <1>2, <1>3

LEMMA UpdateEdgeStaysBelow ==
    ASSUME TypeOK, MergeIsLeast, MonotoneContext(fp_context),
           NEW e \in Edge, update_edge(e),
           NEW w \in [NodeIndex -> OptValue], IsPostFixpoint(w),
           \A n \in NodeIndex : LeqOpt(node_values[n], w[n]),
           NEW n \in NodeIndex
    PROVE  LeqOpt(node_values'[n], w[n])
<1>1. CASE n # fp_context.end[e]
  BY <1>1, UpdateEdgeStep
<1>2. CASE n = fp_context.end[e]
  <2>1. LeqOpt(Flow(node_values, e), Flow(w, e))
    BY MonotoneFlow
  <2>2. LeqOpt(Flow(w, e), w[n])
    BY <1>2 DEF IsPostFixpoint, Satisfied
  <2>3. Flow(node_values, e) \in OptValue /\ Flow(w, e) \in OptValue
    BY FlowType DEF TypeOK
  <2>4. LeqOpt(Flow(node_values, e), w[n])
    BY <2>1, <2>2, <2>3, LeqOptTransitive
  <2>5. CASE Flow(node_values, e) = NoValue
    BY <2>5 DEF update_edge
  <2>6. CASE Flow(node_values, e) # NoValue
    <3>1. /\ Flow(node_values, e) \in Value
          /\ merge_node_value(n, Flow(node_values, e))
      BY <1>2, <2>3, <2>6 DEF update_edge, OptValue
    <3>2. w[n] \in Value /\ Leq(Flow(node_values, e), w[n])
      BY <2>4, <2>6 DEF LeqOpt, OptValue
    <3>3. node_values[n] \in OptValue /\ LeqOpt(node_values[n], w[n])
      BY DEF TypeOK
    <3>4. CASE node_values[n] = NoValue /\ node_values'[n] = Flow(node_values, e)
      BY <3>2, <3>4, NoValueAssumption DEF LeqOpt
    <3>5. CASE node_values[n] # NoValue
                /\ node_values'[n] = Merge(Flow(node_values, e), node_values[n])
      BY <3>1, <3>2, <3>3, <3>5, NoValueAssumption DEF LeqOpt, OptValue, MergeIsLeast
    <3>. QED BY <3>1, <3>4, <3>5, MergeNodeValueStep
  <2>. QED BY <2>5, <2>6
<1>. QED BY <1>1, <1>2

(***************************************************************************)
(* For monotone transfers and a least merge the result is the smallest     *)
(* fixpoint above the values set by the client, as the module docs ask.    *)
(***************************************************************************)
THEOREM LeastFixpoint == Spec => []BelowEveryFixpoint
<1>1. Init => BelowEveryFixpoint
  <2>. SUFFICES ASSUME Init, NEW w \in [NodeIndex -> OptValue],
                       \A s \in seeds : LeqOpt(s[2], w[s[1]]),
                       NEW n \in NodeIndex
                PROVE  LeqOpt(node_values[n], w[n])
    BY DEF BelowEveryFixpoint
  <2>1. PICK default \in OptValue : FromNodePriorityList(default)
    BY DEF Init
  <2>2. CASE default = NoValue
    BY <2>1, <2>2 DEF FromNodePriorityList, LeqOpt
  <2>3. CASE default # NoValue
    <3>1. <<n, default>> \in seeds
      BY <2>1, <2>3 DEF FromNodePriorityList
    <3>. QED BY <2>1, <3>1 DEF FromNodePriorityList
  <2>. QED BY <2>2, <2>3
<1>2. TypeOK /\ BelowEveryFixpoint /\ [Next]_vars => BelowEveryFixpoint'
  <2>1. ASSUME TypeOK, BelowEveryFixpoint, [Next]_vars,
               MergeIsLeast, MonotoneContext(fp_context'),
               NEW w \in [NodeIndex -> OptValue], IsPostFixpoint(w)',
               \A s \in seeds' : LeqOpt(s[2], w[s[1]]),
               NEW n \in NodeIndex
        PROVE  LeqOpt(node_values'[n], w[n])
    <3>1. fp_context' = fp_context /\ seeds \subseteq seeds'
      BY <2>1 DEF Next, ClientStep, LoopStep, vars, problem, ClientSetNodeValue,
             node_values_mut, StartComputeWithMaxSteps, StartCompute,
             take_next_node_from_worklist, MaxStepsVisit, MaxStepsGiveUp,
             update_edge, FinishCompute, FinishComputeWithMaxSteps
    <3>2. IsPostFixpoint(w)
      BY <2>1, <3>1 DEF IsPostFixpoint, Satisfied, Flow
    <3>3. \A m \in NodeIndex : LeqOpt(node_values[m], w[m])
      BY <2>1, <3>1, <3>2 DEF BelowEveryFixpoint
    <3>4. ASSUME NEW m \in NodeIndex, NEW v \in Value, ClientSetNodeValue(m, v)
          PROVE  LeqOpt(node_values'[n], w[n])
      <4>1. <<m, v>> \in seeds'
        BY <3>4 DEF ClientSetNodeValue
      <4>2. LeqOpt(v, w[m])
        BY <2>1, <4>1
      <4>. QED BY <2>1, <3>3, <3>4, <4>2
              DEF ClientSetNodeValue, set_node_value, TypeOK
    <3>5. ASSUME NEW new \in [NodeIndex -> Value], node_values_mut(new)
          PROVE  LeqOpt(node_values'[n], w[n])
      <4>1. CASE n \in NodesWithValue
        <5>1. <<n, new[n]>> \in seeds'
          BY <3>5, <4>1 DEF node_values_mut
        <5>2. LeqOpt(new[n], w[n])
          BY <2>1, <5>1
        <5>. QED BY <3>5, <4>1, <5>2 DEF node_values_mut
      <4>2. CASE n \notin NodesWithValue
        BY <3>5, <4>2 DEF node_values_mut, LeqOpt
      <4>. QED BY <4>1, <4>2
    <3>6. ASSUME NEW e \in Edge, update_edge(e)
          PROVE  LeqOpt(node_values'[n], w[n])
      BY <2>1, <3>1, <3>2, <3>3, <3>6, UpdateEdgeStaysBelow
    <3>7. CASE UNCHANGED node_values
      BY <3>3, <3>7
    <3>. QED BY <2>1, <3>4, <3>5, <3>6, <3>7
            DEF Next, ClientStep, LoopStep, vars, StartComputeWithMaxSteps, StartCompute,
                take_next_node_from_worklist, MaxStepsVisit, MaxStepsGiveUp,
                FinishCompute, FinishComputeWithMaxSteps
  <2>. QED BY <2>1 DEF BelowEveryFixpoint
<1>. QED BY <1>1, <1>2, TypeCorrect, PTL DEF Spec

(***************************************************************************)
(* While update_node runs, all remaining edges start at the same node.     *)
(***************************************************************************)
OneNodeAtATime ==
    \A e, f \in edges : fp_context.start[e] = fp_context.start[f]

VisitInv == OneNodeAtATime /\ TopologicalVisits /\ (~Running => edges = {})

(***************************************************************************)
(* In a topological order the nodes are visited in descending priority.    *)
(***************************************************************************)
THEOREM TopologicalOrderIsFollowed == Spec => []TopologicalVisits
<1>1. Init => VisitInv
  BY DEF Init, VisitInv, OneNodeAtATime, TopologicalVisits
<1>2. TypeOK /\ VisitInv /\ [Next]_vars => VisitInv'
  <2>. SUFFICES ASSUME TypeOK, VisitInv, [Next]_vars PROVE VisitInv'
    OBVIOUS
  <2>1. fp_context' = fp_context /\ node_priority_list' = node_priority_list
    BY DEF Next, ClientStep, LoopStep, vars, problem, ClientSetNodeValue,
           node_values_mut, StartComputeWithMaxSteps, StartCompute,
           take_next_node_from_worklist, MaxStepsVisit, MaxStepsGiveUp,
           update_edge, FinishCompute, FinishComputeWithMaxSteps, node_priority_list
  <2>2. ASSUME edges' = {} PROVE VisitInv'
    BY <2>2 DEF VisitInv, OneNodeAtATime, TopologicalVisits
  <2>3. ASSUME NEW p \in NodeIndex, p \in worklist, IsNextPriority(p), Running',
               worklist' = worklist \ {p},
               edges' = OutgoingEdges(priority_to_node_list[p])
        PROVE  VisitInv'
    <3>1. priority_to_node_list[p] \in NodeIndex
          /\ node_priority_list[priority_to_node_list[p]] = p
      BY PriorityInverse DEF TypeOK, NodeOrders
    <3>2. \A q \in worklist' : q < p
      BY <2>3 DEF IsNextPriority, TypeOK, NodeIndex
    <3>3. \A e \in edges' : fp_context.start[e] = priority_to_node_list[p]
      BY <2>3 DEF OutgoingEdges
    <3>. QED BY <2>1, <2>3, <3>1, <3>2, <3>3
            DEF VisitInv, OneNodeAtATime, TopologicalVisits
  <2>4. ASSUME NEW e \in Edge, update_edge(e)
        PROVE  VisitInv'
    <3>1. worklist' \subseteq worklist \cup {node_priority_list[fp_context.end[e]]}
      BY <2>4, UpdateEdgeStep
    <3>2. e \in edges /\ edges' = edges \ {e} /\ (Running' <=> Running)
      BY <2>4 DEF update_edge, loop, Running
    <3>3. OneNodeAtATime'
      BY <2>1, <3>2 DEF VisitInv, OneNodeAtATime
    <3>4. ASSUME TopologicalOrder', NEW f \in edges', NEW q \in worklist'
          PROVE  q < node_priority_list[fp_context.start[f]]
      <4>1. TopologicalOrder
        BY <2>1, <3>4 DEF TopologicalOrder
      <4>2. fp_context.start[f] = fp_context.start[e]
        BY <3>2, <3>4 DEF VisitInv, OneNodeAtATime
      <4>3. CASE q \in worklist
        BY <3>2, <4>1, <4>3 DEF VisitInv, TopologicalVisits
      <4>4. CASE q = node_priority_list[fp_context.end[e]]
        <5>1. /\ node_priority_list[fp_context.start[e]] \in Int
              /\ node_priority_list[fp_context.end[e]] \in Int
          BY ContextType, PriorityInverse DEF TypeOK, NodeIndex
        <5>. QED BY <4>1, <4>2, <4>4, <5>1 DEF TopologicalOrder
      <4>. QED BY <3>1, <4>3, <4>4
    <3>5. TopologicalVisits'
      BY <2>1, <3>4 DEF TopologicalVisits
    <3>. QED BY <3>2, <3>3, <3>5 DEF VisitInv
  <2>5. ASSUME NEW p \in NodeIndex, take_next_node_from_worklist(p) \/ MaxStepsVisit(p)
        PROVE  VisitInv'
    BY <2>3, <2>5 DEF take_next_node_from_worklist, MaxStepsVisit, loop, Running
  <2>6. CASE ClientStep \/ StartCompute
    BY <2>2, <2>6 DEF ClientStep, StartCompute, ClientSetNodeValue, node_values_mut,
          StartComputeWithMaxSteps, ClientCall, VisitInv
  <2>7. CASE LoopStep
    BY <2>2, <2>4, <2>5, <2>7 DEF LoopStep, MaxStepsGiveUp, FinishCompute,
          FinishComputeWithMaxSteps
  <2>8. CASE UNCHANGED vars
    BY <2>1, <2>8 DEF vars, loop, Running, VisitInv, OneNodeAtATime,
          TopologicalVisits, TopologicalOrder
  <2>. QED BY <2>6, <2>7, <2>8 DEF Next
<1>3. VisitInv => TopologicalVisits
  BY DEF VisitInv
<1>. QED BY <1>1, <1>2, <1>3, TypeCorrect, PTL DEF Spec
=============================================================================
