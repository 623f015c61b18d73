# Verification of the cwe_checker in TLA+

The cwe_checker disassembles a binary with Ghidra, translates Ghidra's P-Code
to its own intermediate representation (IR), normalises and simplifies the IR,
runs data-flow analyses on it (function signatures, pointer inference, string
abstraction, taint) and lets checkers look for bug patterns in the results.
This directory holds TLA+ models of its core, TLC configurations that check
them on small instances, and proofs that TLAPS checks for every instance.

All paths below are relative to `src/src/cwe_checker_lib/src/` unless they say
otherwise. `PROJECT.json` lists for every definition the lines it models.

## 1. The system

### Data flow of one run

```
caller/main.rs
  utils/ghidra.rs --spawns--> Ghidra + PcodeExtractor.java --named pipe--> P-Code project
  ghidra_pcode/       P-Code project -> IR program, eight normalising passes on control flow
  intermediate_representation/project/ir_passes/   six optimising passes
  analysis/graph.rs   IR program -> interprocedural control flow graph
  analysis/fixpoint.rs + forward/backward GeneralizedContext
        <- function signatures, pointer inference, string abstraction, taint, checkers
  abstract_domain/    the values those analyses compute with
  utils/log.rs        collector thread for log messages and warnings
```

The program is sequential except in two places: the log collector runs in its
own thread, and the Ghidra process runs beside the main thread, with another
thread waiting for it and a named pipe in between. The rest of what is hard is
in the algorithms: worklists that change while they are processed, passes that
rely on what earlier passes established, abstract states that must describe
every concrete execution after long sequences of updates, merges and renamings.

### Inventory

| Component | State | Operations | What makes it correct | Module |
|---|---|---|---|---|
| Fixpoint engine `analysis/fixpoint.rs` | node values, worklist of priorities, step counters | `set_node_value`, `node_values_mut`, `compute`, `compute_with_max_steps` | an empty worklist means a fixpoint, the least one for monotone problems; the loop ends | `Fixpoint` |
| Control flow graph `analysis/graph.rs` and contexts `forward_interprocedural_fixpoint.rs`, `backward_interprocedural_fixpoint/` | graph, block worklist, pending return sites; value or pair of values per node | `GraphBuilder::build`, `update_edge`, `merge` | no execution leaves the result of an analysis, callers are not mixed up | `Interprocedural` |
| Log collector `utils/log.rs` | channel, deduplication maps, thread | send, receive, `collect`, `drop` | nothing sent before `Terminate` is lost, one (the last) message per origin, the owner never blocks for ever | `LogThread`, `LogSink` |
| Ghidra execution `utils/ghidra.rs` | two threads, child process, named pipe | create pipe, start, open, read, parse, join, remove, abort | a project only from a Ghidra that succeeded; no deadlock; no mixed pipes | `GhidraExec` |
| Caller and pipeline `caller/main.rs`, `pipeline/`, `checkers.rs` | selected modules, results so far | selection, analyses, early exits, run of the modules | no checker unwraps a result that was not computed | `Caller` |
| P-Code translation `ghidra_pcode/block`, `term.rs`, `pcode_operation`, sub-registers | operations left, block under construction | open, take, advance and close a block; substitution of sub-registers | the IR executes like the P-Code; the translation ends | `PcodeTranslation` |
| Normalising passes `ghidra_pcode/ir_passes/` | the program | eight passes and their postconditions | postconditions survive, control flow is preserved | `IrPasses` |
| IR expressions `expression.rs`, `trivial_operation_substitution.rs` | - | substitution and simplification | same value | `Expressions` |
| Optimising passes `intermediate_representation/project/ir_passes/` | the program | expression propagation, trivial expressions, dead variables, control flow propagation, stack alignment | executions are preserved, expressions do not grow without bound | `Optimize` |
| Bitvector and interval domains `abstract_domain/bitvector.rs`, `interval*` | interval, stride, widening hints and delay | arithmetic, casts, merge and widen, specialise | contains every concrete result; widening chains end | `Bitvector`, `Interval` |
| Data domain `abstract_domain/data*` | targets with offsets, absolute value, top flag | arithmetic, specialisation, merge, replace and remove identifiers | represents every concrete value | `PointerData`; `DataDomain` without offsets |
| Memory region `abstract_domain/mem_region.rs` | offset -> sized value | insert, get, clear, shift, merge, mark as Top | stored values are disjoint and describe the concrete bytes | `MemRegion` |
| Memory objects `analysis/pointer_inference/object*` | region, pointer targets, uniqueness, type | get, set, merge value, rename, remove, overwrite, merge | as the region, also for objects that stand for several; targets cover the contents | `AbstractObject` |
| Taint analysis `analysis/taint/` | tainted registers and memory | transfer functions of the `TaintAnalysis` trait | no flow is lost or invented | `Taint` |
| Checkers CWE252, CWE476 | worklist of source calls, taint per node, warnings | one fixpoint computation per source call, isolated returns | warnings agree with the executions | `CWE252`, `CWE476`, `TaintCheckers` |
| Call graph, function graphs `analysis/callgraph.rs`, `analysis/graph/call.rs`, `intraprocedural_cfg/`, `utils/graph_utils.rs` | graphs, dominator sets | dominators, natural loops, metrics, searches | agree with the definition by paths | `FunctionGraphs` |
| Symbol checkers CWE243, 332, 367, 426, 676, 782 | - | searches for calls | warnings agree with the paths of the program | `SymbolCheckers` |
| Checker CWE416 `checkers/cwe_416/` | freed objects with their free paths | bottom-up fixpoint computation, merging of warnings | uses after free are found, free paths are real | `UseAfterFree` |
| Pointer inference state and context | registers, object list, identifiers | loads, stores, calls, returns, specialisation | - | its parts: `PointerData`, `MemRegion`, `AbstractObject`, `Interprocedural` |
| Function signatures, `DomainMap`, identifiers, string domains and abstraction, CWE78, 119, 134, 190, 215, 337, 467, 560, 789 | - | - | - | see section 7 |
| Runtime memory image, utilities, Java extractor internals, installer, plugins, test harness | - | parsing, file copying, display | - | no state changes to reason about |

### Hard behaviours

`PROJECT.json` lists the hazards line by line. In groups:

* concurrency: senders racing with `collect()` and `drop()`; main thread,
  waiting thread and Ghidra around a pipe whose `open` blocks on both sides;
  several checkers sharing one temporary folder;
* worklists: a value that changes between two outgoing edges of the same node,
  nodes dropped at a step limit, values replaced from outside, blocks that are
  added to a function while the graph is built;
* order of passes: a later pass may undo the postcondition of an earlier one or
  rely on blocks only an earlier one adds;
* numbers at the ends of their range: intervals that wrap, strides with
  negative remainders, comparisons that are signed in one place and not in the
  other, relative jumps behind the last operation of an instruction;
* answers that depend on the order in which nodes are visited: taint that
  arrives at a condition later, freed objects from several paths and callees;
* soundness over long histories: overlapping values in a region, strong updates
  of objects that stand for several, pointer targets maintained beside values;
* failure: Ghidra dying at any stage, panics in helper threads.

## 2. The modules

The models keep the control of the code and abstract its data. Names are those
of the code where possible. A definition whose comment begins with "Mutant", or that stands
before its original with a telling name (`MergeNodeValueOverwrites`), is a
plausible bug that shows what a property detects; it is not part of any
specification.

### Fixpoint, MCFixpoint, FixpointProofs

`node_values`, `worklist`, `priority_to_node_list` and `fp_context` are the
fields of `Computation`; `steps`, `max_steps`, `non_stabilized_nodes` and
`edges` are the local variables of the running loop. One edge update is one
step, so that a value can change between two edges of one node. The client may
set starting values before the first computation, as all callers do, and may
use `node_values_mut` and limited or unlimited computations in any order later.
The context is a constant: any set of graphs with transfer functions, over any
partial order with an upper-bound `merge`.

MCFixpoint gives four graphs with three nodes and four edges: a loop, a DAG
with parallel edges, self loops, and non-monotone transfers, over the subsets of
one or two facts.

### Interprocedural, MCInterprocedural, InterproceduralProofs

`builder` is the `GraphBuilder`. `PopBlock` is one iteration of its worklist
with everything `add_jump_edge` does; `StartAnalyses` adds the return edges and
starts a forward and a backward problem; `update_edge` and `bw_update_edge` are
the two `GeneralizedContext`s. `SolveForward` and `SolveBackward` apply one
unstable edge at a time; the worklist itself is `Fixpoint`'s subject. TLC makes
one choice among the unstable edges, the proofs use nothing about the choice.
The backward problem is solved second; the two share only the graph. To have
something to compare with, the module also contains a small machine (a register
`x`, a local variable `l` per call, both over the set `Words`, external
functions that return anything) that starts when both problems are solved, and
an analysis that collects its states. Machine and analysis model no code and
are not mapped; they make the result of the graph and the contexts observable.

### LogThread, LogSink, MCLogThread, LogThreadProofs

`sent` with `received` is the channel, the `collector` variables are the locals
of `collect_and_deduplicate`, `owner` is the object that spawned the thread. A
CWE warning without address panics the collector as in the code. `LogSink` is
the abstract specification: a log of accepted messages of which the owner gets
the deduplicated contents or a failure. What it returns is defined without
recursion: the last message of each address, and the messages without address
in an order-preserving enumeration of their positions. `ImplementsLogSink` says that the thread
with its channel implements it.

### MemRegion, DataDomain, AbstractObject, their MC modules, MemRegionProofs, AbstractObjectProofs

`values` is the map of the region; `mem` is the concrete memory it describes. The code
has no such variable: each action changes it as the analysed program may have
done when the analysis calls the operation. The value domain is a constant with
the assumptions the code's trait documents (Top represents everything, merge
over-approximates). `DataDomain` is one such domain: sets of identifiers, an
absolute part and the top flag, with offsets left out. `AbstractObject`
instantiates `MemRegion` with it (as `Region`) and adds pointer targets, uniqueness and type,
with the ways in which the object list and the context change an object,
including the merge of global memory from a callee.

### GhidraExec, GhidraExecProofs

Every instance has a main thread (`main`), a waiting thread (`waiter`) and a
Ghidra process (`ghidra`); `fifos` are the named pipes in the shared folder,
which are named after a millisecond timestamp. Opening the pipe needs both
sides; ending the process ends both threads but not Ghidra. Ghidra can fail
before opening, while writing and after writing, can write something that is no
project, and can print bytes that are not UTF-8.

### IrPasses, MCIrPasses, IrPassesProofs

The state is the program: for each function a sequence of blocks with jumps and
indirect targets. Each pass is one action and does all the pass does, in the
order of `PcodeProject::into_ir_project`. A block TID is the sequence of an
address and the suffixes that inlining appends, since the code generates new
TIDs that way; addresses and the prefixes of artificial IDs are different
constants. The worklist of `generate_fn_tid_to_blk_tids_map`, whose order does
not show in its result, is the least set of blocks that contains those of the
function and is closed under intraprocedural references. `NoTargets` is the
`None` of a block without indirect targets. Definitions inside blocks are left out; the pass on
sub-registers, which only changes those, is in PcodeTranslation.

### Bitvector, Interval, PointerData, MCPointerData

`Interval` has strided intervals and the interval domain with its hints,
`PointerData` the data domain over them. The state machine applies operations
to one register, abstractly (`value`, and `exact` in the domain of single
bitvectors) and concretely (`collected`, the set of values the register can
have; two of them are the same for an intersection or a comparison if their
machine words are). The binary operations take operands from a set that contains the
interesting shapes: single values, strided intervals that touch either end of
the range, Top, pointers with and without hints, mixtures. Values wider than eight bytes, for which
the code gives up, are left out.

No operation is kept from running where the code is not sound. Instead the
auxiliary variable `caveats` records which known limits a step ran into, and the
properties name the ones they exclude: an unnoticed overflow and a zero product with a
stride (`ProductLimits`), pointers to different objects at one address and
remainders of negative numbers (`IntersectLimits`). Section 5 has each of them.
In a loop the register is merged with one of `LoopOperands` after the other,
single values of one and two bytes among them, in any order and number.

### Expressions, Optimize, MCOptimize

An expression is a tree of records; `Evaluate` gives it its meaning and the
simplification rules are translated one by one. `Optimize` runs the passes of
`Project::optimize` in order, each as one action, on a function that calls
imported functions. A machine executes the program before and after: what can
be observed are its memory accesses and its calls with the physical registers.
Two equal `Unknown` expressions have equal values in the machine, as in the code.

### PcodeTranslation, MCPcodeTranslation

`ghidra_blk` and the variables after it are `OpIterator` with its position and the
block under construction, `blocks` is the result so far. One step
is one decision of `Block::to_ir_blocks`: open a block, take a definition, go on
to the next instruction, close the block by a jump or because the next term is
a jump target. Afterwards each definition list is treated by the sub-register
pass. Two machines execute P-Code and IR on a register file of bytes in which
registers overlap, in both byte orders. Inputs are what Ghidra emits: a
temporary varnode is used with one size, every instruction but the last has a
fall-through, no LOAD writes to memory.

### Taint, CWE252, CWE476, TaintCheckers, MCTaintCheckers

`Taint` is the state and the provided methods of the trait, `CWE252` and
`CWE476` the overridden ones; `TaintCheckers` runs one computation per source
call with nodes visited in any order. What the pointer inference says of
addresses and parameters is part of the program. The executions to compare with
start at the source call and mark the values that stem from it. Cells are of
equal size: partial overlaps, whose treatment a FIXME in `memory_taint.rs` calls
unsound, are excluded. Calls of other functions are not entered from the source
(as in the code); the 100 steps per node are not reached. Two limits of the
analysis are stated in the properties: a store to an unknown address drops the
taint of memory (`lost`), and a condition that is tainted on one path stops the
taint of all (`hidden`).

### Caller, FunctionGraphs, SymbolCheckers, UseAfterFree, CallerExecutions, MCCaller, CallerProofs

`Caller` is `run_with_ghidra`: arguments, early exits, analyses with the results
they attach, modules one after the other. It is the composition: the modules run
on one program and share its graphs. Dominators and CWE416 are worklist
computations, one node per step in any order, so that the results can be
compared for every order. In `UseAfterFree` a value is a state per function with
its dangling objects; what the pointer inference knows (identifiers, the
renaming at calls) is part of the program. What a search, a loop over a hash
map or a list of sorted warnings computes is a recursive function over the
number of rounds or of elements, so that the proofs can follow it. The graph of one
function (`add_jump`) and the one over all functions (`add_jump_edge`) treat `CallOther`
differently, as in the code. `Caller`
names what normalisation guarantees of a program (`IsNormal`) and what the
pointer inference answers (`ObjectsAreKnown`).

`CallerExecutions` has what the call graphs and CWE416 are compared with: call
chains (with n functions, all of up to 2n + 1 calls) and executions, which are
runs of the control flow with frees. Executions are computed in rounds up to
`MaxSteps`; in one round an execution makes one step, and a
call is one step over an execution of the callee that reached its end. Free
paths that a return extends have up to `MaxFreePath` calls. The heuristics that
the code documents (objects that are not unique, recursive identifiers,
identifiers created by the call itself) are left out of what must be found, and a
warning in a callee counts for the objects of its callers too.

## 3. The runs

| Run | Instance | Shows |
|---|---|---|
| `fixpoint` | 3 nodes, 4 edges, two facts, four graphs, every node order and default value, step limits 1 and 2, one client call | `StabilizedIsFixpoint`, `BelowEveryFixpoint`, `TopologicalVisits`, and every computation that starts also returns (`ComputationTerminates`) |
| `interprocedural` | 900 programs of three functions and five blocks, call depth 2 | no execution leaves the forward result, none that reaches the goal leaves the backward result, callers are kept apart |
| `log_thread` | two senders with two messages each, one of them unwrapping its sends, one address | deduplication, refinement of `LogSink` (nothing lost before `Terminate`, failure only after a malformed warning), the owner is released |
| `mem_region` | offsets 0..3, sizes 1 and 2, two byte values, one pointer target | stored values stay disjoint, every read is sound, a write is a strong update |
| `abstract_object` | offsets 0..1, identifiers a and b, unique and not unique | reads are sound, pointer targets cover the contents |
| `ghidra_exec` | two instances, two timestamps (equal ones included), Ghidra failing at every stage | a project only after success, pipes are not shared or removed in use, every instance ends unless the error report panics, no Ghidra is left waiting for a reader |
| `ir_passes` | 10080 programs: function f with two blocks in both orders, g and h with one, an empty function e, a stub s of the external x, a missing m | postconditions persist, block TIDs stay unique, jumps, return sites and calls lead where they led |
| `value_domains` | bytes of three bits, values of one and two bytes, two operations or a chain of merges | all machine words are represented and intervals and hints are well formed but for named limits, merged values change at most twice as often as they have bits |
| `optimizing_passes` | one block with one expression of every shape the rules match, one block of three definitions in every order, four blocks with jumps, loops and empty blocks | every execution makes the same accesses and calls after each pass; expressions stay within the recursion limit |
| `pcode_translation` | three operations on overlapping registers in both byte orders; four instructions with jumps between and inside them | the IR executes like the P-Code, jump targets exist, only base registers are left, the translation ends |
| `taint_checkers` | programs with a branch or loop behind the source, a source in a function with two callers, memory cells that may alias | the warnings are those that executions justify, none is missing |
| `caller` | every module alone, all of them, pairs and unknown names, with all combinations of the other arguments; graphs of four blocks; call graphs of three functions with recursion; a source call, a loop and two later calls of imported functions; frees in a function and two callees | `ResultsAvailable`; dominators, loops, call sequences and counts agree with paths; warnings of CWE243 and CWE367 are exact; uses after free are found, free paths are real, merging warnings hides no cause, values climb in a well-founded order |

Each property of a passing run has a mutant in `PROJECT.json`: a change of one
mapped definition that a plausible bug would make, and that TLC then refutes.

### Why the bounds are enough

* Fixpoint: three nodes hold a loop, a self loop, parallel edges and a
  branch with a join, which are the ways an edge can become unsatisfied
  after its source was visited. One visit and two visits separate "given up at
  once" from "given up later". The theorems remove the bounds for safety,
  the number of client calls included.
* Interprocedural: two callers of one function, recursion, mutual recursion, a
  block that occurs in two functions, a function without code, indirect and
  external calls and a call that does not return all occur. With two bits of
  state per frame a mixed-up caller is visible; depth 2 holds a recursive call
  below another call. The theorems remove the bounds: any program, any contents
  of the registers, any depth.
* LogThread: two senders and one address give all orders of competing messages
  around `Terminate`. The theorems hold for any number.
* MemRegion: with four offsets and sizes 1 and 2 a value can begin before a
  write and reach into it, lie inside, follow it directly, and have another
  value before it. The theorems remove the bounds. AbstractObject has two
  offsets: it is about identifiers and uniqueness, and layout is covered above;
  its theorems hold for any offsets, sizes, identifiers and incoming objects.
* GhidraExec: two instances are what it takes to share a pipe.
* PointerData: with eight values per byte every pair of ends, sign changes
  and wrap-around occur, two-byte values have casts and subpieces, and two operations give
  results of operations as inputs, stale hints included. A loop merges any number of
  single values: all of one byte, those around zero and at both ends of two bytes. `WordBits` is twice the
  largest width, as u64 and i128 are wide enough for the values of eight bytes
  in the code.
* Optimize: the rules look at most three levels into an expression; three
  definitions hold a definition, a kill and a use in every order; four blocks hold
  two conditions with the same or negated expression around a block that
  becomes empty. The recursion limit is 3 instead of 10 so that it is reached.
* PcodeTranslation: a sub-register assignment, the cast that is folded into
  it, and a reader in between need three operations; an instruction of two
  operations has jumps into, over and behind itself.
* TaintCheckers: the order of visits matters from three blocks with a join
  on, combination at returns from two callers on.
* Caller: with four blocks there are nested, overlapping and irreducible
  loops; three functions give a diamond, a chain and mutual recursion; a free
  path of three calls is one round of recursion more than needed to come back
  to the same node, and 24 rounds of executions are enough that a further one
  adds none in any of the programs. `FreedUses` holds for any number of rounds.
* IrPasses: every pass looks at a block, the function it belongs to and the
  target; the ends of four blocks range over all kinds of jumps and all kinds
  of targets (own block, block of another function, start of a function, stub,
  empty function, missing). The theorems hold for every program.

`CHECK_DEADLOCK FALSE` is used where the system may stop: a computation without
further client calls, a collected log, an ended instance, finished passes, an
execution that ended or reached the depth bound. In the other runs a state
without successor is an error: a worklist that is stuck would be found.

### Fairness

* `Fixpoint!FairSpec`: the loop of a started computation goes on. It is
  sequential code without blocking calls. Nothing is assumed of the client.
* `LogThread!FairSpec`: the collector thread is scheduled, and a `join` returns
  once it ended. Senders need not do anything.
* `GhidraExec!FairSpec`: both threads are scheduled and Ghidra goes on while it
  can; `generate_ghidra_call_command` passes a timeout of one hour to its
  analysis. Which way Ghidra goes, success or failure, is not assumed.
* `PcodeTranslation`: weak fairness of the whole loop, which is sequential.
* CWE416 has no fairness condition: its end follows from `ValuesClimb` and the
  absence of deadlocks, since the order that values climb in is well-founded.

## 4. The proofs

Theorems hold for all values of the constants under the named assumptions of
the modules, which TLC evaluates in the runs.

* **FixpointProofs** (upper-bound merge, partial order): `TypeCorrect`;
  `UnsatisfiedEdgesTracked` - the inductive invariant: an edge whose constraint
  fails has its source queued or given up on, or is among the edges the running
  `update_node` still has to process. It is needed because
  `StabilizedIsFixpoint` alone says nothing while the loop runs. To be
  inductive it needs `WorkIsAccountedFor`, which ties leftover edges and
  given-up nodes to the mode. `StabilizedCorrect` and `ValuesGrow` follow.
  `LeastFixpoint` adds monotone transfers and a least merge as hypotheses in
  the property itself. `TopologicalOrderIsFollowed` needs that the edges being
  processed all start at one node.
* **LogThreadProofs** (any senders, messages and addresses): `TypeCorrect`,
  `DeduplicationCorrect`, `NothingLostBeforeTerminate`, `UnwrapIsSafe`. The
  invariants relate the collector's maps to the prefix of the channel it has
  received; `UnwrapIsSafe` also needs that a running owner has not sent
  `Terminate`. `Refinement` is `Spec => ImplementsLogSink`, every step of
  thread and channel being a step of the sink or none. Its invariant
  `RefineInv` adds that the channel holds at most one `Terminate`, which is
  there once the owner began to collect or drop unless the thread ended before,
  and that the general logs list exactly the messages without address in the
  received prefix, in order. What is in the channel behind `Terminate` is not
  in the abstract log, so a send is a stutter from then on.
* **MemRegionProofs** (any value domain with a Top and an over-approximating
  merge): `IInv` says that the map is well formed (disjoint, no Top stored),
  the memory is typed and every stored value describes its bytes. Soundness of
  writes needs disjointness: `clear_interval` inspects only one key before the
  interval, which is enough only if an earlier value cannot reach over it
  (lemma `ClearIntervalClears`). The merge of two regions is the largest part:
  values that survive its running maximum test are pairwise disjoint.
* **AbstractObjectProofs** (any identifiers, offsets, sizes, incoming objects
  and replacements): the lemmas of `MemRegionProofs` are used through an
  instance with the values of `DataDomain`, for which the assumptions on value
  domains are proved first. `ObjectInvariance` is the inductive invariant: the
  region is well formed, describes the memory of the concrete object it stands
  for, and its identifiers are pointer targets. `TargetsCovered` and
  `ObjectGetCorrect` follow. One lemma per operation; the argument for weak
  updates is that the old value is among the merged ones if the write went
  elsewhere. Overwriting with a callee's object and the merge of globals insert
  one value after another, which is treated as any set of insertions at once.
* **InterproceduralProofs** (any program, block effects, contents of the
  registers and call depth): `Invariance` is proved once, `ForwardCorrect`,
  `BackwardCorrect` and `CallersKeptApart` follow. The invariant has four
  parts. While the graph is built: every block of `jump_targets` has its nodes,
  and its outgoing edges unless it is still on the worklist, with every call
  site of a function among its return addresses; once the return edges are
  added, all of this holds without exception. Forward values fit the kind of
  their node, contain the start states, and hold in the caller's half of a
  combined value only what is at the call site; backward values contain the
  goal at exits. While the program runs, both problems are solved, the
  machine's state is in the value of its node, and so is, for every suspended
  frame, its state at the call: without the frames a return could not be shown
  to stay inside, since its value depends on what was known when the call was
  made. The backward theorem goes against the direction of time. The invariant
  therefore makes a promise: if the present state is in the backward value of
  its node, and each suspended frame has a state with its local variable in the
  backward value of its return site, then all visited states are in theirs.
* **IrPassesProofs** (any program that fits `ProgramsAssumption`):
  `Invariance`, and from it `PostconditionsCorrect`, `TidsCorrect` and
  `ControlFlowCorrect`. The postconditions are not inductive, as each pass
  needs to know more of what the ones before it left behind. The invariant is
  therefore the program itself, described from the translated one: when `p` is
  the next pass, which functions are left (`FunctionsAt`); for each of them
  that its blocks are copies of original blocks or the artificial ones added so
  far (`Content`), in which order, without repeated TIDs and, after inlining,
  closed under references to blocks that still exist (`Layout`); and for each
  copy its TID (`Moved`: the original one in the own function, with the suffix
  of the function elsewhere), where each jump leads (`LeadsAt`), what each call
  calls (`CalledAt`) and which targets of an indirect jump are left
  (`TargetsFit`). There is one lemma per pass that its rewriting of a block
  fits the next description (`...Fits`), one that the pass keeps the invariant
  (`...Keeps`, `...Step`). Uniqueness of TIDs over the whole program follows
  because the TID of a block determines its function (`TidsApart`);
  `NothingToAdd` shows that the closure which `InliningPost` states is what the
  code asserts, an empty set of additional blocks for every function.
* **CallerProofs** (any list of arguments, any normalised program, any order of
  the worklists):
  * `NoMissingResults`: `RunInv` says at each stage which modules can be
    selected and that the results of the analyses they need are there. A partial
    run is any permutation of any subset of the names.
  * `DominatorsAreExact`: `StatsInv` describes the computation under way and the
    results of the functions that were handled. Its part `ValuesOf` has two
    directions. No value is below the exact one: a node with a value
    is reached by a path, and whatever lies on all paths to it is in its value.
    Every edge whose source is not on the worklist is stable. When the worklist
    is empty, all are, and the value of a node is then contained in the blocks
    of every path to it, by induction along the path.
  * `LoopsAreEnteredAtHead` follows from exact dominators and the fact that a
    backward search that does not go beyond the head meets only nodes from
    which the tail is reached without the head.
  * `CallOrders`: `OrderInv` says that the warnings of a partial run are those
    of the module that ran. A search over rounds reaches a node iff a path
    without repetition does (`PathRoundsAre`, `ReachPaths`): the number of
    edges bounds the rounds and the length of such paths. Paths are those of the
    code's graph, in which `CallOther` is a dead end.
  * `NodeValuesClimb`: `UafInv` types the values, the worklist and the warnings
    sent. Merging takes the better of two objects in a total order on free
    paths, so that each transfer result only lifts a value; the passes over
    sets of objects and flows are followed one element at a time (`TurnsTyped`).
  * `CausesAreReported`: handling a sorted set of warnings visits each exactly
    once (`Picks`); the roots collected so far are those of causes whose warning
    stays, and deduplication keeps one warning per address.
  * `FreedUses` is the soundness of the check for CWE416 for executions up to
    the first `CallOther`, where the code's graph ends. `SoundInv` adds to
    `UafInv` what a node that is not on the worklist has passed on: its warnings
    were sent, and the node it leads to has every object it sent (`PassedOn`).
    It also says that warnings name each object that a value has as flagged
    (`NodeHonest`), for a flagged object is neither reported again nor handed to a
    caller. Neither part is inductive alone: passing on an object that is no longer dangling
    is only harmless if it was named. When the worklist is empty, every
    execution is `Described`: the node of its block has a value, and each pair
    it freed is recorded there or blamed, by induction on the rounds
    (`StepsDescribed`, `ExecutionsDescribed`). At a return the pair of the
    callee becomes one of the caller under the renaming (`ReturnsAgree`): it is
    taken over, or was flagged in the callee, whose warning is then blamed for
    it. A use of a recorded object flags it or was preceded by one that did (`UsesAreBlamed`).
  * `CallGraphs`: a call on any chain between two functions lies on one that
    visits no function twice before it or twice after it (`ChainIsBetween`,
    `ChainsJoin`), so that chains of up to 2n + 1 calls are enough for n
    functions. Calls of an imported function correspond one to one to call sites at
    edges of the call graph (`ExternCallsCounted`). For the scores: no graph has more
    nodes than edges and components together (`FewNodes`, adding one edge
    after the other), and loop heads are reached (`HeadsAreReached`) and
    dominated by at most all blocks.

* **GhidraExecProofs** (any number of instances): `OutputKnown` relates the
  place of the main thread to what Ghidra has written and whether it ended;
  from it follow `SuccessIsReal` and, with the pipes, `PipesAreNotShared`.

Assumptions on constants, all evaluated by TLC in the runs:
`ProgramsAssumption` of `Interprocedural` (jumps lead to blocks of the program,
a block ends with at most a conditional and another jump, the entry point has
code - what the normalising passes establish) and of `IrPasses` (a function
with code has a block at its address, TIDs are unique, external functions are
no functions of the program, stubs stand for external functions, a block has a
list of targets iff it ends with an indirect jump or call - what the
translation produces); `NoneAssumption` and `PrefixAssumption` keep constants
apart that are different types or prefixes in the code; `RegionAssumption`,
`CalleeObjectsAssumption` and `InputAssumption` give the inputs of
`AbstractObject` their types, incoming objects being consistent themselves. For
`Caller`, `ProgramsAreNormal` is what the normalising passes establish (one jump
or a conditional and another per block, targets in the own function, called
functions exist, functions begin with one of their blocks, every block belongs
to a function, the first jumps of blocks have addresses of their own),
`ProgramsHaveObjects` says that the identifiers in the answers of the pointer
inference are known ones and that their path hints are calls of internal
functions (only a return from one adds a hint), `StepsAreCounted` that the
number of rounds is one, `ModuleNamesAreFinite` that `--partial` is a finite
list, and the assumptions named `NoneIs...` keep `None` apart from sets and
states, which are of another type in the code.

The theorems on types, on unsatisfied edges, on growing values, on `Terminate`
and on unwrapped sends, and those named `Invariance` and `ObjectInvariance`,
state invariants that the runs do not list separately: they are the arguments
for the ones that are.

Only model-checked: liveness (`ComputationTerminates`, `OwnerIsReleased`,
`NobodyWaitsForever`, `TranslationEnds`), since TLAPS does not reason about
fairness here; the value domains, the optimising passes, the P-Code
translation and the taint checkers, which use recursive operators over trees and
bits or executions that are computed recursively; and `FreePathsAreReal`, which holds
only with enough rounds of executions for the program. The provers cannot use the
library's induction theorems, which take an operator, nor reason in a module
that reaches a `RECURSIVE` operator. Recursive functions over `0..k` are within
reach: `CallerProofs` derives induction for a set of numbers from the
well-foundedness of the natural numbers (`LeastNat`, `Induction`) and the values
of such functions from their definition (`Iteration`).

## 5. Observations

Where code and documentation differ, or where the models had to exclude
something. The passing runs are stated for the programs and inputs without these cases.

Memory and values:

* `abstract_domain/mod.rs:49` says that `merge` "Returns an upper bound (with
  respect to the partial order on the domain) for the two inputs". For
  `MemRegion<DataDomain>` it is not one in any partial order: merging a
  one-byte pointer into an empty region and then a value that overlaps it
  leads back to the empty region. A fixpoint computation over such values can
  alternate until its step limit ends it; the pointer inference has one of 100
  visits per node.
* `Interval::signed_intersect` loses common values of strided intervals that
  start below zero: the remainders it compares are negative for one of them.
  `IntersectLimits` records where (`"Remainders"`).
* `DataDomain::intersect` is called unsound by its own comment
  (`conditional_specialization.rs:81-84`): pointers to different objects may be
  the same machine word, which their intersection loses (`"Aliases"`).
* `signed_mult_with_overflow_flag` does not notice that -1 times the smallest
  number overflows (`"Overflow"`).
* `simple_interval.rs:14` says "if `start == end`, then the stride should always
  be set to zero." `signed_mul` (lines 415-419) computes the stride without
  looking at the ends: the product of zero and an interval of stride two is zero
  with the stride two (`"ZeroProduct"`).
* `signed_merge_and_widen` does not widen if one value contains the other
  (`interval.rs:141`). A loop that computes ever larger values from its own
  one, each containing the one before, is therefore never widened and ends only
  at the step limit of the fixpoint computation. `WideningIsBounded` does not
  count such steps. The widening delay and, for `int_2_comp` of Top, the hints
  may be stale.
* The evaluation of `IntSBorrow` in `bitvector.rs:141-154` disagrees with the
  meaning that `trivial_operation_substitution.rs:266` documents.

Passes and translation:

* `trivial_operation_substitution.rs:106-113` treats a difference like a
  Boolean: `x - y == 1` becomes `x != y`, so that a program that compares a
  difference with one computes something else.
* `replace_call_to_ext_fn.rs:15` says "Preserves: All CFT targets exist." The
  pass removes stubs that jumps and indirect calls may still refer to;
  `PatchCfPass` later drops or redirects these references.
  `remove_empty_functions.rs:16` claims the same; indirect call targets
  may refer to a removed empty function. `PatchCfPass` retargets a call to a
  missing function to the sink function but keeps its return site.
* Control flow propagation removes the first block of a function without known
  callers if it was only reached by a jump that is retargeted.
* Dead variable elimination does not keep the inputs of the expression of a
  return alive.
* The stack alignment pass does not update its journal of the stack pointer after a substitution,
  does not check that the operand is the stack pointer and assumes that it is aligned
  at entry; after the message "Unsubstitutable Operation on SP" of one function,
  later functions end after their first substitution.
* `IntraproceduralDeadBlockElimPass` is empty.
* Jumps to an instruction in a MIPS delay slot lose their target; a block
  without fall-through that needs one is dropped; a LOAD into memory panics;
  inputs of CALLOTHER and UNIMPLEMENTED operations are ignored.

Checkers:

* CWE252: a block that ends in a conditional jump and a return is never an
  isolated return. CWE476 treats the return from a thunk as an ordinary call.
* CWE416: a second free of a pointer that a callee created, freed and returned is not
  reported, as the two cases are kept in separate maps; a double free within a callee
  gives no CWE415 warning in the caller.
* CWE367 names the block behind the source call as the first address.
* A block that ends with `CallOther`, an instruction without semantics, is a
  dead end of the interprocedural graph (`graph.rs:454-460`), whereas the graph of a
  single function has an edge to its return block. Uses behind it
  are found by neither CWE416 nor CWE367, and CWE243 warns of a `chroot` whose
  `chdir` is behind one, although `cwe_243.rs:24` knows of no false positives. The
  paths and executions of `CallOrdersAreExact` and `FreedUsesAreFound` end there
  too; the checked programs contain such blocks.
* Natural loops whose back edge is the return of an internal call are not
  found. The comment of `flattening_score` speaks of the nodes dominated by a
  loop head; the code counts the dominators of the head.

Processes and caller:

* `utils/ghidra.rs:113` says that the function "will abort the program if the
  Ghidra execution does not succeed". With `--verbose` the waiting thread
  unwraps the UTF-8 conversion of Ghidra's output before it aborts; if that
  panics and Ghidra never opened the pipe, the main thread waits in
  `File::open` for ever. `InstanceEnds` excludes this case by name.
* Two instances that start in the same millisecond compute the same pipe name,
  and the second one fails in `mkfifo` (`utils/ghidra.rs:38-49`); a malformed
  project panics at `utils/ghidra.rs:159` and leaves the pipe behind, although
  the comment at line 164 says that errors are propagated.
* `--statistics` ends in `todo!()`. `--debug pi` starts the pointer inference
  whatever was selected: with `--partial` and a module that needs no function
  signatures it unwraps a missing result.
* `MODULES_LKM` names CWE457, which does not exist; nothing depends on it.
* The documentation of `graph.rs` lets `CrCallStub` edges start at `BlkEnd`
  nodes; the code starts them at `CallSource` nodes.
  `specialize_conditional` of the backward context is never called by its
  `update_edge`; indirect calls are treated like calls of external functions.

## 6. Order of the modules, and what is left

The modules were written in this order: the fixpoint engine, since every
analysis rests on it; the log thread and Ghidra execution, where processes
interleave; the memory region and object; normalisation of control flow; the
graph and contexts; the value domains; expressions, optimising passes and
P-Code translation; taint and its checkers; the caller with the graphs of
single functions, the symbol checkers and CWE416.

Left, most important first:

1. **Pointer inference state** (`ObjectList`, `PiState`): the map from
   identifiers to objects with merge, removal of unreachable objects and
   renaming at calls and returns, composed from `AbstractObject` and
   `PointerData`; `DomainMap` with its merge strategies. CWE119 on top of it.
2. **Function signatures** (`GlobalsPropagation`): both propagations over
   the call graph as instances of `Fixpoint`, against reachability.
3. **Proofs**: containment of interval addition, subtraction and merge for every
   width, which needs these operators in a module without recursion; that free
   paths are real, with executions as an inductively defined set.

## 7. Not modelled

* The state and context of the pointer inference beyond its parts, and function
  signatures: what they promise can only be said of executions with stack, heap and
  identifiers at once, a machine larger than those used here.
* The string domains and string abstraction: the rules are about
  format strings, i.e. about data that a model would spell out.
* CWE78, 119, 134, 190, 215, 337, 467, 560 and 789: queries of the results above
  without a state of their own, except for CWE119. `Caller` has the results
  that each of them unwraps.
* Overflow of `i64` offsets in memory regions: offsets are bounded by `Positions`.
* The order in which worklists are created for an analysis: it only decides how
  long a computation takes, and the models allow every order.
* The limit of 100 steps for dominators and taint: with monotone values on small
  graphs it is not reached.
* Wording, formatting and order of logs, warnings, and JSON output.
* ELF and PE parsing, the installer, the plugins and the test harness.
* Undefined or platform-dependent behaviour: there is none in the modelled code,
  which is safe Rust; `mkfifo`, process and pipe semantics are those of POSIX.
