---------------------------- MODULE UseAfterFree ----------------------------
(***************************************************************************)
(* checkers/cwe_416: objects that may have been freed, bottom-up over the  *)
(* call graph.  Every function starts with no freed object, nothing flows  *)
(* from caller to callee, and at a return the objects that the callee      *)
(* freed are added to those of the caller.                                 *)
(*                                                                         *)
(* Answers of the pointer inference are part of the program: objects are   *)
(* numbers, an address is None (no answer) or a set of objects, p.ids says *)
(* where an object was created (tid), through which calls the current      *)
(* function got it (hints), its parent location and whether it is unique.  *)
(* A call has its arguments, and a renaming of the callee's objects.       *)
(***************************************************************************)
EXTENDS FunctionGraphs, TLC

\* A state after a step and the warnings sent on the way.
Flow(value, warnings) == [value |-> value, warnings |-> warnings]

ObjectState(kind, path) == [kind |-> kind, path |-> path]
ObjectStates == [kind : {"Dangling", "AlreadyFlagged"}, path : Seq(Int)]

LexLess(p, q) ==
  \E i \in DOMAIN p : p[i] < q[i] /\ \A j \in 1..(i - 1) : p[j] = q[j]

\* Mutant: the longer path is kept.
Longest(p, q) ==
  IF Len(p) < Len(q) \/ (Len(p) = Len(q) /\ LexLess(p, q)) THEN q ELSE p

Shortest(p, q) ==
  IF Len(p) < Len(q) \/ (Len(p) = Len(q) /\ LexLess(p, q)) THEN p ELSE q

merge_object(a, b) ==
  IF a.kind = b.kind THEN ObjectState(a.kind, Shortest(a.path, b.path))
  ELSE IF a.kind = "AlreadyFlagged" THEN a ELSE b

\* Mutant: only objects that both states know.
CommonObjects(m, n) == [id \in DOMAIN m \cap DOMAIN n |-> merge_object(m[id], n[id])]

\* Union of the keys.
merge_map(m, n) ==
  [id \in DOMAIN m \cup DOMAIN n |->
     IF id \notin DOMAIN n THEN m[id] ELSE IF id \notin DOMAIN m THEN n[id]
     ELSE merge_object(m[id], n[id])]

NoObjects == [id \in {} |-> None]
ObjectMaps(p) == UNION {[ids -> ObjectStates] : ids \in SUBSET DOMAIN p.ids}

\* same_call: the objects that were created and freed in the same call.
new_state(f) == [fn |-> f, dangling |-> NoObjects, same_call |-> NoObjects]
States(p) == [fn : DOMAIN p.entry, dangling : ObjectMaps(p), same_call : ObjectMaps(p)]

merge(s, t) ==
  [s EXCEPT !.dangling = merge_map(@, t.dangling), !.same_call = merge_map(@, t.same_call)]

IsDangling(m, id) == id \in DOMAIN m /\ m[id].kind = "Dangling"
Insert(m, id, object) == [x \in DOMAIN m \cup {id} |-> IF x = id THEN object ELSE m[x]]

\* The dangling ones of the objects become flagged.
FlagIn(m, ids) ==
  [id \in DOMAIN m |->
     IF id \in ids THEN ObjectState("AlreadyFlagged", m[id].path) ELSE m[id]]
Causes(m, ids) == {<<id, m[id].path>> : id \in {id \in ids : IsDangling(m, id)}}

check_address_for_use_after_free(s, ids) ==
  Flow([s EXCEPT !.dangling = FlagIn(@, ids), !.same_call = FlagIn(@, ids)],
       Causes(s.dangling, ids) \cup Causes(s.same_call, ids))

LastOf(seq) == IF seq = <<>> THEN None ELSE Last(seq)

\* The result of the step is that of a double free, if there was one.
mark_as_freed(p, s, id, path) ==
  LET Freed(m) == Insert(m, id, ObjectState("Dangling", path))
  IN  IF ~p.ids[id].unique THEN Flow(s, {})
      ELSE IF LastOf(p.ids[id].hints) = Last(path)
      THEN Flow([s EXCEPT !.same_call = Freed(@)], Causes(s.same_call, {id}))
      ELSE Flow([s EXCEPT !.dangling = Freed(@)], Causes(s.dangling, {id}))

\* An object and its parent object are a recursive data structure.
get_non_recursive_ids(p, ids) ==
  LET children == {id \in ids : p.ids[id].parent \in ids}
  IN  ids \ (children \cup {p.ids[id].parent : id \in children})

\* The objects in the order of their numbers.
Ordered(ids) ==
  [i \in 1..Cardinality(ids) |-> CHOOSE id \in ids : Cardinality({x \in ids : x < id}) = i - 1]

\* Steps one after the other, each with its own causes.
InTurn(Step(_, _), s, seq) ==
  LET flow[i \in 0..Len(seq)] ==
        IF i = 0 THEN Flow(s, {})
        ELSE LET next == Step(flow[i - 1].value, seq[i])
             IN  Flow(next.value, flow[i - 1].warnings \cup next.warnings)
  IN  flow[Len(seq)]

MarkAll(p, s, ids, path) == InTurn(LAMBDA t, id : mark_as_freed(p, t, id, path), s, Ordered(ids))

handle_param_of_free_call(p, s, call, param) ==
  MarkAll(p, s, get_non_recursive_ids(p, param), <<call>>)

\* Mutant: the call is put at the wrong end of the path.
CallPushedFirst(p, s, callee, renaming, call) ==
  LET Targets(id) ==
        IF id \notin DOMAIN renaming THEN {}
        ELSE {t \in get_non_recursive_ids(p, renaming[id]) : p.ids[t].tid # call}
      FromObject(t, id) ==
        IF callee.dangling[id].kind = "AlreadyFlagged" THEN Flow(t, {})
        ELSE MarkAll(p, t, Targets(id), <<call>> \o callee.dangling[id].path)
  IN  InTurn(FromObject, s, Ordered(DOMAIN callee.dangling)).value

\* Objects the callee freed, except those already flagged there and those
\* that exist in the caller through this very call.
collect_freed_objects_from_called_function(p, s, callee, renaming, call) ==
  LET Targets(id) ==
        IF id \notin DOMAIN renaming THEN {}
        ELSE {t \in get_non_recursive_ids(p, renaming[id]) : p.ids[t].tid # call}
      FromObject(t, id) ==
        IF callee.dangling[id].kind = "AlreadyFlagged" THEN Flow(t, {})
        ELSE MarkAll(p, t, Targets(id), Append(callee.dangling[id].path, call))
  IN  InTurn(FromObject, s, Ordered(DOMAIN callee.dangling)).value

-----------------------------------------------------------------------------
(* context.rs *)

\* A warning with its causes, pairs of an object and the path to its free site.
WarningContext(name, tid, causes, fn) ==
  IF causes = {} THEN {} ELSE {[name |-> name, tid |-> tid, causes |-> causes, fn |-> fn]}

\* args: the values of the arguments, None where the inference has none.
collect_cwe_warnings_of_call_params(s, args) ==
  InTurn(LAMBDA t, value : IF value = None THEN Flow(t, {})
                           ELSE check_address_for_use_after_free(t, value), s, args)

UseWarning(tid, flow) ==
  Flow(flow.value, WarningContext(416, tid, flow.warnings, flow.value.fn))

\* args of an internal call: the parameters that the callee dereferences.
check_internal_call_params_for_use_after_free(s, call, tid) ==
  UseWarning(tid, collect_cwe_warnings_of_call_params(s, call.args))

handle_call_to_free(p, s, call, tid) ==
  IF call.args = <<>> \/ call.args[1] = None THEN Flow(s, {})
  ELSE LET flow == handle_param_of_free_call(p, s, tid, call.args[1])
       IN  Flow(flow.value, WarningContext(415, tid, flow.warnings, s.fn))

update_def(s, def, tid) ==
  IF def.at = None THEN Flow(s, {})
  ELSE UseWarning(tid, check_address_for_use_after_free(s, def.at))

\* No information flows into the callee.
update_call(s, call, tid) ==
  Flow(None, check_internal_call_params_for_use_after_free(s, call, tid).warnings)

update_return(p, before_return, before_call, call, tid) ==
  IF before_return = None \/ before_call = None \/ call.renaming = None THEN Flow(None, {})
  ELSE LET checked == check_internal_call_params_for_use_after_free(before_call, call, tid)
       IN  Flow(collect_freed_objects_from_called_function(p, checked.value, before_return,
                                                          call.renaming, tid),
                checked.warnings)

\* Indirect calls have the registers of the standard calling convention as args.
update_call_stub(p, s, call, tid) ==
  IF call.kind = "ExternCall" /\ call.target = "free" THEN handle_call_to_free(p, s, call, tid)
  ELSE UseWarning(tid, collect_cwe_warnings_of_call_params(s, call.args))

-----------------------------------------------------------------------------
(* The fixpoint computation.  A CallSource node has the value of the end   *)
(* of its block.                                                           *)

CallReturns(p) ==
  UNION {{CallReturn(c, r) : r \in ReturnBlocks(p, FirstJmp(p, c).target)} :
           c \in {c \in DOMAIN p.blks : FirstJmp(p, c).kind = "Call"}}
UafNodes(p) ==
  {Start(b) : b \in DOMAIN p.blks} \cup {End(b) : b \in DOMAIN p.blks} \cup CallReturns(p)

\* A CallReturn node keeps the values of the call and of the return apart.
NodeValues(p, n) ==
  IF n[1] = "CallReturn" THEN [call_stub : States(p) \cup {None}, flow : States(p) \cup {None}]
  ELSE States(p)

\* Every function starts with the empty state.
StartValues(p) ==
  [n \in UafNodes(p) |->
     IF \E f \in DOMAIN p.entry : n = Start(p.entry[f]) THEN new_state(p.blks[n[2]].sub) ELSE None]

BlockFlow(p, s, b) ==
  InTurn(LAMBDA t, i : update_def(t, p.blks[b].defs[i], Tid(b, i)), s,
         [i \in DOMAIN p.blks[b].defs |-> i])

\* What the node n with the value v sends to which nodes.
OutFlows(p, v, n) ==
  LET b == n[2]
      j == FirstJmp(p, b)
      tid == JmpTid(p, b, 1)
  IN  CASE n[1] = "BlkStart" -> {<<End(b), BlockFlow(p, v, b)>>}
        [] n[1] = "CallReturn" ->
             {<<Start(j.return), update_return(p, v.flow, v.call_stub, j, tid)>>}
        [] n[1] = "BlkEnd" /\ j.kind = "Call" ->
             {<<Start(p.entry[j.target]), update_call(v, j, tid)>>}
               \cup {<<m, Flow([call_stub |-> v, flow |-> None], {})>> :
                       m \in {m \in CallReturns(p) : m[2] = b}}
        [] n[1] = "BlkEnd" /\ j.kind = "Return" ->
             {<<m, Flow([call_stub |-> None, flow |-> v], {})>> : m \in {m \in CallReturns(p) : m[3] = b}}
        [] n[1] = "BlkEnd" /\ j.kind \in {"ExternCall", "CallInd"} ->
             {<<Start(j.return), update_call_stub(p, v, j, tid)>>}
        [] OTHER -> {<<e[3], Flow(v, {})>> : e \in add_jump_edge(p, b)}

MergeOption(v, w) == IF v = None THEN w ELSE IF w = None THEN v ELSE merge(v, w)
MergeValues(n, v, w) ==
  IF v = None THEN w
  ELSE IF n[1] # "CallReturn" THEN merge(v, w)
  ELSE [call_stub |-> MergeOption(v.call_stub, w.call_stub), flow |-> MergeOption(v.flow, w.flow)]

\* A node sends one value to another node, over several edges or not.
UafStep(values, flows) ==
  LET Incoming(m) == {f[2].value : f \in {f \in flows : f[1] = m}} \ {None}
  IN  [m \in DOMAIN values |->
         IF Incoming(m) = {} THEN values[m] ELSE MergeValues(m, values[m], CHOOSE v \in Incoming(m) : TRUE)]

-----------------------------------------------------------------------------
(* mod.rs: what happens to the warnings after the computation              *)

\* How many of the last calls of the free path the object took as well.
SharedCalls(hints, path) ==
  Max({k \in 0..Len(path) :
         /\ k <= Len(hints)
         /\ \A i \in 1..k : hints[Len(hints) + 1 - i] = path[Len(path) + 1 - i]})

\* The free path without the shared calls, empty if all are shared.
Unshared(p, id, path) == SubSeq(path, 1, Len(path) - SharedCalls(p.ids[id].hints, path))

get_shortended_path_to_source_of_free(p, id, path) ==
  LET unshared == Unshared(p, id, path)
  IN  IF unshared = <<>> THEN path ELSE SubSeq(path, Len(unshared), Len(path))

get_root_cause_for_returned_dangling_pointers(p, id, path) ==
  LET unshared == Unshared(p, id, path)
  IN  IF unshared = <<>> THEN <<path[1]>> ELSE unshared

\* Mutant: all pointers whose free site is in another function.
FreedInCallee(p, id, path) == Len(path) > 1

is_case_of_returned_dangling_pointer(p, id, path) == LastOf(p.ids[id].hints) = Last(path)

\* One cause of a warning; roots are the root causes seen so far.
AddCause(p, acc, cause) ==
  LET id == cause[1]
      path == cause[2]
      returned == is_case_of_returned_dangling_pointer(p, id, path)
      root == get_root_cause_for_returned_dangling_pointers(p, id, path)
      shown == IF p.always_include_full_path_to_free_site THEN path
               ELSE get_shortended_path_to_source_of_free(p, id, path)
  IN  IF returned /\ root \in acc.roots THEN acc
      ELSE [roots |-> IF returned THEN acc.roots \cup {root} ELSE acc.roots,
            infos |-> acc.infos \cup {<<id, shown[1]>>},
            tids |-> acc.tids \cup Range(Tail(shown))]

\* The elements of an ordered set one after the other.
InOrder(Step(_, _), acc, S, First(_)) ==
  LET run[i \in 0..Cardinality(S)] ==
        IF i = 0 THEN [left |-> S, acc |-> acc]
        ELSE LET x == First(run[i - 1].left)
             IN  [left |-> run[i - 1].left \ {x}, acc |-> Step(run[i - 1].acc, x)]
  IN  run[Cardinality(S)].acc

\* Causes are handled in the order of their objects, warnings in the order of
\* their names and addresses; a warning without a remaining cause is dropped.
FirstCause(causes) == CHOOSE c \in causes : \A d \in causes : c[1] <= d[1]
FirstWarning(warnings) ==
  CHOOSE v \in warnings : \A w \in warnings : v.name < w.name \/ (v.name = w.name /\ v.tid <= w.tid)

AddCauses(p, roots, causes) ==
  InOrder(LAMBDA acc, c : AddCause(p, acc, c), [roots |-> roots, infos |-> {}, tids |-> {}], causes, FirstCause)

AddWarning(p, acc, w) ==
  LET result == AddCauses(p, acc.roots, w.causes)
  IN  [roots |-> result.roots,
       done |-> IF result.infos = {} THEN acc.done
                ELSE acc.done \cup {[name |-> w.name, tid |-> w.tid, fn |-> w.fn,
                                     infos |-> result.infos, tids |-> result.tids]}]

generate_context_information_for_warnings(p, warnings) ==
  InOrder(LAMBDA acc, w : AddWarning(p, acc, w), [roots |-> {}, done |-> {}], warnings, FirstWarning).done

\* One of the warnings with the same address is kept.
deduplicate_first_address(warnings) ==
  {CHOOSE w \in warnings : w.tid = t : t \in {w.tid : w \in warnings}}

==============================================================================
