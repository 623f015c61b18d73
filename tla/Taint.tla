------------------------------- MODULE Taint -------------------------------
(***************************************************************************)
(* analysis/taint: the state of a taint analysis and the provided methods  *)
(* of the TaintAnalysis trait.  A register or a memory cell is tainted or  *)
(* not; cells are all of one size and do not overlap.  Answers of the      *)
(* pointer inference are part of the program: an address is None (no       *)
(* answer) or a set of cells <<id, offset>>, the offset AnyOffset if not exact.  *)
(*                                                                         *)
(* A method that may report something returns a Flow, the resulting state  *)
(* or None together with the warnings sent on the way.                     *)
(***************************************************************************)
EXTENDS Integers, FiniteSets

CONSTANTS None, AnyOffset

State(regs, mem) == [register_taint |-> regs, memory_taint |-> mem]
new_empty == State({}, {})
is_empty(s) == s.register_taint = {} /\ s.memory_taint = {}
has_register_taint(s) == s.register_taint # {}

Flow(value, warnings) == [value |-> value, warnings |-> warnings]

merge(s, t) ==
  State(s.register_taint \cup t.register_taint, s.memory_taint \cup t.memory_taint)

\* An expression is tainted if one of its input variables is.
eval(s, inputs) == s.register_taint \cap inputs # {}

\* A jump that depends on a tainted condition, its own or the one not taken before it.
Checks(s, jmp, untaken) ==
  \/ jmp.kind = "CBranch" /\ eval(s, jmp.condition)
  \/ untaken # None /\ eval(s, untaken.condition)

Exact(address) == {c \in address : c[2] # AnyOffset}

load_taint_from_memory(s, address) == Exact(address) \cap s.memory_taint # {}

\* A store to the only possible target overwrites, otherwise taint is added.
save_taint_to_memory(s, address, tainted) ==
  [s EXCEPT !.memory_taint =
     IF tainted THEN @ \cup Exact(address)
     ELSE IF Cardinality({c[1] : c \in address}) = 1 THEN @ \ Exact(address)
     ELSE @]

set_register_taint(s, var, tainted) ==
  [s EXCEPT !.register_taint = IF tainted THEN @ \cup {var} ELSE @ \ {var}]

remove_all_memory_taints(s) == [s EXCEPT !.memory_taint = {}]

check_if_address_points_to_taint(s, address) ==
  address # None /\ load_taint_from_memory(s, address)

\* points: what the pointer inference knows of the registers at the jump.
check_register_list_for_taint(s, registers, points) ==
  \E r \in registers :
    r \in s.register_taint \/ check_if_address_points_to_taint(s, points[r])

check_generic_function_params_for_taint(s, jmp, cconv) ==
  IF cconv = None THEN ~is_empty(s)
  ELSE check_register_list_for_taint(s, cconv.params, jmp.points)

check_return_values_for_taint(s, jmp, cconv) ==
  IF cconv = None THEN ~is_empty(s)
  ELSE check_register_list_for_taint(s, cconv.return_registers, jmp.points)

\* A parameter is a register expression or a cell of the stack.
check_extern_parameters_for_taint(s, jmp) ==
  \E arg \in jmp.args :
    \/ arg.kind = "Register" /\ eval(s, arg.inputs)
    \/ arg.kind = "Stack" /\ arg.at # None /\ load_taint_from_memory(s, arg.at)
    \/ check_if_address_points_to_taint(s, arg.points)

remove_non_callee_saved_taint(s, cconv) ==
  [s EXCEPT !.register_taint = @ \cap cconv.callee_saved]

\* The return values of the source call, jmp: registers or a stack cell.
new_return(jmp) ==
  State(UNION {arg.inputs : arg \in {v \in jmp.return_values : v.kind = "Register"}},
        UNION {Exact(arg.at) : arg \in {v \in jmp.return_values : v.kind = "Stack" /\ v.at # None}})

\* Cells of the callee as cells of the caller.
Renamed(mem, renaming) ==
  UNION {{<<v[1], v[2] + c[2]>> : v \in Exact(renaming[c[1]])} :
           c \in {c \in mem : c[1] \in DOMAIN renaming}}

merge_with_renaming(s, t, renaming) ==
  State(s.register_taint \cup t.register_taint,
        s.memory_taint \cup (IF renaming = None THEN {} ELSE Renamed(t.memory_taint, renaming)))

-----------------------------------------------------------------------------
(* Provided methods of TaintAnalysis.  At calls the methods that analyses  *)
(* replace are passed as the flows they return.                            *)

update_def_assign(s, def) == set_register_taint(s, def.var, eval(s, def.inputs))

update_def_load(s, def) ==
  set_register_taint(s, def.var, def.at # None /\ load_taint_from_memory(s, def.at))

update_def_store(s, def) ==
  IF def.at = None THEN remove_all_memory_taints(s)
  ELSE save_taint_to_memory(s, def.at, eval(s, def.inputs))

NewStateAtDef(s, def) ==
  CASE def.kind = "Assign" -> update_def_assign(s, def)
    [] def.kind = "Load" -> update_def_load(s, def)
    [] def.kind = "Store" -> update_def_store(s, def)

\* What remains after a call with the given calling convention, None if unknown.
KeptByCall(s, cconv) ==
  IF cconv = None THEN s ELSE remove_non_callee_saved_taint(s, cconv)

\* A state at both sides of a return: None on one side stops the propagation.
\* Without a state before the call the result is that of the callee alone.
CombineReturn(before_call, caller, before_return, callee, renaming) ==
  LET warnings == caller.warnings \cup callee.warnings
  IN  IF before_return = None THEN caller
      ELSE IF before_call = None
           THEN Flow(IF callee.value = None THEN None
                     ELSE merge_with_renaming(new_empty, callee.value, renaming), warnings)
      ELSE Flow(IF caller.value = None \/ callee.value = None THEN None
                ELSE merge_with_renaming(caller.value, callee.value, renaming), warnings)
==============================================================================
