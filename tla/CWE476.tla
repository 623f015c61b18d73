------------------------------- MODULE CWE476 -------------------------------
(***************************************************************************)
(* checkers/cwe_476: NULL pointer dereferences.  A possible NULL pointer   *)
(* must not be used as an address, passed on or returned before a          *)
(* condition depended on it.                                               *)
(***************************************************************************)
EXTENDS Taint

Warning(tid, reason) == [tid |-> tid, reason |-> reason]
Used(tid) == {Warning(tid, "used")}

update_call_generic(s, jmp, tid, cconv) ==
  IF check_generic_function_params_for_taint(s, jmp, cconv) THEN Flow(None, Used(tid))
  ELSE Flow(KeptByCall(s, cconv), {})

\* Callees are not entered.
update_call(s, jmp, tid, cconv) ==
  Flow(None, IF check_generic_function_params_for_taint(s, jmp, cconv) THEN Used(tid) ELSE {})

update_call_stub(s, jmp, tid, cconv) ==
  IF is_empty(s) THEN Flow(None, {})
  ELSE IF jmp.kind = "CallInd" THEN update_call_generic(s, jmp, tid, cconv)
  ELSE IF check_extern_parameters_for_taint(s, jmp) THEN Flow(None, Used(tid))
  ELSE Flow(remove_non_callee_saved_taint(s, cconv), {})

\* Mutant: only the condition of the jump itself counts as a check.
OwnConditionOnly(s, jmp, untaken, tid) ==
  IF is_empty(s) \/ Checks(s, jmp, None) THEN Flow(None, {}) ELSE Flow(s, {})

update_jump(s, jmp, untaken, tid) ==
  IF is_empty(s) \/ Checks(s, jmp, untaken) THEN Flow(None, {}) ELSE Flow(s, {})

\* The analysis stays in the function but does not stop in the caller.
update_return_callee(s, jmp, tid, cconv) ==
  Flow(new_empty, IF check_return_values_for_taint(s, jmp, cconv) THEN Used(tid) ELSE {})

update_def_post(old, new, def, tid) ==
  IF is_empty(old) THEN Flow(None, {})
  ELSE IF def.kind \in {"Load", "Store"} /\ eval(old, def.address) THEN Flow(None, Used(tid))
  ELSE Flow(new, {})

==============================================================================
