------------------------------- MODULE CWE252 -------------------------------
(***************************************************************************)
(* checkers/cwe_252: unchecked return values.  The taint of a fallible     *)
(* call's result must not vanish before a condition depended on it.        *)
(***************************************************************************)
EXTENDS Taint

Warning(tid, reason) == [tid |-> tid, reason |-> reason]

handle_empty_state_out(tid) == Flow(None, {Warning(tid, "empty_state")})

OrEmpty(s, tid) == IF is_empty(s) THEN handle_empty_state_out(tid) ELSE Flow(s, {})

update_call_generic(s, tid, cconv) == OrEmpty(KeptByCall(s, cconv), tid)

\* Callees are not entered.
update_call(s, jmp, tid, cconv) == Flow(None, {})

update_extern_call(s, jmp, cconv) ==
  IF jmp.symbol.no_return THEN None
  ELSE IF jmp.symbol.noop THEN s   \* __x86_return_thunk
  ELSE remove_non_callee_saved_taint(s, cconv)

update_call_stub(s, jmp, tid, cconv) ==
  IF jmp.kind = "CallInd" THEN update_call_generic(s, tid, cconv)
  ELSE LET t == update_extern_call(s, jmp, cconv)
       IN  IF t = None THEN Flow(None, {}) ELSE OrEmpty(t, tid)

update_jump(s, jmp, untaken, tid) ==
  IF Checks(s, jmp, untaken) THEN Flow(None, {}) ELSE OrEmpty(s, tid)

\* What a callee leaves to its caller.
Propagated(s, cconv, renaming) ==
  State(IF cconv = None THEN s.register_taint ELSE s.register_taint \cap cconv.return_registers,
        {c \in s.memory_taint :
           renaming # None /\ c[1] \in DOMAIN renaming /\ renaming[c[1]] # {}})

\* Mutant: a callee that returns no taint is not reported.
SilentCallee(s, tid, cconv, renaming) ==
  LET p == Propagated(s, cconv, renaming)
  IN  IF is_empty(p) THEN Flow(None, {}) ELSE Flow(p, {})

update_return_callee(s, tid, cconv, renaming) ==
  LET p == Propagated(s, cconv, renaming)
  IN  IF is_empty(p) THEN Flow(None, {Warning(tid, "return_no_taint")}) ELSE Flow(p, {})

update_def_post(old, new, def, tid) == OrEmpty(new, tid)

-----------------------------------------------------------------------------
(* Returns without callers, analysed with the result of the computation.   *)

IsolatedReturnWarnings(s, tid, cconv) ==
  IF ~has_register_taint(s) THEN {Warning(tid, "isolated_returns_no_reg_taint")}
  ELSE IF cconv # None /\ s.register_taint \cap cconv.return_registers = {}
       THEN {Warning(tid, "isolated_returns_no_reg_taint_returned")}
  ELSE {}
==============================================================================
