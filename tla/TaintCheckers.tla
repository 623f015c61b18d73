--------------------------- MODULE TaintCheckers ---------------------------
(***************************************************************************)
(* The two checkers that are taint analyses, CWE252 and CWE476, run on a   *)
(* program: one fixpoint computation per call of a configured function,    *)
(* with the nodes visited in any order.                                    *)
(*                                                                         *)
(* The results are compared with the executions of the program from the    *)
(* source call on.  In an execution a location is marked if its value      *)
(* stems from the source; addresses are any of those the pointer inference *)
(* allows, and a jump whose condition reads a marked value is a check.     *)
(***************************************************************************)
EXTENDS Taint, Sequences, SequencesExt

CONSTANT
  Inputs      \* records: checker, blks, cconv, offsets (of every object)

VARIABLES
  input,
  sources,    \* the blocks with a source call still to be analysed
  source,     \* the one being analysed, None before the first
  phase,      \* idle, compute, finished
  values,     \* node values of the computation
  worklist,
  warnings    \* records: source, tid, reason

vars == <<input, sources, source, phase, values, worklist, warnings>>

C252 == INSTANCE CWE252
C476 == INSTANCE CWE476

is252 == input.checker = "CWE252"
blks == input.blks
cconv == input.cconv

-----------------------------------------------------------------------------
(* The interprocedural control flow graph.  A CallSource node has the      *)
(* value of the end of its block and is left out.                          *)

Start(b) == <<"BlkStart", b>>
End(b) == <<"BlkEnd", b>>
CallReturn(call, return) == <<"CallReturn", call, return>>

Jmps(b) == blks[b].jmps
DefTid(b, i) == <<b, i>>
JmpTid(b, k) == <<b, Len(blks[b].defs) + k>>

JmpOf(b, kind) == SelectInSeq(Jmps(b), LAMBDA j : j.kind = kind)
Call(b) == Jmps(b)[JmpOf(b, "Call")]
Callers(f) == {c \in DOMAIN blks : JmpOf(c, "Call") # 0 /\ Call(c).target = f}
Returns(f) == {r \in DOMAIN blks : JmpOf(r, "Return") # 0 /\ blks[r].sub = f}
CallReturns ==
  UNION {{CallReturn(c, r) : r \in Returns(Call(c).target)} :
           c \in {c \in DOMAIN blks : JmpOf(c, "Call") # 0 /\ Call(c).return # None}}

Nodes == {Start(b) : b \in DOMAIN blks} \cup {End(b) : b \in DOMAIN blks} \cup CallReturns

-----------------------------------------------------------------------------
(* The methods of the chosen analysis on the edges of the graph.           *)

update_def(s, b, i) ==
  LET def == blks[b].defs[i]
      new == NewStateAtDef(s, def)
  IN  IF is252 THEN C252!update_def_post(s, new, def, DefTid(b, i))
      ELSE C476!update_def_post(s, new, def, DefTid(b, i))

BlockFlow(s, b) ==
  FoldLeft(LAMBDA flow, i :
             IF flow.value = None THEN flow
             ELSE LET next == update_def(flow.value, b, i)
                  IN  Flow(next.value, flow.warnings \cup next.warnings),
           Flow(s, {}), [i \in DOMAIN blks[b].defs |-> i])

Untaken(b, k) == IF k > 1 THEN Jmps(b)[k - 1] ELSE None

update_jump(s, b, k) ==
  IF is252 THEN C252!update_jump(s, Jmps(b)[k], Untaken(b, k), JmpTid(b, k))
  ELSE C476!update_jump(s, Jmps(b)[k], Untaken(b, k), JmpTid(b, k))

update_call(s, b, k) ==
  IF is252 THEN C252!update_call(s, Jmps(b)[k], JmpTid(b, k), cconv)
  ELSE C476!update_call(s, Jmps(b)[k], JmpTid(b, k), cconv)

update_call_stub(s, b, k) ==
  IF is252 THEN C252!update_call_stub(s, Jmps(b)[k], JmpTid(b, k), cconv)
  ELSE C476!update_call_stub(s, Jmps(b)[k], JmpTid(b, k), cconv)

CallerFlow(s, c) ==
  LET tid == JmpTid(c, JmpOf(c, "Call"))
  IN  IF is252 THEN C252!update_call_generic(s, tid, cconv)
      ELSE C476!update_call_generic(s, Call(c), tid, cconv)

CalleeFlow(s, c, r) ==
  LET k == JmpOf(r, "Return")
  IN  IF is252 THEN C252!update_return_callee(s, JmpTid(r, k), cconv, Call(c).renaming)
      ELSE C476!update_return_callee(s, Jmps(r)[k], JmpTid(r, k), cconv)

handle_empty_state_out(tid) == IF is252 THEN C252!handle_empty_state_out(tid) ELSE Flow(None, {})

update_return(before_return, before_call, c, r) ==
  LET none == Flow(None, {})
      flow == CombineReturn(before_call, IF before_call = None THEN none ELSE CallerFlow(before_call, c),
                            before_return, IF before_return = None THEN none
                                           ELSE CalleeFlow(before_return, c, r),
                            Call(c).renaming)
  IN  IF flow.value = None \/ ~is_empty(flow.value) THEN flow
      ELSE LET empty == handle_empty_state_out(JmpTid(r, JmpOf(r, "Return")))
           IN  Flow(empty.value, empty.warnings \cup flow.warnings)

\* What one jump, with the state s before it, sends to which nodes.
JmpFlows(s, b, k) ==
  LET j == Jmps(b)[k]
  IN  CASE j.kind \in {"Branch", "CBranch"} -> {<<Start(j.target), update_jump(s, b, k)>>}
        [] j.kind \in {"ExternCall", "CallInd"} ->
             IF j.return = None THEN {} ELSE {<<Start(j.return), update_call_stub(s, b, k)>>}
        [] j.kind = "Call" ->
             {<<n, Flow([call_stub |-> s, flow |-> None], {})>> : n \in {n \in CallReturns : n[2] = b}}
               \cup {<<End(b), update_call(s, b, k)>>}
        [] j.kind = "Return" ->
             {<<n, Flow([call_stub |-> None, flow |-> s], {})>> : n \in {n \in CallReturns : n[3] = b}}

\* The results of the edges that leave the node n.
OutFlows(n) ==
  CASE n[1] = "BlkStart" -> {<<End(n[2]), BlockFlow(values[n], n[2])>>}
    [] n[1] = "BlkEnd" -> UNION {JmpFlows(values[n], n[2], k) : k \in DOMAIN Jmps(n[2])}
    [] n[1] = "CallReturn" ->
         {<<Start(Call(n[2]).return),
            update_return(values[n].flow, values[n].call_stub, n[2], n[3])>>}

MergeOption(v, w) == IF v = None THEN w ELSE IF w = None THEN v ELSE merge(v, w)
MergeValues(n, v, w) ==
  IF v = None THEN w
  ELSE IF n[1] # "CallReturn" THEN merge(v, w)
  ELSE [call_stub |-> MergeOption(v.call_stub, w.call_stub), flow |-> MergeOption(v.flow, w.flow)]

-----------------------------------------------------------------------------
(* The checkers                                                            *)

\* Calls of the configured symbols that return.
SourceCalls ==
  {b \in DOMAIN blks :
     \E k \in DOMAIN Jmps(b) : Jmps(b)[k].kind = "ExternCall" /\ Jmps(b)[k].symbol.configured
                               /\ Jmps(b)[k].return # None}

Init ==
  /\ input \in Inputs
  /\ sources = SourceCalls
  /\ source = None
  /\ phase = "idle"
  /\ values = [n \in Nodes |-> None]
  /\ worklist = {}
  /\ warnings = {}

SourceJmp(b) == Jmps(b)[JmpOf(b, "ExternCall")]

\* The computation of the next source call starts at its return node.
NextSource ==
  /\ phase # "compute"
  /\ phase' = "compute"
  /\ \E b \in sources :
       LET n == Start(SourceJmp(b).return)
       IN  /\ source' = b
           /\ sources' = sources \ {b}
           /\ values' = [m \in Nodes |-> IF m = n THEN new_return(SourceJmp(b)) ELSE None]
           /\ worklist' = {n}
  /\ UNCHANGED <<input, warnings>>

WithSource(ws) == {[source |-> source, tid |-> w.tid, reason |-> w.reason] : w \in ws}

\* One iteration of the fixpoint computation.
UpdateNode ==
  \E n \in worklist :
    LET flows == OutFlows(n)
        Into(m) == {f[2].value : f \in {f \in flows : f[1] = m /\ f[2].value # None}}
        new == [m \in Nodes |->
                  FoldSet(LAMBDA v, w : MergeValues(m, w, v), values[m], Into(m))]
    IN  /\ values' = new
        /\ worklist' = (worklist \ {n}) \cup {m \in Nodes : new[m] # values[m]}
        /\ warnings' = warnings \cup WithSource(UNION {f[2].warnings : f \in flows})
        /\ UNCHANGED <<input, sources, source, phase>>

IsolatedReturns ==
  {b \in DOMAIN blks : /\ JmpOf(b, "Return") # 0
                       /\ \A n \in CallReturns : n[3] # b
                       /\ Len(Jmps(b)) = 1}

\* The computation has ended; CWE252 looks at the returns without callers.
FinishSource ==
  /\ phase = "compute"
  /\ worklist = {}
  /\ phase' = "finished"
  /\ warnings' =
       IF ~is252 THEN warnings
       ELSE warnings \cup
              WithSource(UNION {C252!IsolatedReturnWarnings(values[End(b)], JmpTid(b, 1), cconv) :
                                  b \in {b \in IsolatedReturns : values[End(b)] # None}})
  /\ UNCHANGED <<input, sources, source, values, worklist>>

\* The check has returned its warnings.
Done == phase # "compute" /\ sources = {} /\ UNCHANGED vars

Next == NextSource \/ UpdateNode \/ FinishSource \/ Done

Spec == Init /\ [][Next]_vars

-----------------------------------------------------------------------------
(* Executions from the return of the source call on, in the function of    *)
(* the source and its callers.  lost: the analysis gave up on a mark,      *)
(* because the pointer inference does not know a place exactly.  hidden: a *)
(* condition read no mark, but is tainted where paths merged.              *)

Exec(b, i, regs, mem, lost, hidden) ==
  [blk |-> b, pos |-> i, regs |-> regs, mem |-> mem, lost |-> lost, hidden |-> hidden]

AtEnd(e) == e.pos = Len(blks[e.blk].defs)
MarkState(e) == State(e.regs, e.mem)

Inexact(address) == address = None \/ Exact(address) # address
Cells == UNION {{<<id, o>> : o \in input.offsets[id]} : id \in DOMAIN input.offsets}
Places(address) ==
  IF address = None THEN Cells
  ELSE Exact(address) \cup {c \in Cells : <<c[1], AnyOffset>> \in address}

\* The value read or written next is at one of the places.
AfterDef(e) ==
  LET def == blks[e.blk].defs[e.pos + 1]
      marked == e.regs \cap def.inputs # {}
      Moved(regs, mem, lost) == Exec(e.blk, e.pos + 1, regs, mem, e.lost \/ lost, e.hidden)
      Written(m) == IF m THEN e.regs \cup {def.var} ELSE e.regs \ {def.var}
  IN  CASE def.kind = "Assign" -> {Moved(Written(marked), e.mem, FALSE)}
        [] def.kind = "Load" ->
             {Moved(Written(c \in e.mem), e.mem, Inexact(def.at) /\ e.mem # {}) : c \in Places(def.at)}
        [] def.kind = "Store" ->
             {Moved(e.regs, IF marked THEN e.mem \cup {c} ELSE e.mem \ {c},
                   Inexact(def.at) /\ (marked \/ e.mem # {})) : c \in Places(def.at)}

KeptRegs(e) == IF cconv = None THEN e.regs ELSE e.regs \cap cconv.callee_saved
ReturnedRegs(e) == IF cconv = None THEN e.regs ELSE e.regs \cap cconv.return_registers

AfterJmp(e, k) ==
  LET j == Jmps(e.blk)[k]
      To(b, regs, lost, hidden) == {Exec(b, 0, regs, e.mem, e.lost \/ lost, e.hidden \/ hidden)}
  IN  CASE j.kind \in {"Branch", "CBranch"} ->
             IF Checks(MarkState(e), j, Untaken(e.blk, k)) THEN {}
             ELSE To(j.target, e.regs, FALSE,
                     values[End(e.blk)] # None /\ Checks(values[End(e.blk)], j, Untaken(e.blk, k)))
        [] j.kind = "ExternCall" ->
             IF j.return = None \/ j.symbol.no_return THEN {}
             ELSE IF j.symbol.noop THEN To(j.return, e.regs, ~is252 /\ e.regs # KeptRegs(e), FALSE)
             ELSE To(j.return, e.regs \cap cconv.callee_saved, FALSE, FALSE)
        [] j.kind = "CallInd" -> IF j.return = None THEN {} ELSE To(j.return, KeptRegs(e), FALSE, FALSE)
        \* The callee returns nothing marked.
        [] j.kind = "Call" ->
             IF \E n \in CallReturns : n[2] = e.blk THEN To(j.return, KeptRegs(e), FALSE, FALSE) ELSE {}
        [] j.kind = "Return" -> {}

\* Marks of the callee that the caller sees: every object of the callee that it
\* knows is at one of the places of the renaming.
VisibleMem(e, renaming) ==
  IF renaming = None THEN {} ELSE Renamed(e.mem, renaming)
RenamingLoses(e, renaming) ==
  \E c \in e.mem : renaming = None \/ (c[1] \in DOMAIN renaming /\ Inexact(renaming[c[1]]))

\* e returns to the call at the end of c, where the caller has the marks of q.
AfterReturn(e, c, q) ==
  Exec(Call(c).return, 0, ReturnedRegs(e) \cup KeptRegs(q),
       VisibleMem(e, Call(c).renaming) \cup q.mem,
       e.lost \/ q.lost \/ RenamingLoses(e, Call(c).renaming), e.hidden \/ q.hidden)

Unmarked(c) == Exec(c, Len(blks[c].defs), {}, {}, FALSE, FALSE)

\* The places where the execution uses a marked value.
UsesAt(e) ==
  LET s == MarkState(e)
  IN  IF AtEnd(e)
      THEN {JmpTid(e.blk, k) : k \in {k \in DOMAIN Jmps(e.blk) :
              LET j == Jmps(e.blk)[k]
              IN  \/ j.kind \in {"Call", "CallInd"}
                     /\ (j.kind = "Call" \/ j.return # None)
                     /\ check_generic_function_params_for_taint(s, j, cconv)
                  \/ j.kind = "ExternCall" /\ j.return # None /\ check_extern_parameters_for_taint(s, j)
                  \/ j.kind = "Return" /\ (\E n \in CallReturns : n[3] = e.blk)
                     /\ check_return_values_for_taint(s, j, cconv)}}
      ELSE LET def == blks[e.blk].defs[e.pos + 1]
           IN  IF def.kind # "Assign" /\ eval(s, def.address)
               THEN {DefTid(e.blk, e.pos + 1)} ELSE {}

Successors(execs) ==
  UNION {IF ~is252 /\ UsesAt(e) # {} THEN {}
         ELSE IF AtEnd(e) THEN UNION {AfterJmp(e, k) : k \in DOMAIN Jmps(e.blk)}
         ELSE AfterDef(e) : e \in execs}
    \cup
  (IF ~is252 THEN {}
   ELSE UNION {{AfterReturn(e, n[2], q) :
                  e \in {e \in execs : e.blk = n[3] /\ AtEnd(e)},
                  q \in {q \in execs : q.blk = n[2] /\ AtEnd(q)} \cup {Unmarked(n[2])}} :
                 n \in CallReturns})

RECURSIVE Closure(_)
Closure(execs) ==
  LET next == execs \cup Successors(execs)
  IN  IF next = execs THEN execs ELSE Closure(next)

Executions ==
  LET s == new_return(SourceJmp(source))
  IN  Closure({Exec(SourceJmp(source).return, 0, s.register_taint, s.memory_taint, FALSE, FALSE)})

-----------------------------------------------------------------------------
(* Properties                                                              *)

Warned == {w.tid : w \in {w \in warnings : w.source = source}}

\* Every CWE476 warning names a place where an execution uses the result of
\* the source call, and on its way no condition depended on that result,
\* whatever the order in which nodes were visited.
NullUsesAreReal ==
  phase = "finished" /\ ~is252 =>
    LET execs == Executions IN \A t \in Warned : \E e \in execs : t \in UsesAt(e)

\* If an execution uses the unchecked result there is a CWE476 warning for the
\* source, unless the pointer inference lost the value or a condition on the
\* way is tainted by another path.
NullUsesAreFound ==
  phase = "finished" /\ ~is252 =>
    ((\E e \in Executions : UsesAt(e) # {} /\ ~e.lost /\ ~e.hidden) => Warned # {})

\* CWE476 warns of the unchecked uses and of nothing else (NullUsesAreReal,
\* NullUsesAreFound).
NullUsesAreExact == NullUsesAreReal /\ NullUsesAreFound

NothingKept(e, k) ==
  LET j == Jmps(e.blk)[k]
  IN  \/ e.lost
      \/ j.kind = "Return" /\ ReturnedRegs(e) = {}
           /\ \/ e.blk \in IsolatedReturns
              \/ \E c \in Callers(blks[e.blk].sub) :
                   RenamingLoses(e, Call(c).renaming) \/ VisibleMem(e, Call(c).renaming) = {}
      \/ j.kind \in {"Call", "CallInd", "ExternCall"} /\ KeptRegs(e) = {} /\ e.mem = {}
      \/ e.regs = {} /\ e.mem = {}

\* Every CWE252 warning names a place at which an execution has lost the result
\* of the source call, and no condition depended on it before.
IgnoredResultsAreReal ==
  phase = "finished" /\ is252 =>
    LET execs == Executions
    IN  \A t \in Warned : \E e \in execs :
          /\ e.blk = t[1]
          /\ IF t[2] <= Len(blks[e.blk].defs)
             THEN e.pos = t[2] /\ (e.lost \/ (e.regs = {} /\ e.mem = {}))
             ELSE AtEnd(e) /\ NothingKept(e, t[2] - Len(blks[e.blk].defs))

\* If an execution leaves a function without callers unchecked, and none that
\* reaches this return has the result in a return register, then there is a
\* CWE252 warning for the source.
IgnoredResultsAreFound ==
  phase = "finished" /\ is252 =>
    LET execs == Executions
    IN  \A b \in IsolatedReturns :
          LET there == {e \in execs : e.blk = b /\ AtEnd(e)}
          IN  (\E e \in there : ~e.lost /\ ~e.hidden) /\ (\A e \in there : ReturnedRegs(e) = {})
                => Warned # {}

\* CWE252 warns of the ignored results and of nothing else
\* (IgnoredResultsAreReal, IgnoredResultsAreFound).
IgnoredResultsAreExact == IgnoredResultsAreReal /\ IgnoredResultsAreFound
==============================================================================
