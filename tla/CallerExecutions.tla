-------------------------- MODULE CallerExecutions --------------------------
(***************************************************************************)
(* Call chains and executions of a program, to compare the call graphs and *)
(* the check for CWE416 with.                                              *)
(***************************************************************************)
EXTENDS Caller

\* Sequences of up to k + 1 calls from f on, each in the function called before.
CallChains(f, calls, k) ==
  LET chains[i \in 0..k] ==
        IF i = 0 THEN {<<e>> : e \in {e \in calls : e[1] = f}}
        ELSE UNION {{Append(c, e) : e \in {e \in calls : e[1] = Last(c)[3]}} : c \in chains[i - 1]}
  IN  UNION {chains[i] : i \in 0..k}

\* The calls found between two functions are those of all call chains that
\* start in the one and end with a call of the other, recursive ones included.
\* A call on a chain is on one that visits no function twice before it or twice
\* after it.
CallSequencesOnPaths ==
  stage = "stats" => \A f, g \in DOMAIN prog.entry :
    LET calls == get_program_callgraph(prog)
        chains == CallChains(f, calls, 2 * Cardinality(DOMAIN prog.entry))
    IN  find_call_sequences_to_target(calls, f, g)
          = {e[2] : e \in UNION {Range(c) : c \in {c \in chains : Last(c)[3] = g}}}

\* The statistics are defined for every function, and each call of an imported
\* function is counted once although the call graph has one edge per caller.
StatsCountCalls ==
  Finished =>
    LET stats == CfgProperties(prog, dominators)
    IN  /\ \A f \in DOMAIN stats.internal_fns : stats.internal_fns[f].cyclomatic_complexity >= 1
                                              /\ stats.internal_fns[f].flattening_score <= 1000000
        /\ \A s \in prog.symbols :
             stats.external_fns[s] =
               Cardinality({b \in DOMAIN prog.blks : FirstJmp(prog, b).kind = "ExternCall"
                                                     /\ FirstJmp(prog, b).target = s})

\* Both call graphs agree with the calls of the program (CallSequencesOnPaths,
\* StatsCountCalls).
CallGraphsAreExact == CallSequencesOnPaths /\ StatsCountCalls

-----------------------------------------------------------------------------
(* Executions of the functions of a program with the objects they freed.   *)
(* freed: pairs of an object and the path to the call that freed it.  An   *)
(* object the analysis ignores on purpose is not recorded.  An execution   *)
(* ends at a CallOther: the graph that the check runs on has no edge there,*)
(* and nothing is promised for what comes behind it.                       *)

CONSTANTS
  MaxFreePath,    \* bound on the calls on a free path, for recursion
  MaxSteps        \* bound on the steps of an execution

ASSUME StepsAreCounted == MaxSteps \in Nat

Exec(b, i, freed) == [blk |-> b, pos |-> i, freed |-> freed]
Here(e) == prog.blks[e.blk]
AtEnd(e) == e.pos = Len(Here(e).defs)
FreedIds(freed) == {x[1] : x \in freed}

WithFreed(freed, id, path) ==
  IF ~prog.ids[id].unique THEN freed
  ELSE {x \in freed : x[1] # id \/ SameCall(id, x[2]) # SameCall(id, path)} \cup {<<id, path>>}

\* One of the possible objects is freed.
AfterFree(freed, ids, path) ==
  {IF id \in get_non_recursive_ids(prog, ids) THEN WithFreed(freed, id, path) ELSE freed : id \in ids}

AfterStub(e, j, tid) ==
  IF j.kind = "ExternCall" /\ j.target = "free" /\ j.args # <<>> /\ j.args[1] \notin {None, {}}
  THEN AfterFree(e.freed, j.args[1], <<tid>>)
  ELSE {e.freed}

\* Each object that the callee freed is one object of the caller, and recorded
\* there unless the callee used it as well.
AfterReturn(q, r, call, tid) ==
  LET seen == {x \in r.freed : x[1] \in DOMAIN call.renaming /\ call.renaming[x[1]] # {}
                               /\ Len(x[2]) < MaxFreePath}
      Freed(freeds, x) ==
        freeds \cup
        UNION {{IF id \in get_non_recursive_ids(prog, call.renaming[x[1]]) /\ prog.ids[id].tid # tid
                    /\ ~SameCall(x[1], x[2])
                THEN WithFreed(freed, id, Append(x[2], tid)) ELSE freed :
                  id \in call.renaming[x[1]]} : freed \in freeds}
      All(seq) ==
        LET freeds[i \in 0..Len(seq)] == IF i = 0 THEN {q.freed} ELSE Freed(freeds[i - 1], seq[i])
        IN  freeds[Len(seq)]
  IN  {Exec(call.return, 0, freed) : freed \in UNION {All(seq) : seq \in SetToSeqs(seen)}}

Steps(execs, e) ==
  LET j == FirstJmp(prog, e.blk)
      tid == JmpTid(prog, e.blk, 1)
  IN  IF ~AtEnd(e) THEN {Exec(e.blk, e.pos + 1, e.freed)}
      ELSE CASE j.kind = "Call" ->
                  IF j.renaming = None THEN {}
                  ELSE UNION {AfterReturn(e, r, j, tid) :
                                r \in {r \in execs : AtEnd(r) /\ r.blk \in ReturnBlocks(prog, j.target)}}
             [] j.kind \in {"ExternCall", "CallInd"} ->
                  {Exec(j.return, 0, freed) : freed \in AfterStub(e, j, tid)}
             [] j.kind = "CallOther" -> {}
             [] OTHER -> {Exec(x[3][2], 0, e.freed) : x \in PlainJumps(prog, e.blk)}

\* The executions after up to so many steps, of which one may be the return
\* from an execution of a callee.
Continued(execs) == execs \cup UNION {Steps(execs, e) : e \in execs}
ExecRounds ==
  LET execs[i \in 0..MaxSteps] ==
        IF i = 0 THEN {Exec(prog.entry[f], 0, {}) : f \in DOMAIN prog.entry} ELSE Continued(execs[i - 1])
  IN  execs
Executions == ExecRounds[MaxSteps]

ArgIds(as) == UNION {a \in Range(as) : a # None}

\* The freed objects that the next step of the execution uses or frees again.
UsedFreed(e) ==
  LET j == FirstJmp(prog, e.blk)
  IN  IF ~AtEnd(e)
      THEN IF Here(e).defs[e.pos + 1].at = None THEN {}
           ELSE Here(e).defs[e.pos + 1].at \cap FreedIds(e.freed)
      ELSE CASE j.kind = "ExternCall" /\ j.target = "free" ->
                  IF j.args = <<>> \/ j.args[1] = None THEN {}
                  ELSE get_non_recursive_ids(prog, j.args[1])
                         \cap {x[1] : x \in {x \in e.freed : ~SameCall(x[1], x[2])}}
             [] j.kind \in {"Call", "CallInd"} \/ (j.kind = "ExternCall" /\ j.target # "free") ->
                  ArgIds(j.args) \cap FreedIds(e.freed)
             [] OTHER -> {}

\* The object of a callee stands for an object of the caller.
Renamings ==
  UNION {{<<<<FirstJmp(prog, c).target, x[1]>>, c, <<prog.blks[c].sub, x[2]>>>> :
            x \in {x \in (DOMAIN FirstJmp(prog, c).renaming) \X (DOMAIN prog.ids) :
                      x[2] \in FirstJmp(prog, c).renaming[x[1]]}} :
           c \in {c \in DOMAIN prog.blks : FirstJmp(prog, c).kind = "Call"
                                           /\ FirstJmp(prog, c).renaming # None}}

\* Objects of functions for which a warning exists, and the objects of their
\* callers that they stand for.
Blamed == Reach(UNION {{<<w.fn, c[1]>> : c \in w.causes} : w \in raw}, Renamings)

\* If an execution of a function uses or frees again an object that was freed
\* since it started, and did not pass a CallOther before, then a warning names
\* this object, or the object of a callee that it is, whatever the order in
\* which nodes were visited.
FreedUsesAreFound ==
  Converged =>
    LET blamed == Blamed
    IN  \A e \in Executions : \A id \in UsedFreed(e) : <<Here(e).sub, id>> \in blamed

\* Every cause of a warning is real: an execution arrives at the place of the
\* warning after it freed the object along the calls of the given path.
FreePathsAreReal ==
  Converged =>
    LET execs == Executions
    IN  \A w \in raw : \A c \in w.causes : Len(c[2]) <= MaxFreePath =>
          \E e \in execs : /\ c \in e.freed
                           /\ IF AtEnd(e) THEN w.tid = JmpTid(prog, e.blk, 1)
                              ELSE w.tid = Tid(e.blk, e.pos + 1)
==============================================================================
