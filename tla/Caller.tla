------------------------------- MODULE Caller -------------------------------
(***************************************************************************)
(* caller/src/main.rs: the selection of modules, the analyses they need    *)
(* and the run of the modules one after the other.  The symbol checkers,   *)
(* the use-after-free checker and the statistics of --cfg-stats are        *)
(* executed; of the other modules only the results they unwrap matter.     *)
(***************************************************************************)
EXTENDS UseAfterFree, SymbolCheckers

CONSTANT
  Inputs      \* records: args and the program p, with p.is_lkm

VARIABLES
  input,
  stage,
  modules,    \* the modules still to run, in their order
  results,    \* the analysis results that were computed
  values,     \* node values of the fixpoint computation under way
  worklist,
  functions,  \* --cfg-stats: functions without dominators yet
  dominators, \* --cfg-stats: of the functions that were handled
  raw,        \* CWE416: warnings sent so far
  warnings    \* the warnings of the modules that ran

vars == <<input, stage, modules, results, values, worklist, functions, dominators, raw, warnings>>
computation == <<values, worklist, functions, dominators, raw>>

args == input.args
prog == input.p

-----------------------------------------------------------------------------
(* What the normalised intermediate representation guarantees *)

\* The blocks that the jump leads to in its function.
JmpTargets(j) ==
  CASE j.kind \in {"Branch", "CBranch"} -> {j.target}
    [] j.kind = "BranchInd" -> j.targets
    [] j.kind \in {"Call", "ExternCall", "CallInd", "CallOther"} -> {j.return}
    [] OTHER -> {}

\* A block has one jump or a conditional jump and a jump, and they stay in its
\* function; called functions exist.  Addresses of jumps are unique.
BlockIsNormal(p, b) ==
  LET jmps == p.blks[b].jmps
  IN  /\ \/ DOMAIN jmps = {1} /\ Len(jmps) = 1
         \/ DOMAIN jmps = {1, 2} /\ Len(jmps) = 2 /\ jmps[1].kind = "CBranch" /\ jmps[2].kind = "Branch"
      /\ \A k \in DOMAIN jmps :
           /\ JmpTargets(jmps[k]) \subseteq BlocksOf(p, p.blks[b].sub)
           /\ IsFiniteSet(JmpTargets(jmps[k]))
           /\ jmps[k].kind = "Call" => jmps[k].target \in DOMAIN p.entry
           /\ jmps[k].kind = "ExternCall" => jmps[k].target \in p.symbols

IsNormal(p) ==
  /\ IsFiniteSet(DOMAIN p.blks)
  /\ \A f \in DOMAIN p.entry : p.entry[f] \in BlocksOf(p, f) \cap Nat
  /\ DOMAIN p.entry \cap p.symbols = {}
  /\ \A b \in DOMAIN p.blks : p.blks[b].sub \in DOMAIN p.entry /\ BlockIsNormal(p, b)
  /\ \A b, c \in DOMAIN p.blks : JmpTid(p, b, 1) = JmpTid(p, c, 1) => b = c

ASSUME ProgramsAreNormal == \A i \in Inputs : IsNormal(i.p)

\* Blocks have numbers, and p.ids has the objects that are passed to a call of
\* free or renamed at a return.  An object has calls of internal functions as
\* hints, since only a return from one adds a hint.
IsListed(s) == s \in Seq(Range(s))
ObjectsAreKnown(p) ==
  /\ IsListed(p.ids)
  /\ \A b \in DOMAIN p.blks : \A id \in DOMAIN p.ids :
       LastOf(p.ids[id].hints) = JmpTid(p, b, 1) => FirstJmp(p, b).kind = "Call"
  /\ \A b \in DOMAIN p.blks :
       /\ b \in Nat
       /\ IsListed(p.blks[b].defs)
       /\ LET j == FirstJmp(p, b)
          IN  /\ j.kind \in {"Call", "ExternCall", "CallInd"} => IsListed(j.args)
              /\ j.kind = "ExternCall" /\ j.args # <<>> =>
                   j.args[1] = None \/ j.args[1] \subseteq DOMAIN p.ids
              /\ j.kind = "Call" /\ j.renaming # None =>
                   /\ DOMAIN j.renaming \subseteq DOMAIN p.ids
                   /\ \A id \in DOMAIN j.renaming : j.renaming[id] \subseteq DOMAIN p.ids

ASSUME ProgramsHaveObjects == \A i \in Inputs : ObjectsAreKnown(i.p)

ASSUME NoneIsNoValue ==
  \A i \in Inputs : \A kind \in {"BlkStart", "CallReturn"} : None \notin NodeValues(i.p, <<kind>>)

ASSUME NoneIsNoDominators == \A bs \in SUBSET (UNION {DOMAIN i.p.blks : i \in Inputs}) : bs # None

ASSUME ModuleNamesAreFinite ==
  \A i \in Inputs : i.args.partial # None => IsFiniteSet(i.args.partial)

-----------------------------------------------------------------------------

Nothing == [n \in {} |-> None]

Init ==
  /\ input \in Inputs
  /\ stage = "start"
  /\ modules = <<>>
  /\ results = {}
  /\ values = Nothing
  /\ worklist = {}
  /\ functions = {}
  /\ dominators = Nothing
  /\ raw = {}
  /\ warnings = {}

-----------------------------------------------------------------------------
(* checkers.rs and the analyses in pipeline/results.rs *)

get_modules ==
  <<"CWE78", "CWE119", "CWE134", "CWE190", "CWE215", "CWE243", "CWE252", "CWE332", "CWE337", "CWE367",
    "CWE416", "CWE426", "CWE467", "CWE476", "CWE560", "CWE676", "CWE782", "CWE789", "Memory">>

MODULES_LKM ==
  {"CWE134", "CWE190", "CWE215", "CWE252", "CWE416", "CWE457", "CWE467", "CWE476", "CWE676", "CWE789"}

ASSUME NoneIsNoSelection == \A m \in Range(get_modules) : {m} # None

modules_depending_on_string_abstraction == {"CWE78"}
modules_depending_on_pointer_inference ==
  {"CWE119", "CWE134", "CWE190", "CWE252", "CWE337", "CWE416", "CWE476", "CWE789", "Memory"}

\* The results that a module unwraps when it runs: cwe_78.rs:87 and 107-109,
\* cwe_119/context/mod.rs:62-63, cwe_416/context.rs:64-65, cwe_134.rs:88,
\* cwe_190.rs:150, cwe_252.rs:187, cwe_337.rs:75, cwe_476.rs:79, cwe_789.rs:138
\* and, for Memory, pointer_inference/mod.rs:429.
Unwraps(module) ==
  CASE module = "CWE78" -> {"strings", "pi"}
    [] module \in {"CWE119", "CWE416"} -> {"pi", "signatures"}
    [] module \in {"CWE134", "CWE190", "CWE252", "CWE337", "CWE476", "CWE789", "Memory"} -> {"pi"}
    [] OTHER -> {}

\* The pointer inference itself needs the signatures, the string abstraction both.
NeededBy(analysis) ==
  CASE analysis = "signatures" -> {}
    [] analysis = "pi" -> {"signatures"}
    [] analysis = "strings" -> {"pi"}

-----------------------------------------------------------------------------
(* run_with_ghidra *)

Exit(next) ==
  stage' = next /\ UNCHANGED <<input, modules, results, computation, warnings>>

\* --debug stops after printing its stage; disassembling may fail.
Disassemble ==
  /\ stage = "start"
  /\ IF args.module_versions THEN Exit("exited")
     ELSE \/ Exit("failed")
          \/ Exit(CASE args.debug \in {"ir", "cg"} -> "exited"
                    [] args.debug \notin {"ir", "cg"} /\ args.cfg_stats -> "stats"
                    [] OTHER -> "disassembled")

\* The order is that of a hash set; unknown names panic, empty ones do not.
filter_modules_for_partial_run(names) ==
  IF names \ {""} \subseteq Range(get_modules) THEN SetToSeqs(names \ {""}) ELSE {}

\* The modules with one of the names, in their order.
Retained(names) ==
  LET retained[i \in 0..Len(get_modules)] ==
        IF i = 0 THEN <<>>
        ELSE IF get_modules[i] \in names THEN Append(retained[i - 1], get_modules[i])
        ELSE retained[i - 1]
  IN  retained[Len(get_modules)]

FilterModules ==
  /\ stage = "disassembled"
  /\ IF args.partial # None
     THEN LET orders == filter_modules_for_partial_run(args.partial)
          IN  IF orders = {} THEN Exit("panicked")
              ELSE \E order \in orders :
                     /\ modules' = order
                     /\ stage' = "filtered"
                     /\ UNCHANGED <<input, results, computation, warnings>>
     ELSE /\ modules' = Retained(IF prog.is_lkm THEN MODULES_LKM ELSE Range(get_modules) \ {"CWE78"})
          /\ stage' = "filtered"
          /\ UNCHANGED <<input, results, computation, warnings>>

\* Read the configuration and build the control flow graph.
ReadConfig ==
  /\ stage = "filtered"
  /\ \/ Exit("failed")
     \/ Exit(IF args.debug = "cfg" THEN "exited" ELSE "configured")

\* Mutant: string abstraction does not ask for the pointer inference.
ForgetsStrings(ms) ==
  IF ms \cap modules_depending_on_pointer_inference # {} THEN {"signatures", "pi"}
  ELSE IF ms \cap modules_depending_on_string_abstraction # {} THEN {"strings"} ELSE {}

\* The analyses computed for the modules ms.
AnalysesFor(ms) ==
  LET string_abstraction_needed == ms \cap modules_depending_on_string_abstraction # {}
      pi_analysis_needed == string_abstraction_needed \/ ms \cap modules_depending_on_pointer_inference # {}
  IN  (IF pi_analysis_needed THEN {"signatures", "pi"} ELSE {})
        \cup (IF string_abstraction_needed THEN {"strings"} ELSE {})

\* --debug pi runs the pointer inference again and returns.
ComputeAnalyses ==
  /\ stage = "configured"
  /\ results' = AnalysesFor(Range(modules))
  /\ stage' = IF \E a \in results' : ~(NeededBy(a) \subseteq results') THEN "panicked"
              ELSE IF args.debug # "pi" THEN "run"
              ELSE IF NeededBy("pi") \subseteq results' THEN "exited"
              ELSE "panicked"
  /\ UNCHANGED <<input, modules, computation, warnings>>

Available(module) == Unwraps(module) \subseteq results

\* A module other than CWE416; the result is arbitrary if it is not modelled.
RunModule ==
  /\ stage = "run" /\ modules # <<>> /\ Head(modules) # "CWE416"
  /\ IF ~Available(Head(modules)) THEN Exit("panicked")
     ELSE /\ IF Head(modules) \in SymbolModules
             THEN \E found \in SymbolChecks(prog, Head(modules)) : warnings' = warnings \cup found
             ELSE UNCHANGED warnings
          /\ modules' = Tail(modules)
          /\ UNCHANGED <<input, stage, results, computation>>

PrintResults ==
  /\ stage = "run" /\ modules = <<>>
  /\ Exit(IF args.statistics /\ ~args.quiet THEN "panicked" ELSE "printed")

-----------------------------------------------------------------------------
(* The check for CWE416 *)

StartCwe416 ==
  /\ stage = "run" /\ modules # <<>> /\ Head(modules) = "CWE416"
  /\ IF ~Available("CWE416") THEN Exit("panicked")
     ELSE /\ stage' = "cwe416"
          /\ values' = StartValues(prog)
          /\ worklist' = {n \in DOMAIN values' : values'[n] # None}
          /\ UNCHANGED <<input, modules, results, functions, dominators, raw, warnings>>

UpdateNode ==
  /\ stage = "cwe416"
  /\ \E n \in worklist :
       LET flows == OutFlows(prog, values[n], n)
           new == UafStep(values, flows)
       IN  /\ values' = new
           /\ worklist' = (worklist \ {n}) \cup {m \in DOMAIN values : new[m] # values[m]}
           /\ raw' = raw \cup UNION {f[2].warnings : f \in flows}
  /\ UNCHANGED <<input, stage, modules, results, functions, dominators, warnings>>

Cwe416Warnings ==
  deduplicate_first_address(generate_context_information_for_warnings(prog, raw))

FinishCwe416 ==
  /\ stage = "cwe416" /\ worklist = {}
  /\ stage' = "run"
  /\ modules' = Tail(modules)
  /\ warnings' = warnings \cup {Warning(IF w.name = 415 THEN "CWE415" ELSE "CWE416", <<w.tid>>) : w \in Cwe416Warnings}
  /\ UNCHANGED <<input, results, values, worklist, functions, dominators, raw>>

-----------------------------------------------------------------------------
(* --cfg-stats: dominators of every function, then the statistics *)

StartStats ==
  /\ stage = "stats"
  /\ stage' = "dominators"
  /\ functions' = DOMAIN prog.entry
  /\ UNCHANGED <<input, modules, results, values, worklist, dominators, raw, warnings>>

\* The function under way; values are those of its graph.
Current == CHOOSE f \in functions : \A g \in functions : prog.entry[f] <= prog.entry[g]

StartDominators ==
  /\ stage = "dominators" /\ functions # {} /\ values = Nothing
  /\ values' = [n \in CfgNodes(prog, Current) |->
                  IF n = Start(prog.entry[Current]) THEN new_single(prog.entry[Current]) ELSE None]
  /\ worklist' = {Start(prog.entry[Current])}
  /\ UNCHANGED <<input, stage, modules, results, functions, dominators, raw, warnings>>

UpdateDominators ==
  /\ stage = "dominators"
  /\ \E n \in worklist :
       LET new == DomStep(prog, Current, values, n)
       IN  /\ values' = new
           /\ worklist' = (worklist \ {n}) \cup {m \in DOMAIN values : new[m] # values[m]}
  /\ UNCHANGED <<input, stage, modules, results, functions, dominators, raw, warnings>>

FinishDominators ==
  /\ stage = "dominators" /\ values # Nothing /\ worklist = {}
  /\ dominators' = [f \in DOMAIN dominators \cup {Current} |->
                      IF f = Current THEN compute_dominators(prog, Current, values) ELSE dominators[f]]
  /\ functions' = functions \ {Current}
  /\ values' = Nothing
  /\ UNCHANGED <<input, stage, modules, results, worklist, raw, warnings>>

FinishStats == stage = "dominators" /\ functions = {} /\ Exit("exited")

\* The process has ended.
Ended == {"exited", "failed", "panicked", "printed"}
Done == stage \in Ended /\ UNCHANGED vars

Next ==
  \/ Disassemble \/ FilterModules \/ ReadConfig \/ ComputeAnalyses \/ RunModule \/ PrintResults
  \/ StartCwe416 \/ UpdateNode \/ FinishCwe416
  \/ StartStats \/ StartDominators \/ UpdateDominators \/ FinishDominators \/ FinishStats
  \/ Done

Spec == Init /\ [][Next]_vars

-----------------------------------------------------------------------------
(* Properties of the caller *)

\* No module and no analysis finds a result missing that it unwraps, whatever
\* the selection of modules: a run panics only for an unknown module name, for
\* --statistics, whose output is not implemented, or for --debug pi without a
\* module that needs the pointer inference.
ResultsAvailable ==
  stage = "panicked" =>
    \/ args.partial # None /\ ~(args.partial \subseteq Range(get_modules) \cup {""})
    \/ args.statistics /\ modules = <<>>
    \/ args.debug = "pi" /\ results = {}

-----------------------------------------------------------------------------
(* Properties of the graphs *)

Finished == stage = "exited" /\ args.cfg_stats /\ dominators # Nothing

\* Paths through the graph from a node without a node twice.
Longer(paths, edges) ==
  paths \cup {Append(x[1], x[2][3]) : x \in {x \in paths \X edges :
                                              x[2][1] = Last(x[1]) /\ x[2][3] \notin Range(x[1])}}
PathRounds(node, edges) ==
  LET paths[i \in 0..Cardinality(edges)] == IF i = 0 THEN {<<node>>} ELSE Longer(paths[i - 1], edges)
  IN  paths
PathsFrom(node, edges) == PathRounds(node, edges)[Cardinality(edges)]

BlocksOn(path) == {n[2] : n \in {n \in Range(path) : IsBlock(n)}}
EntryPaths(f) == PathsFrom(Start(prog.entry[f]), IntraproceduralCfg(prog, f))

\* The dominators of a block are the blocks on all paths from the entry to
\* it, in whatever order the nodes were visited; unreachable blocks have none.
DominatorsOnAllPaths ==
  Finished => \A f \in DOMAIN prog.entry :
    LET paths == EntryPaths(f)
        To(b) == {q \in paths : Last(q) = Start(b)}
    IN  /\ DOMAIN dominators[f] = {b \in BlocksOf(prog, f) : To(b) # {}}
        /\ \A b \in DOMAIN dominators[f] :
             dominators[f][b] = {d \in BlocksOf(prog, f) : \A q \in To(b) : d \in BlocksOn(q)}

\* Every natural loop has its head as only entrance and leads back to it: a
\* reachable block of the loop is dominated by the head, and from each block
\* the head is reached inside the loop.
LoopsEnteredAtHead ==
  Finished => \A f \in DOMAIN prog.entry : \A l \in compute_natural_loops(prog, f, dominators[f]) :
    LET inside == {e \in IntraproceduralCfg(prog, f) : IsBlock(e[1]) => e[1][2] \in l.blocks}
    IN  /\ \A b \in l.blocks \cap DOMAIN dominators[f] : l.head \in dominators[f][b]
        /\ \A b \in l.blocks : Start(l.head) \in Reach({End(b)}, inside)

\* The imported functions that a block ends with a call of.
SymbolsCalled(b) == prog.symbols \cap get_call_targets(prog, b)

\* Walks in the interprocedural graph, in which CallOther is a dead end, from a
\* block to a call of the sink, with no call of the source and no other call of
\* the sink on the way.
CallPaths(b, source, sink) ==
  LET Calls(n, s) == n[1] = "BlkEnd" /\ s \in SymbolsCalled(n[2])
  IN  {q \in PathsFrom(Start(b), GraphWithoutCalls(prog)) :
         /\ Calls(Last(q), sink)
         /\ \A i \in 1..(Len(q) - 1) : ~Calls(q[i], source) /\ ~Calls(q[i], sink)}

Outdated(pair, b) == CallPaths(FirstJmp(prog, b).return, pair[1], pair[2])

\* There is a CWE367 warning for exactly the checks from which a path without
\* CallOther leads to a use without a new check, and it names a use at the end
\* of such a path.
RacesAreExact ==
  stage = "printed" /\ args.partial = {"CWE367"} =>
    LET found == UNION {{<<pair, b>> : b \in {b \in DOMAIN prog.blks : pair[1] \in SymbolsCalled(b)
                                                                  /\ Outdated(pair, b) # {}}} :
                          pair \in prog.config.pairs_367}
    IN  /\ \A x \in found : \E w \in warnings : w.addresses[1] = Tid(FirstJmp(prog, x[2]).return, 0)
        /\ \A w \in warnings : \E x \in found : \E q \in Outdated(x[1], x[2]) :
             w.addresses = <<Tid(FirstJmp(prog, x[2]).return, 0), JmpTid(prog, Last(q)[2], 1)>>

\* There is a CWE243 warning for exactly the calls of chroot from which no path
\* without CallOther leads to chdir before the next chroot, unless the function
\* calls chdir and drops its privileges somewhere.
ChrootsAreExact ==
  stage = "printed" /\ args.partial = {"CWE243"} =>
    LET chroots == {b \in DOMAIN prog.blks : "chroot" \in SymbolsCalled(b)}
        Called(f) == UNION {SymbolsCalled(b) : b \in BlocksOf(prog, f)}
        Excused(f) == "chdir" \in Called(f) /\ Called(f) \cap prog.config.priviledge_dropping_functions # {}
    IN  {w.addresses[1] : w \in warnings} =
          {JmpTid(prog, b, 1) :
             b \in {b \in chroots : /\ CallPaths(FirstJmp(prog, b).return, "chroot", "chdir") = {}
                                    /\ ~Excused(prog.blks[b].sub)}}

\* The warnings of the checkers that search from one call to another are exact
\* (RacesAreExact, ChrootsAreExact).
CallOrdersAreExact == RacesAreExact /\ ChrootsAreExact

-----------------------------------------------------------------------------
(* Properties of the check for CWE416 *)

\* The object o2 is above o1: flagged, or with a shorter or smaller path.
ObjectAbove(o2, o1) ==
  \/ o2 = o1
  \/ o2.kind = "AlreadyFlagged" /\ o1.kind = "Dangling"
  \/ o2.kind = o1.kind /\ (Len(o2.path) < Len(o1.path)
                           \/ (Len(o2.path) = Len(o1.path) /\ LexLess(o2.path, o1.path)))
MapAbove(m2, m1) == \A id \in DOMAIN m1 : id \in DOMAIN m2 /\ ObjectAbove(m2[id], m1[id])
StateAbove(s2, s1) ==
  \/ s1 = None
  \/ s2 # None /\ s2.fn = s1.fn /\ MapAbove(s2.dangling, s1.dangling) /\ MapAbove(s2.same_call, s1.same_call)

\* The computation ends without its limit of steps, for recursive functions
\* too: a node value only ever moves upwards in a well-founded order, although
\* a step may replace a short free path by a longer one or a flag by a new free.
ValuesClimb ==
  [][stage = "cwe416" /\ stage' = "cwe416" =>
       \A n \in DOMAIN values :
         IF n[1] # "CallReturn" \/ values[n] = None THEN StateAbove(values'[n], values[n])
         ELSE /\ StateAbove(values'[n].call_stub, values[n].call_stub)
              /\ StateAbove(values'[n].flow, values[n].flow)]_vars

Converged == stage = "cwe416" /\ worklist = {}

\* The object came into the function by the call that freed it.
SameCall(id, path) == LastOf(prog.ids[id].hints) = Last(path)

\* Merging warnings of the same root cause and address hides no cause: a place
\* with a pointer that was not freed by the call that returned it is reported,
\* and of several returned pointers with one root cause one place is.
CausesStayReported ==
  Converged =>
    LET reported == {w.tid : w \in Cwe416Warnings}
        Returned(c) == SameCall(c[1], c[2])
        Root(c) == get_root_cause_for_returned_dangling_pointers(prog, c[1], c[2])
    IN  \A w \in raw : \A c \in w.causes :
          IF ~Returned(c) THEN w.tid \in reported
          ELSE \E v \in raw : \E d \in v.causes : v.tid \in reported /\ Returned(d) /\ Root(d) = Root(c)

==============================================================================
