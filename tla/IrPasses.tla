------------------------------ MODULE IrPasses ------------------------------
(***************************************************************************)
(* ghidra_pcode/ir_passes: the passes that bring the control flow of a     *)
(* freshly translated program to normal form, in the order of              *)
(* PcodeProject::into_ir_project.  SubregisterSubstitutionPass only        *)
(* rewrites Defs, which the model leaves out, and is no step here.         *)
(*                                                                         *)
(* A block TID is a sequence: an address and the suffixes that were        *)
(* appended to the ID.  A function is identified with its address, so the  *)
(* block <<f>> is the one at the address of the function f.                *)
(***************************************************************************)
EXTENDS Naturals, FiniteSets, Sequences, SequencesExt

CONSTANTS
  Addresses,     \* of blocks and functions; external functions have one, too
  Programs,      \* the translated programs
  None,
  SinkFn,        \* Tid::artificial_sink_fn
  SinkBlock,     \* the ID prefix of artificial sink blocks
  ReturnTarget   \* the ID prefix of artificial return target blocks

\* The IDs of artificial terms have prefixes of their own.
ASSUME PrefixAssumption ==
  /\ SinkFn \notin Addresses /\ SinkBlock \notin Addresses /\ ReturnTarget \notin Addresses
  /\ SinkBlock # ReturnTarget

ASSUME NoneAssumption == None \notin Seq(Addresses \cup {SinkFn, SinkBlock, ReturnTarget})

VARIABLES
  input,         \* the program as translated from P-Code, for reference
  subs,          \* Program::subs, the blocks of every function
  entry_points,  \* Program::entry_points
  pass           \* the next pass

vars == <<input, subs, entry_points, pass>>

Passes ==
  <<"SingleTargetIndirectCalls", "ReorderFnBlocks", "ReplaceCallsToExtFns", "Inlining",
    "NoreturnExtFunctions", "RemoveEmptyFunctions", "PatchCf", "EntryPoints", "done">>

-----------------------------------------------------------------------------
(* Terms.                                                                  *)

Tids == {<<a>> : a \in Addresses}

Jmps ==
  [kind : {"Branch", "CBranch"}, target : Tids, return : {None}]
    \cup [kind : {"Call"}, target : Addresses, return : Tids \cup {None}]
    \cup [kind : {"CallInd", "CallOther"}, target : {None}, return : Tids \cup {None}]
    \cup [kind : {"BranchInd", "Return"}, target : {None}, return : {None}]

\* The block does not end with an indirect jump or call.
NoTargets == [kind |-> "None", targets |-> <<>>]

\* ind is the list of known targets of the indirect jump or call at the end.
Blks ==
  [tid : Tids, jmps : Seq(Jmps),
   ind : {NoTargets} \cup [kind : {"Jump"}, targets : Seq(Tids)]
                     \cup [kind : {"Call"}, targets : Seq(Addresses)]]

Call(target, return) == [kind |-> "Call", target |-> target, return |-> return]
Branch(target) == [kind |-> "Branch", target |-> target, return |-> None]

IsBranch(j) == j.kind \in {"Branch", "CBranch"}

\* The block an intraprocedural jump leads to or a call returns to, or None.
IntraTarget(j) == IF IsBranch(j) THEN j.target ELSE j.return

SetIntraTarget(j, t) ==
  IF IsBranch(j) THEN [j EXCEPT !.target = t] ELSE [j EXCEPT !.return = t]

\* A block that only loops to itself: artificial sinks and return targets.
SelfLoop(tid) == [tid |-> tid, jmps |-> <<Branch(tid)>>, ind |-> NoTargets]

artificial_sink_block_for_fn(f) == <<SinkBlock, f>>
artificial_return_target_for_fn(f) == <<ReturnTarget, f>>

BlkTids(blocks) == {blocks[i].tid : i \in DOMAIN blocks}
AllBlkTids(s) == UNION {BlkTids(s[f]) : f \in DOMAIN s}

\* Apply an operation to every jump, or to every block, of the program.
MapJmps(b, Op(_)) == [b EXCEPT !.jmps = [k \in DOMAIN b.jmps |-> Op(b.jmps[k])]]
MapBlks(s, Op(_, _)) == [f \in DOMAIN s |-> [i \in DOMAIN s[f] |-> Op(f, s[f][i])]]

\* A block has targets iff it ends with an indirect jump or call.
IndFits(b) ==
  LET kind == IF b.jmps = <<>> THEN None ELSE Last(b.jmps).kind
  IN  /\ kind = "BranchInd" => b.ind # NoTargets /\ b.ind.kind = "Jump"
      /\ kind = "CallInd" => b.ind # NoTargets /\ b.ind.kind = "Call"
      /\ kind \notin {"BranchInd", "CallInd"} => b.ind = NoTargets

UniqueTids(s) ==
  \A f, g \in DOMAIN s : \A i \in DOMAIN s[f], k \in DOMAIN s[g] :
    s[f][i].tid = s[g][k].tid => f = g /\ i = k

\* What the translation produces: a function with code has a block at its
\* address, and external functions are no functions of the program.
ASSUME ProgramsAssumption ==
  \A p \in Programs :
    /\ DOMAIN p.subs \subseteq Addresses
    /\ \A f \in DOMAIN p.subs :
         /\ p.subs[f] \in Seq(Blks)
         /\ p.subs[f] # <<>> => <<f>> \in BlkTids(p.subs[f])
         /\ \A i \in DOMAIN p.subs[f] : IndFits(p.subs[f][i])
    /\ IsFiniteSet(AllBlkTids(p.subs))
    /\ UniqueTids(p.subs)
    /\ p.extern_symbols \subseteq Addresses /\ p.extern_symbols \cap DOMAIN p.subs = {}
    /\ DOMAIN p.stubs \subseteq DOMAIN p.subs
    /\ \A f \in DOMAIN p.stubs : p.stubs[f] \in p.extern_symbols
    /\ p.noreturn \subseteq p.extern_symbols

Init ==
  /\ input \in Programs
  /\ subs = input.subs
  /\ entry_points = input.entry_points
  /\ pass = Head(Passes)

\* Every pass runs once, in order.
Run(name) ==
  /\ pass = name
  /\ pass' = Passes[(CHOOSE i \in DOMAIN Passes : Passes[i] = name) + 1]
  /\ UNCHANGED input

-----------------------------------------------------------------------------
(* SingleTargetIndirectCallsPass                                           *)

\* Mutant: the list of targets stays on the block.
KeepTargetsOfDirectCall(b) ==
  IF b.jmps # <<>> /\ Last(b.jmps).kind = "CallInd" /\ Len(b.ind.targets) = 1
  THEN [b EXCEPT !.jmps[Len(b.jmps)] = Call(b.ind.targets[1], Last(b.jmps).return)]
  ELSE b

ReplaceSingleTargetCall(b) ==
  IF b.jmps # <<>> /\ Last(b.jmps).kind = "CallInd" /\ Len(b.ind.targets) = 1
  THEN [b EXCEPT !.jmps[Len(b.jmps)] = Call(b.ind.targets[1], Last(b.jmps).return),
                 !.ind = NoTargets]
  ELSE b

SingleTargetIndirectCalls ==
  /\ Run("SingleTargetIndirectCalls")
  /\ LET Op(f, b) == ReplaceSingleTargetCall(b) IN subs' = MapBlks(subs, Op)
  /\ UNCHANGED entry_points

SingleTargetIndirectCallsPost ==
  \A f \in DOMAIN subs : \A i \in DOMAIN subs[f] : IndFits(subs[f][i])

-----------------------------------------------------------------------------
(* ReorderFnBlocksPass                                                     *)

\* The addresses are equal and the block has no suffix, or both are unknown.
is_fn_start_blk(f, tid) == tid = <<f>> \/ (f = SinkFn /\ tid[1] = SinkBlock)

SwapToFront(s, i) == [s EXCEPT ![1] = s[i], ![i] = s[1]]

ReorderFnBlocks ==
  /\ Run("ReorderFnBlocks")
  /\ subs' = [f \in DOMAIN subs |->
       LET first == SelectInSeq(subs[f], LAMBDA b : is_fn_start_blk(f, b.tid))
       IN  IF subs[f] = <<>> THEN <<>> ELSE SwapToFront(subs[f], first)]
  /\ UNCHANGED entry_points

ReorderFnBlocksPost ==
  \A f \in DOMAIN subs :
    subs[f] # <<>> =>
      {i \in DOMAIN subs[f] : is_fn_start_blk(f, subs[f][i].tid)} = {1}

-----------------------------------------------------------------------------
(* ReplaceCallsToExtFnsPass                                                *)

ReplaceStubCall(j) ==
  IF j.kind = "Call" /\ j.target \in DOMAIN input.stubs
  THEN [j EXCEPT !.target = input.stubs[j.target]]
  ELSE j

ReplaceCallsToExtFns ==
  /\ Run("ReplaceCallsToExtFns")
  /\ LET Op(f, b) == MapJmps(b, ReplaceStubCall)
         replaced == MapBlks(subs, Op)
     IN  subs' = [f \in DOMAIN subs \ DOMAIN input.stubs |-> replaced[f]]
  /\ UNCHANGED entry_points

-----------------------------------------------------------------------------
(* InliningPass                                                            *)

\* The TIDs of existing blocks the jumps at the end of a block refer to.
IntraTargets(s, b) ==
  AllBlkTids(s) \cap
    ({IntraTarget(b.jmps[k]) : k \in DOMAIN b.jmps} \cup
     (IF b.ind # NoTargets /\ b.ind.kind = "Jump" THEN Range(b.ind.targets) ELSE {}))

\* blk_tid_to_blk_term_map
BlkAt(s, tid) == CHOOSE b \in UNION {Range(s[f]) : f \in DOMAIN s} : b.tid = tid

\* A set of blocks is closed if all intraprocedural references stay inside.
Closed(s, tids) == \A t \in tids : IntraTargets(s, BlkAt(s, t)) \subseteq tids

\* The blocks of f and those reachable from them, in any function.
fn_tid_to_blk_tids(s, f) ==
  LET closed == {tids \in SUBSET AllBlkTids(s) : BlkTids(s[f]) \subseteq tids /\ Closed(s, tids)}
  IN  {t \in AllBlkTids(s) : \A tids \in closed : t \in tids}

\* Mutant: the copies keep their TID.
CloneWithoutSuffix(b, f) == b

clone_with_tid_suffix(b, f) == [b EXCEPT !.tid = Append(@, f)]

\* Copies of the blocks outside of f that are reachable from it.
additional_blocks(s, f) ==
  LET outside == SetToSeq(fn_tid_to_blk_tids(s, f) \ BlkTids(s[f]))
  IN  [i \in DOMAIN outside |-> clone_with_tid_suffix(BlkAt(s, outside[i]), f)]

originally_in_same_fn(s, f, t) == t \in BlkTids(s[f])

\* Mutant: return targets are left alone.
SuffixBranchTarget(s, f, j) ==
  IF IsBranch(j) /\ ~ originally_in_same_fn(s, f, j.target)
  THEN [j EXCEPT !.target = Append(@, f)]
  ELSE j

SuffixTarget(s, f, j) ==
  IF IntraTarget(j) # None /\ ~ originally_in_same_fn(s, f, IntraTarget(j))
  THEN SetIntraTarget(j, Append(IntraTarget(j), f))
  ELSE j

SuffixIndTargets(s, f, ind) ==
  IF ind = NoTargets \/ ind.kind # "Jump" THEN ind
  ELSE [ind EXCEPT !.targets = [i \in DOMAIN @ |->
          IF originally_in_same_fn(s, f, @[i]) THEN @[i] ELSE Append(@[i], f)]]

\* Jumps to blocks of other functions lead to the copy of the block, which
\* exists if the block does.
append_jump_targets_with_fn_suffix(s, f, b) ==
  LET Op(j) == SuffixTarget(s, f, j)
  IN  [MapJmps(b, Op) EXCEPT !.ind = SuffixIndTargets(s, f, b.ind)]

Inlining ==
  /\ Run("Inlining")
  /\ LET Op(f, b) == append_jump_targets_with_fn_suffix(subs, f, b)
     IN  subs' = MapBlks([f \in DOMAIN subs |-> subs[f] \o additional_blocks(subs, f)], Op)
  /\ UNCHANGED entry_points

\* No function has additional blocks (NothingToAdd in IrPassesProofs).
InliningPost ==
  \A f \in DOMAIN subs : Closed(subs, BlkTids(subs[f]))

-----------------------------------------------------------------------------
(* NoreturnExtFunctionsPass                                                *)

MarkNoreturnCall(f, j) ==
  IF j.kind = "Call" /\ j.target \in input.noreturn
  THEN [j EXCEPT !.return = artificial_return_target_for_fn(f)]
  ELSE j

add_artifical_return_target(f, blocks) ==
  Append(blocks, SelfLoop(artificial_return_target_for_fn(f)))

NoreturnExtFunctions ==
  /\ Run("NoreturnExtFunctions")
  /\ LET Op(f, b) == LET Mark(j) == MarkNoreturnCall(f, j) IN MapJmps(b, Mark)
         added == [f \in DOMAIN subs |->
                     IF subs[f] = <<>> THEN <<>>
                     ELSE add_artifical_return_target(f, subs[f])]
     IN  subs' = MapBlks(added, Op)
  /\ UNCHANGED entry_points

NoreturnExtFunctionsPost ==
  \A f \in DOMAIN subs :
    Cardinality({i \in DOMAIN subs[f] : subs[f][i].tid[1] = ReturnTarget}) <= 1

-----------------------------------------------------------------------------
(* RemoveEmptyFunctionsPass                                                *)

RewriteEmptyCall(f, empty, j) ==
  IF j.kind = "Call" /\ j.target \in empty
  THEN Call(SinkFn, artificial_return_target_for_fn(f))
  ELSE j

RemoveEmptyFunctions ==
  /\ Run("RemoveEmptyFunctions")
  /\ LET empty == {f \in DOMAIN subs : subs[f] = <<>>}
         kept == [f \in (DOMAIN subs \ empty) \cup {SinkFn} |->
                    IF f = SinkFn THEN <<SelfLoop(<<SinkBlock>>)>> ELSE subs[f]]
         Op(f, b) == LET Rewrite(j) == RewriteEmptyCall(f, empty, j) IN MapJmps(b, Rewrite)
     IN  subs' = MapBlks(kept, Op)
  /\ UNCHANGED entry_points

RemoveEmptyFunctionsPost ==
  /\ \A f \in DOMAIN subs : subs[f] # <<>>
  /\ SinkFn \in DOMAIN subs

-----------------------------------------------------------------------------
(* PatchCfPass                                                             *)

add_artifical_sink(f, blocks) ==
  IF artificial_sink_block_for_fn(f) \in BlkTids(blocks) THEN blocks
  ELSE Append(blocks, SelfLoop(artificial_sink_block_for_fn(f)))

\* find_wild_returns and find_wild_branches: the target is not in the function.
WildTarget(s, f, j) == IntraTarget(j) # None /\ IntraTarget(j) \notin BlkTids(s[f])

\* find_wild_calls
WildCall(s, j) == j.kind = "Call" /\ j.target \notin DOMAIN s \cup input.extern_symbols

PatchJmp(s, f, j) ==
  LET patched ==
        IF WildTarget(s, f, j) THEN SetIntraTarget(j, artificial_sink_block_for_fn(f)) ELSE j
  IN  IF WildCall(s, j) THEN [patched EXCEPT !.target = SinkFn] ELSE patched

\* The targets that are left keep their positions in the list.
remove_nonexisting_indirect_cf_targets(s, f, ind) ==
  IF ind = NoTargets THEN NoTargets
  ELSE LET existing == IF ind.kind = "Jump" THEN BlkTids(s[f])
                       ELSE DOMAIN s \cup input.extern_symbols
       IN  [ind EXCEPT !.targets = Restrict(@, {i \in DOMAIN @ : @[i] \in existing})]

PatchBlk(s, f, b) ==
  LET Patch(j) == PatchJmp(s, f, j)
  IN  [MapJmps(b, Patch) EXCEPT !.ind = remove_nonexisting_indirect_cf_targets(s, f, @)]

PatchBlks(s) == LET Op(f, b) == PatchBlk(s, f, b) IN MapBlks(s, Op)

PatchCf ==
  /\ Run("PatchCf")
  /\ subs' = PatchBlks([f \in DOMAIN subs |->
                          IF subs[f] = <<>> \/ f = SinkFn THEN subs[f]
                          ELSE add_artifical_sink(f, subs[f])])
  /\ UNCHANGED entry_points

PatchCfPost ==
  \A f \in DOMAIN subs :
    /\ \A i \in DOMAIN subs[f] : \A k \in DOMAIN subs[f][i].jmps :
         ~ WildTarget(subs, f, subs[f][i].jmps[k]) /\ ~ WildCall(subs, subs[f][i].jmps[k])
    /\ Cardinality({i \in DOMAIN subs[f] : subs[f][i].tid[1] = SinkBlock}) <= 1

-----------------------------------------------------------------------------
(* EntryPointsPass                                                         *)

EntryPoints ==
  /\ Run("EntryPoints")
  /\ entry_points' = {f \in entry_points \cap DOMAIN subs : subs[f] # <<>>}
  /\ UNCHANGED subs

EntryPointsPost ==
  \A f \in entry_points : f \in DOMAIN subs /\ subs[f] # <<>>

-----------------------------------------------------------------------------
Next ==
  \/ SingleTargetIndirectCalls \/ ReorderFnBlocks \/ ReplaceCallsToExtFns \/ Inlining
  \/ NoreturnExtFunctions \/ RemoveEmptyFunctions \/ PatchCf \/ EntryPoints

Spec == Init /\ [][Next]_vars

-----------------------------------------------------------------------------
(* Properties.                                                             *)

Finished(name) ==
  \E i, j \in DOMAIN Passes : Passes[i] = name /\ Passes[j] = pass /\ i < j

\* "Every following transformation is expected to preserve these predicates,
\* i.e., they are assumed to remain true": the postcondition of a pass, as its
\* assert_postconditions checks it, holds from the end of the pass on.
PostconditionsPersist ==
  /\ Finished("SingleTargetIndirectCalls") => SingleTargetIndirectCallsPost
  /\ Finished("ReorderFnBlocks") => ReorderFnBlocksPost
  /\ Finished("Inlining") => InliningPost
  /\ Finished("NoreturnExtFunctions") => NoreturnExtFunctionsPost
  /\ Finished("RemoveEmptyFunctions") => RemoveEmptyFunctionsPost
  /\ Finished("PatchCf") => PatchCfPost
  /\ Finished("EntryPoints") => EntryPointsPost

\* run_sanity_checks, "Block TIDs are not unique": no two blocks of the program
\* ever share a TID, whatever was copied or added.
BlockTidsUnique == UniqueTids(subs)

IsArtificial(tid) == tid[1] \in {SinkBlock, ReturnTarget}

\* The block of the translated program a block is a copy of.
OriginalTid(tid) == <<tid[1]>>
OriginalBlk(tid) ==
  CHOOSE b \in UNION {Range(input.subs[f]) : f \in DOMAIN input.subs} :
    b.tid = OriginalTid(tid)

\* The blocks that stubs of external functions consist of are removed.
KeptTids == UNION {BlkTids(input.subs[f]) : f \in DOMAIN input.subs \ DOMAIN input.stubs}

\* What a call of the translated program should finally call.
ResolvedCall(f) ==
  IF f \in DOMAIN input.stubs THEN input.stubs[f]
  ELSE IF f \in input.extern_symbols THEN f
  ELSE IF f \in DOMAIN input.subs /\ input.subs[f] # <<>> THEN f
  ELSE SinkFn

\* Where an intraprocedural reference to t in the function f finally leads.
LeadsTo(f, t, final) ==
  IF t \in KeptTids
  THEN final \in BlkTids(subs[f]) /\ ~ IsArtificial(final) /\ OriginalTid(final) = t
  ELSE final = artificial_sink_block_for_fn(f)

NeverReturns(j) == j.kind = "Call" /\ j.target \in input.noreturn \cup {SinkFn}

\* A jump j, originally o, of the function f goes where it went before.
SameTarget(f, o, j) ==
  IF j.kind = "Call" /\ j.return = artificial_return_target_for_fn(f)
  THEN NeverReturns(j)
  ELSE IF IntraTarget(o) = None THEN IntraTarget(j) = None
  ELSE LeadsTo(f, IntraTarget(o), IntraTarget(j))

\* Inlining and patching do not change where control flows inside a function:
\* in the normal form every jump, return site and indirect jump target of every
\* block, copied or not, leads to the same original block as in the translated
\* program, and to the artificial sink only if there is no such block.
BranchesPreserved ==
  pass = "done" =>
    \A f \in DOMAIN subs \ {SinkFn} : \A i \in DOMAIN subs[f] :
      LET b == subs[f][i]
          o == OriginalBlk(b.tid)
      IN  ~ IsArtificial(b.tid) =>
            /\ \A k \in DOMAIN b.jmps : SameTarget(f, o.jmps[k], b.jmps[k])
            /\ b.ind # NoTargets /\ b.ind.kind = "Jump" =>
                 {OriginalTid(t) : t \in Range(b.ind.targets)}
                   = Range(o.ind.targets) \cap KeptTids

\* Every call, indirect calls with one target included, calls the function it
\* called before: the external function for a stub, and the artificial sink
\* only if there is no such function or it has no code.
CallsPreserved ==
  pass = "done" =>
    \A f \in DOMAIN subs \ {SinkFn} : \A i \in DOMAIN subs[f] :
      LET b == subs[f][i]
          o == OriginalBlk(b.tid)
      IN  \A k \in DOMAIN b.jmps :
            ~ IsArtificial(b.tid) /\ b.jmps[k].kind = "Call" =>
              b.jmps[k].target =
                ResolvedCall(IF o.jmps[k].kind = "Call" THEN o.jmps[k].target
                             ELSE o.ind.targets[1])

\* "All incoming edges are from returns of calls to noreturn functions": the
\* part of the postcondition of NoreturnExtFunctionsPass that it does not check.
OnlyNoreturnCallsLeadToReturnTarget ==
  \A f \in DOMAIN subs : \A i \in DOMAIN subs[f] : \A k \in DOMAIN subs[f][i].jmps :
    LET b == subs[f][i]
    IN  /\ IntraTarget(b.jmps[k]) # None
        /\ IntraTarget(b.jmps[k])[1] = ReturnTarget
        /\ ~ IsArtificial(b.tid)
        => NeverReturns(b.jmps[k])

\* Translation, inlining and patching keep the control flow of the program:
\* jumps, calls and the returns that are taken away (BranchesPreserved,
\* CallsPreserved, OnlyNoreturnCallsLeadToReturnTarget).
ControlFlowPreserved ==
  BranchesPreserved /\ CallsPreserved /\ OnlyNoreturnCallsLeadToReturnTarget
=============================================================================
