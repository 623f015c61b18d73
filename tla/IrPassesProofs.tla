--------------------------- MODULE IrPassesProofs ---------------------------
(***************************************************************************)
(* Proofs about IrPasses for all programs, whatever their functions,       *)
(* blocks, jumps and targets.  The invariant says what has become of every *)
(* block of the translated program before each of the passes.              *)
(***************************************************************************)
EXTENDS IrPasses, FiniteSetTheorems, SequenceTheorems, TLAPS

-----------------------------------------------------------------------------
(* The passes, by what they have done to the program when p is the next.   *)

PassNames ==
  {"SingleTargetIndirectCalls", "ReorderFnBlocks", "ReplaceCallsToExtFns", "Inlining",
   "NoreturnExtFunctions", "RemoveEmptyFunctions", "PatchCf", "EntryPoints", "done"}

Patched(p) == p \in {"EntryPoints", "done"}
EmptyGone(p) == p \in {"PatchCf", "EntryPoints", "done"}
Marked(p) == p \in {"RemoveEmptyFunctions", "PatchCf", "EntryPoints", "done"}
Inlined(p) == p \in {"NoreturnExtFunctions", "RemoveEmptyFunctions", "PatchCf", "EntryPoints", "done"}
StubsGone(p) == p = "Inlining" \/ Inlined(p)
Reordered(p) == p = "ReplaceCallsToExtFns" \/ StubsGone(p)

(* The order of the passes in Passes, spelled out.                         *)
LEMMA PassOrder ==
  /\ Passes[1] = "SingleTargetIndirectCalls" /\ Passes[2] = "ReorderFnBlocks"
  /\ Passes[3] = "ReplaceCallsToExtFns" /\ Passes[4] = "Inlining"
  /\ Passes[5] = "NoreturnExtFunctions" /\ Passes[6] = "RemoveEmptyFunctions"
  /\ Passes[7] = "PatchCf" /\ Passes[8] = "EntryPoints" /\ Passes[9] = "done"
  /\ DOMAIN Passes = 1 .. 9
  /\ Head(Passes) = "SingleTargetIndirectCalls"
BY DEF Passes

(* Run goes from each pass to the next one.                                *)
LEMMA RunSteps ==
  /\ Run("SingleTargetIndirectCalls") => pass' = "ReorderFnBlocks"
  /\ Run("ReorderFnBlocks") => pass' = "ReplaceCallsToExtFns"
  /\ Run("ReplaceCallsToExtFns") => pass' = "Inlining"
  /\ Run("Inlining") => pass' = "NoreturnExtFunctions"
  /\ Run("NoreturnExtFunctions") => pass' = "RemoveEmptyFunctions"
  /\ Run("RemoveEmptyFunctions") => pass' = "PatchCf"
  /\ Run("PatchCf") => pass' = "EntryPoints"
  /\ Run("EntryPoints") => pass' = "done"
<1> DEFINE At(name) == CHOOSE i \in DOMAIN Passes : Passes[i] = name
<1>1. \A i \in 1 .. 9 : At(Passes[i]) = i
  <2>1. \A i \in 1 .. 9, j \in 1 .. 9 : Passes[i] = Passes[j] => i = j
    BY PassOrder
  <2> QED BY <2>1, PassOrder
<1>2. /\ At("SingleTargetIndirectCalls") = 1 /\ At("ReorderFnBlocks") = 2
      /\ At("ReplaceCallsToExtFns") = 3 /\ At("Inlining") = 4
      /\ At("NoreturnExtFunctions") = 5 /\ At("RemoveEmptyFunctions") = 6
      /\ At("PatchCf") = 7 /\ At("EntryPoints") = 8
  <2> HIDE DEF At
  <2> QED BY <1>1, PassOrder
<1> QED BY <1>2, PassOrder DEF Run

(* A pass has finished if one behind it is the next.                       *)
LEMMA FinishedPasses ==
  ASSUME pass \in PassNames
  PROVE  /\ Finished("SingleTargetIndirectCalls") => pass # "SingleTargetIndirectCalls"
         /\ Finished("ReorderFnBlocks") => Reordered(pass)
         /\ Finished("Inlining") => Inlined(pass)
         /\ Finished("NoreturnExtFunctions") => Marked(pass)
         /\ Finished("RemoveEmptyFunctions") => EmptyGone(pass)
         /\ Finished("PatchCf") => Patched(pass)
         /\ Finished("EntryPoints") => pass = "done"
<1>1. ASSUME NEW name, Finished(name), NEW k \in 1 .. 9, Passes[k] = name
      PROVE  \E j \in 1 .. 9 : j > k /\ Passes[j] = pass
  <2>1. \A i \in 1 .. 9 : Passes[i] = Passes[k] => i = k
    BY PassOrder
  <2> QED BY <1>1, <2>1, PassOrder DEF Finished
<1>2. ASSUME NEW j \in 1 .. 9, Passes[j] = pass
      PROVE  /\ j > 1 => pass # "SingleTargetIndirectCalls"
             /\ j > 2 => Reordered(pass)
             /\ j > 4 => Inlined(pass)
             /\ j > 5 => Marked(pass)
             /\ j > 6 => EmptyGone(pass)
             /\ j > 7 => Patched(pass)
             /\ j > 8 => pass = "done"
  BY <1>2, PassOrder DEF Reordered, StubsGone, Inlined, Marked, EmptyGone, Patched
<1>3. \A k \in 1 .. 9 : Finished(Passes[k]) => \E j \in 1 .. 9 : j > k /\ Passes[j] = pass
  BY <1>1
<1> QED BY <1>2, <1>3, PassOrder

-----------------------------------------------------------------------------
(* The translated program.                                                 *)

Functions == DOMAIN input.subs
Own(f) == BlkTids(input.subs[f])
Originals == UNION {Range(input.subs[f]) : f \in Functions}

(* The blocks a block of the translated program refers to.                 *)
JumpTargets(b) ==
  {IntraTarget(b.jmps[k]) : k \in DOMAIN b.jmps} \cup
  (IF b.ind # NoTargets /\ b.ind.kind = "Jump" THEN Range(b.ind.targets) ELSE {})

(* The block of f that has become of the block t.                          *)
Moved(f, t) == IF t \in Own(f) THEN t ELSE Append(t, f)

ReturnTid(f) == <<ReturnTarget, f>>
SinkTid(f) == <<SinkBlock, f>>

(* What the assumptions say about the program.                             *)
LEMMA ProgramFacts ==
  ASSUME input \in Programs
  PROVE  /\ Functions \subseteq Addresses /\ SinkFn \notin Functions
         /\ IsFiniteSet(AllBlkTids(input.subs))
         /\ \A f \in Functions :
              /\ input.subs[f] \in Seq(Blks)
              /\ input.subs[f] # <<>> => <<f>> \in Own(f)
              /\ \A i \in DOMAIN input.subs[f] : IndFits(input.subs[f][i])
         /\ UniqueTids(input.subs)
         /\ input.extern_symbols \subseteq Addresses
         /\ input.extern_symbols \cap Functions = {}
         /\ DOMAIN input.stubs \subseteq Functions
         /\ \A f \in DOMAIN input.stubs : input.stubs[f] \in input.extern_symbols
         /\ input.noreturn \subseteq input.extern_symbols
BY ProgramsAssumption, PrefixAssumption DEF Functions, Own

(* Jumps of the translated program.                                        *)
LEMMA JmpFacts ==
  ASSUME NEW j \in Jmps
  PROVE  /\ j = [kind |-> j.kind, target |-> j.target, return |-> j.return]
         /\ IntraTarget(j) \in Tids \cup {None}
         /\ IsBranch(j) => j.target \in Tids
         /\ ~IsBranch(j) => j.return \in Tids \cup {None}
         /\ j.kind = "Call" => j.target \in Addresses
BY DEF Jmps, IntraTarget, IsBranch

(* Blocks of the translated program.                                       *)
LEMMA BlkFacts ==
  ASSUME NEW b \in Blks
  PROVE  /\ b = [tid |-> b.tid, jmps |-> b.jmps, ind |-> b.ind]
         /\ b.tid \in Tids
         /\ b.jmps \in Seq(Jmps)
         /\ b.ind # NoTargets =>
              /\ b.ind = [kind |-> b.ind.kind, targets |-> b.ind.targets]
              /\ b.ind.kind \in {"Jump", "Call"}
              /\ b.ind.kind = "Jump" => b.ind.targets \in Seq(Tids)
              /\ b.ind.kind = "Call" => b.ind.targets \in Seq(Addresses)
BY DEF Blks

(* Every original block is the only one with its TID.                      *)
LEMMA OriginalFacts ==
  ASSUME input \in Programs
  PROVE  /\ \A o \in Originals : o \in Blks /\ IndFits(o)
         /\ \A o, q \in Originals : o.tid = q.tid => o = q
         /\ \A f \in Functions : \A i \in DOMAIN input.subs[f] : input.subs[f][i] \in Originals
         /\ \A o \in Originals : \E f \in Functions : \E i \in DOMAIN input.subs[f] :
              o = input.subs[f][i]
<1>1. \A f \in Functions : \A i \in DOMAIN input.subs[f] :
        /\ input.subs[f][i] \in Originals
        /\ input.subs[f][i] \in Blks
        /\ IndFits(input.subs[f][i])
  <2> SUFFICES ASSUME NEW f \in Functions, NEW i \in DOMAIN input.subs[f]
               PROVE  /\ input.subs[f][i] \in Originals
                      /\ input.subs[f][i] \in Blks
                      /\ IndFits(input.subs[f][i])
    OBVIOUS
  <2>1. PICK blocks : blocks = input.subs[f]
    OBVIOUS
  <2>2. blocks \in Seq(Blks) /\ IndFits(blocks[i])
    BY <2>1, ProgramFacts
  <2>3. blocks[i] \in Blks /\ blocks[i] \in Range(blocks)
    BY <2>1, <2>2 DEF Range
  <2> QED BY <2>1, <2>2, <2>3 DEF Originals
<1>2. \A o \in Originals : \E f \in Functions : \E i \in DOMAIN input.subs[f] :
        o = input.subs[f][i]
  BY DEF Originals, Range
<1>3. \A o, q \in Originals : o.tid = q.tid => o = q
  BY <1>2, ProgramFacts DEF UniqueTids, Functions
<1> QED BY <1>1, <1>2, <1>3

(* What Append returns.                                                    *)
LEMMA AppendFacts ==
  ASSUME NEW S, NEW h \in S, NEW v \in Seq(S)
  PROVE  /\ Append(v, h) \in Seq(S)
         /\ Len(Append(v, h)) = Len(v) + 1
         /\ \A i \in 1 .. Len(v) : Append(v, h)[i] = v[i]
         /\ Append(v, h)[Len(v) + 1] = h
<1>1. Append(v, h) \in Seq(S)
  BY AppendProperties
<1>2. Len(Append(v, h)) = Len(v) + 1
  BY AppendProperties
<1>3. \A i \in 1 .. Len(v) : Append(v, h)[i] = v[i]
  BY AppendProperties
<1>4. Append(v, h)[Len(v) + 1] = h
  BY AppendProperties
<1> QED BY <1>1, <1>2, <1>3, <1>4

(* The suffix of a TID is its second element.                             *)
LEMMA AppendOne == ASSUME NEW a, NEW h PROVE Append(<<a>>, h) = <<a, h>>
<1>1. PICK v : v = <<a>>
  OBVIOUS
<1>2. v \in Seq({a, h}) /\ Len(v) = 1 /\ v[1] = a
  BY <1>1
<1>3. PICK w : w = Append(v, h)
  OBVIOUS
<1>4. w \in Seq({a, h}) /\ Len(w) = 2 /\ w[1] = a /\ w[2] = h
  <2>1. w \in Seq({a, h})
    BY <1>2, <1>3, AppendFacts
  <2>2. Len(w) = Len(v) + 1 /\ w[Len(v) + 1] = h
    BY <1>2, <1>3, AppendFacts
  <2>3. \A i \in 1 .. Len(v) : w[i] = v[i]
    BY <1>2, <1>3, AppendFacts
  <2> QED BY <1>2, <2>1, <2>2, <2>3
<1>5. w \in [1 .. 2 -> {a, h}]
  BY <1>4
<1>6. w = <<a, h>>
  BY <1>4, <1>5
<1> QED BY <1>1, <1>3, <1>6

(* TIDs of different kinds and functions are different.                    *)
LEMMA TidShapes ==
  ASSUME NEW t \in Tids, NEW f, NEW g
  PROVE  /\ t = <<t[1]>> /\ t[1] \in Addresses
         /\ Append(t, f) = <<t[1], f>>
         /\ t # <<g>> \/ t[1] = g
         /\ t \notin {ReturnTid(g), SinkTid(g), <<SinkBlock>>}
         /\ Append(t, f) \notin {ReturnTid(g), SinkTid(g), <<SinkBlock>>}
         /\ \A u \in Tids : t # Append(u, g)
         /\ \A u \in Tids : Append(t, f) = Append(u, g) => t = u /\ f = g
<1>1. ASSUME NEW u \in Tids, NEW h
      PROVE  u = <<u[1]>> /\ u[1] \in Addresses /\ Append(u, h) = <<u[1], h>>
  <2>1. PICK a \in Addresses : u = <<a>>
    BY DEF Tids
  <2> QED BY <2>1, AppendOne
<1>2. \A a, b, c, d : <<a, b>> = <<c, d>> => a = c /\ b = d
  OBVIOUS
<1>3. \A a, b, c : <<a>> # <<b, c>> /\ (<<a>> = <<b>> => a = b)
  OBVIOUS
<1>4. /\ t = <<t[1]>> /\ t[1] \in Addresses
      /\ Append(t, f) = <<t[1], f>>
  BY <1>1
<1>5. /\ t # <<g>> \/ t[1] = g
      /\ t \notin {ReturnTid(g), SinkTid(g), <<SinkBlock>>}
      /\ Append(t, f) \notin {ReturnTid(g), SinkTid(g), <<SinkBlock>>}
  BY <1>2, <1>3, <1>4, PrefixAssumption DEF ReturnTid, SinkTid
<1>6. ASSUME NEW u \in Tids
      PROVE  /\ t # Append(u, g)
             /\ Append(t, f) = Append(u, g) => t = u /\ f = g
  <2>1. u = <<u[1]>> /\ Append(u, g) = <<u[1], g>>
    BY <1>1
  <2> QED BY <1>2, <1>3, <1>4, <2>1
<1> QED BY <1>4, <1>5, <1>6

(* None is no TID.                                                         *)
LEMMA NoneIsNoTid ==
  ASSUME NEW t \in Tids, NEW f \in Addresses
  PROVE  t # None /\ Append(t, f) # None /\ ReturnTid(f) # None /\ SinkTid(f) # None
<1> DEFINE All == Addresses \cup {SinkFn, SinkBlock, ReturnTarget}
<1>1. /\ t = <<t[1]>> /\ t[1] \in Addresses
      /\ Append(t, f) = <<t[1], f>>
  BY TidShapes
<1>2. <<t[1]>> \in Seq(All) /\ <<t[1], f>> \in Seq(All)
      /\ <<ReturnTarget, f>> \in Seq(All) /\ <<SinkBlock, f>> \in Seq(All)
  BY <1>1
<1> QED BY <1>1, <1>2, NoneAssumption DEF ReturnTid, SinkTid

-----------------------------------------------------------------------------
(* The invariant: what a jump, a list of targets, a block and a function   *)
(* of the translated program have become when p is the next pass.          *)

EmptyFns == {f \in Functions \ DOMAIN input.stubs : input.subs[f] = <<>>}

(* The target of the direct call that the jump k of o is or is made.       *)
Called(o, k) == IF o.jmps[k].kind = "Call" THEN o.jmps[k].target ELSE o.ind.targets[1]

WithoutStub(p, t) == IF StubsGone(p) /\ t \in DOMAIN input.stubs THEN input.stubs[t] ELSE t

CalledAt(p, t) ==
  IF Patched(p) THEN ResolvedCall(t)
  ELSE IF EmptyGone(p) /\ WithoutStub(p, t) \in EmptyFns THEN SinkFn
  ELSE WithoutStub(p, t)

LeadsAt(p, f, t) ==
  IF Patched(p) /\ t \notin KeptTids THEN SinkTid(f)
  ELSE IF Inlined(p) THEN Moved(f, t)
  ELSE t

JmpFits(p, f, o, k, j) ==
  /\ j = [kind |-> j.kind, target |-> j.target, return |-> j.return]
  /\ \/ j.kind = o.jmps[k].kind
     \/ j.kind = "Call" /\ o.jmps[k].kind = "CallInd"
  /\ j.kind = "Call" => j.target = CalledAt(p, Called(o, k))
  /\ \/ Marked(p) /\ j.kind = "Call" /\ j.return = ReturnTid(f) /\ NeverReturns(j)
     \/ IntraTarget(o.jmps[k]) = None /\ IntraTarget(j) = None
     \/ IntraTarget(o.jmps[k]) # None /\ IntraTarget(j) = LeadsAt(p, f, IntraTarget(o.jmps[k]))

KeptPositions(p, targets) == {n \in DOMAIN targets : Patched(p) => targets[n] \in KeptTids}

TargetsFit(p, f, o, ind) ==
  ind # NoTargets =>
    /\ ind = [kind |-> ind.kind, targets |-> ind.targets]
    /\ o.ind # NoTargets /\ ind.kind = o.ind.kind
    /\ ind.kind = "Jump" =>
         /\ DOMAIN ind.targets = KeptPositions(p, o.ind.targets)
         /\ \A n \in DOMAIN ind.targets : ind.targets[n] = LeadsAt(p, f, o.ind.targets[n])

BlkFits(p, f, o, b) ==
  /\ b = [tid |-> b.tid, jmps |-> b.jmps, ind |-> b.ind]
  /\ b.tid = Moved(f, o.tid)
  /\ b.jmps = [k \in 1 .. Len(o.jmps) |-> b.jmps[k]]
  /\ \A k \in 1 .. Len(o.jmps) : JmpFits(p, f, o, k, b.jmps[k])
  /\ IndFits(b)
  /\ TargetsFit(p, f, o, b.ind)

(* The blocks that f can have a copy of, and the ones that were added.     *)
Sources(p, f) ==
  {o \in Originals : o.tid \in Own(f) \/ (Inlined(p) /\ o.tid \in KeptTids)}
Added(p, f) ==
  {b \in {SelfLoop(ReturnTid(f)), SelfLoop(SinkTid(f))} :
     \/ Marked(p) /\ b = SelfLoop(ReturnTid(f))
     \/ Patched(p) /\ b = SelfLoop(SinkTid(f))}

Content(p, f, blocks) ==
  \A i \in DOMAIN blocks :
    blocks[i] \in Added(p, f) \/ \E o \in Sources(p, f) : BlkFits(p, f, o, blocks[i])

(* Which blocks there are.                                                 *)
Layout(p, f, blocks) ==
  /\ blocks \in Seq(Range(blocks))
  /\ \A i, k \in DOMAIN blocks : blocks[i].tid = blocks[k].tid => i = k
  /\ Own(f) \subseteq BlkTids(blocks)
  /\ input.subs[f] = <<>> <=> blocks = <<>>
  /\ Reordered(p) /\ blocks # <<>> => blocks[1].tid = <<f>>
  /\ Inlined(p) =>
       \A o \in Originals :
         Moved(f, o.tid) \in BlkTids(blocks) =>
           \A t \in JumpTargets(o) \cap KeptTids : Moved(f, t) \in BlkTids(blocks)
  /\ Marked(p) /\ blocks # <<>> => ReturnTid(f) \in BlkTids(blocks)
  /\ Patched(p) => SinkTid(f) \in BlkTids(blocks)

FunctionsAt(p) ==
  IF EmptyGone(p) THEN (Functions \ DOMAIN input.stubs) \ EmptyFns
  ELSE IF StubsGone(p) THEN Functions \ DOMAIN input.stubs
  ELSE Functions

ProgramInv(p, s) ==
  /\ DOMAIN s = FunctionsAt(p) \cup (IF EmptyGone(p) THEN {SinkFn} ELSE {})
  /\ EmptyGone(p) => s[SinkFn] = <<SelfLoop(<<SinkBlock>>)>>
  /\ \A f \in FunctionsAt(p) : Layout(p, f, s[f]) /\ Content(p, f, s[f])

Inv ==
  /\ input \in Programs
  /\ pass \in PassNames
  /\ pass = "SingleTargetIndirectCalls" => subs = input.subs
  /\ ProgramInv(pass, subs)
  /\ pass = "done" => EntryPointsPost

-----------------------------------------------------------------------------
(* TIDs: from the TID of a block follows the function it is in.            *)

(* The TIDs of the translated program.                                     *)
LEMMA OwnFacts ==
  ASSUME input \in Programs
  PROVE  /\ \A f \in Functions : Own(f) \subseteq Tids
         /\ \A f, g \in Functions : \A t \in Own(f) \cap Own(g) : f = g
         /\ \A f \in Functions : \A t \in Own(f) : \E o \in Originals : o.tid = t
         /\ \A o \in Originals : o.tid \in Tids
         /\ \A o \in Originals : \E f \in Functions : o.tid \in Own(f)
         /\ \A t \in KeptTids : \E o \in Originals : o.tid = t
         /\ \A f \in Functions \ DOMAIN input.stubs : Own(f) \subseteq KeptTids
<1>1. \A o \in Originals : o.tid \in Tids
  BY OriginalFacts, BlkFacts
<1>2. \A f \in Functions : \A t \in Own(f) : \E o \in Originals : o.tid = t
  BY OriginalFacts DEF Own, BlkTids
<1>3. \A f, g \in Functions : \A t \in Own(f) \cap Own(g) : f = g
  BY ProgramFacts DEF Own, BlkTids, UniqueTids, Functions
<1>4. \A f \in Functions \ DOMAIN input.stubs : Own(f) \subseteq KeptTids
  BY DEF KeptTids, Own, Functions
<1>5. \A t \in KeptTids : \E f \in Functions : t \in Own(f)
  BY DEF KeptTids, Own, Functions
<1>6. \A o \in Originals : \E f \in Functions : o.tid \in Own(f)
  BY OriginalFacts DEF Own, BlkTids
<1> QED BY <1>1, <1>2, <1>3, <1>4, <1>5, <1>6

(* Moved gives every block of every function a TID of its own.             *)
LEMMA MovedFacts ==
  ASSUME input \in Programs, NEW f \in Functions, NEW t \in Tids
  PROVE  /\ Moved(f, t) \in Own(f) <=> t \in Own(f)
         /\ Moved(f, t) # None
         /\ Moved(f, t) # <<SinkBlock>>
         /\ \A g : Moved(f, t) # ReturnTid(g) /\ Moved(f, t) # SinkTid(g)
         /\ Moved(f, t)[1] = t[1]
         /\ \A u \in Tids : Moved(f, t) = Moved(f, u) => t = u
         /\ \A g \in Functions, u \in Tids : Moved(f, t) = Moved(g, u) => f = g
<1>1. Own(f) \subseteq Tids /\ f \in Addresses
  BY OwnFacts, ProgramFacts
<1>2. /\ t[1] \in Addresses /\ Append(t, f) = <<t[1], f>>
      /\ Append(t, f) \notin Tids
  BY TidShapes
<1>3. Moved(f, t) # None
  BY <1>1, NoneIsNoTid DEF Moved
<1>4. /\ Moved(f, t) # <<SinkBlock>>
      /\ \A g : Moved(f, t) # ReturnTid(g) /\ Moved(f, t) # SinkTid(g)
  BY TidShapes DEF Moved
<1>5. \A u \in Tids : Moved(f, t) = Moved(f, u) => t = u
  BY <1>2, TidShapes DEF Moved
<1>6. \A g \in Functions, u \in Tids : Moved(f, t) = Moved(g, u) => f = g
  <2> SUFFICES ASSUME NEW g \in Functions, NEW u \in Tids, Moved(f, t) = Moved(g, u)
               PROVE  f = g
    OBVIOUS
  <2>1. t # Append(u, g) /\ u # Append(t, f) /\ (Append(t, f) = Append(u, g) => f = g)
    BY TidShapes
  <2>2. CASE t \in Own(f) /\ u \in Own(g)
    BY <2>2, OwnFacts DEF Moved
  <2> QED BY <2>1, <2>2 DEF Moved
<1>7. Moved(f, t)[1] = t[1]
  BY <1>2 DEF Moved
<1>8. Moved(f, t) \in Own(f) <=> t \in Own(f)
  BY <1>1, <1>2 DEF Moved
<1> QED BY <1>3, <1>4, <1>5, <1>6, <1>7, <1>8

(* The TIDs of the blocks of a function.                                   *)
TidsAt(p, f) ==
  {Moved(f, o.tid) : o \in Sources(p, f)}
    \cup (IF Marked(p) THEN {ReturnTid(f)} ELSE {})
    \cup (IF Patched(p) THEN {SinkTid(f)} ELSE {})

(* The blocks of a function have no other TIDs.                            *)
LEMMA ContentTids ==
  ASSUME NEW p, NEW f, NEW blocks, Content(p, f, blocks)
  PROVE  BlkTids(blocks) \subseteq TidsAt(p, f)
<1> SUFFICES ASSUME NEW i \in DOMAIN blocks
             PROVE  blocks[i].tid \in TidsAt(p, f)
  BY DEF BlkTids
<1>1. CASE blocks[i] \in Added(p, f)
  BY <1>1 DEF Added, SelfLoop, TidsAt
<1>2. CASE \E o \in Sources(p, f) : BlkFits(p, f, o, blocks[i])
  BY <1>2 DEF BlkFits, TidsAt
<1> QED BY <1>1, <1>2 DEF Content

(* No TID belongs to two functions.                                        *)
LEMMA TidsApart ==
  ASSUME input \in Programs, NEW p, NEW q, NEW f \in Functions, NEW g \in Functions,
         NEW t, t \in TidsAt(p, f), t \in TidsAt(q, g)
  PROVE  f = g
<1>1. /\ t \in {ReturnTid(f), SinkTid(f)} \/ \E o \in Originals : t = Moved(f, o.tid)
      /\ t \in {ReturnTid(g), SinkTid(g)} \/ \E o \in Originals : t = Moved(g, o.tid)
  BY DEF TidsAt, Sources
<1>2. /\ ReturnTid(f) = ReturnTid(g) => f = g
      /\ SinkTid(f) = SinkTid(g) => f = g
      /\ ReturnTid(f) # SinkTid(g) /\ SinkTid(f) # ReturnTid(g)
  BY PrefixAssumption DEF ReturnTid, SinkTid
<1>3. \A o \in Originals : o.tid \in Tids
  BY OwnFacts
<1>4. \A o \in Originals :
        /\ Moved(f, o.tid) \notin {ReturnTid(g), SinkTid(g)}
        /\ Moved(g, o.tid) \notin {ReturnTid(f), SinkTid(f)}
  BY <1>3, MovedFacts
<1>5. \A o, q1 \in Originals : Moved(f, o.tid) = Moved(g, q1.tid) => f = g
  BY <1>3, MovedFacts
<1> QED BY <1>1, <1>2, <1>4, <1>5

(* The first block of the artificial sink function belongs to no other.    *)
LEMMA SinkFnApart ==
  ASSUME input \in Programs, NEW p, NEW f \in Functions
  PROVE  <<SinkBlock>> \notin TidsAt(p, f)
<1>1. \A o \in Originals : Moved(f, o.tid) # <<SinkBlock>>
  BY OwnFacts, MovedFacts
<1>2. <<SinkBlock>> # ReturnTid(f) /\ <<SinkBlock>> # SinkTid(f)
  BY DEF ReturnTid, SinkTid
<1> QED BY <1>1, <1>2 DEF TidsAt, Sources

(* BlockTidsUnique follows from the invariant.                             *)
LEMMA InvUnique ==
  ASSUME input \in Programs, NEW p, NEW s, ProgramInv(p, s)
  PROVE  UniqueTids(s)
<1> SUFFICES ASSUME NEW f \in DOMAIN s, NEW g \in DOMAIN s,
                    NEW i \in DOMAIN s[f], NEW k \in DOMAIN s[g],
                    s[f][i].tid = s[g][k].tid
             PROVE  f = g /\ i = k
  BY DEF UniqueTids
<1>1. \A h \in DOMAIN s : h \in FunctionsAt(p) \/ (h = SinkFn /\ EmptyGone(p))
  BY DEF ProgramInv
<1>2. FunctionsAt(p) \subseteq Functions
  BY DEF FunctionsAt
<1>3. \A h \in FunctionsAt(p) : \A n \in DOMAIN s[h] : s[h][n].tid \in TidsAt(p, h)
  BY ContentTids DEF ProgramInv, BlkTids
<1>4. EmptyGone(p) => \A n \in DOMAIN s[SinkFn] : n = 1 /\ s[SinkFn][n].tid = <<SinkBlock>>
  BY DEF ProgramInv, SelfLoop
<1>5. CASE f \in FunctionsAt(p) /\ g \in FunctionsAt(p)
  <2>1. f = g
    BY <1>2, <1>3, <1>5, TidsApart
  <2> QED BY <1>5, <2>1 DEF ProgramInv, Layout
<1>6. CASE f \in FunctionsAt(p) /\ g = SinkFn /\ EmptyGone(p)
  BY <1>2, <1>3, <1>4, <1>6, SinkFnApart
<1>7. CASE f = SinkFn /\ EmptyGone(p) /\ g \in FunctionsAt(p)
  BY <1>2, <1>3, <1>4, <1>7, SinkFnApart
<1>8. CASE f = SinkFn /\ EmptyGone(p) /\ g = SinkFn
  BY <1>4, <1>8
<1> QED BY <1>1, <1>5, <1>6, <1>7, <1>8

-----------------------------------------------------------------------------
(* The postconditions follow from the invariant.                           *)

(* A set without two different elements.                                   *)
LEMMA AtMostOne ==
  ASSUME NEW S, \A x, y \in S : x = y
  PROVE  Cardinality(S) <= 1
<1>1. CASE S = {}
  BY <1>1, FS_EmptySet
<1>2. CASE S # {}
  <2>1. PICK x \in S : TRUE
    BY <1>2
  <2>2. S = {x}
    BY <2>1
  <2> QED BY <2>2, FS_Singleton
<1> QED BY <1>1, <1>2

(* An artificial block.                                                    *)
LEMMA SelfLoopFacts ==
  ASSUME NEW t
  PROVE  /\ SelfLoop(t).tid = t /\ SelfLoop(t).ind = NoTargets
         /\ DOMAIN SelfLoop(t).jmps = {1}
         /\ SelfLoop(t).jmps[1] = Branch(t)
         /\ IntraTarget(SelfLoop(t).jmps[1]) = t
         /\ SelfLoop(t).jmps[1].kind = "Branch"
         /\ IndFits(SelfLoop(t))
<1>1. /\ SelfLoop(t).tid = t /\ SelfLoop(t).ind = NoTargets
      /\ SelfLoop(t).jmps = <<Branch(t)>>
  BY DEF SelfLoop
<1>2. /\ Branch(t).kind = "Branch" /\ Branch(t).target = t
      /\ IntraTarget(Branch(t)) = t
  BY DEF Branch, IntraTarget, IsBranch
<1>3. /\ <<Branch(t)>> # <<>> /\ Last(<<Branch(t)>>) = Branch(t)
      /\ DOMAIN <<Branch(t)>> = {1} /\ <<Branch(t)>>[1] = Branch(t)
  BY DEF Last
<1>4. IndFits(SelfLoop(t))
  BY <1>1, <1>2, <1>3 DEF IndFits
<1> QED BY <1>1, <1>2, <1>3, <1>4

(* Where the blocks of a program come from.                                *)
LEMMA Cases ==
  ASSUME NEW p, NEW s, ProgramInv(p, s), NEW f \in DOMAIN s, NEW i \in DOMAIN s[f]
  PROVE  \/ EmptyGone(p) /\ f = SinkFn /\ i = 1 /\ s[f][i] = SelfLoop(<<SinkBlock>>)
         \/ f \in FunctionsAt(p) /\ s[f][i] \in Added(p, f)
         \/ f \in FunctionsAt(p) /\ \E o \in Sources(p, f) : BlkFits(p, f, o, s[f][i])
<1>1. CASE f \in FunctionsAt(p)
  BY <1>1 DEF ProgramInv, Content
<1>2. CASE f \notin FunctionsAt(p)
  <2>1. EmptyGone(p) /\ f = SinkFn /\ s[f] = <<SelfLoop(<<SinkBlock>>)>>
    BY <1>2 DEF ProgramInv
  <2> QED BY <2>1
<1> QED BY <1>1, <1>2

(* The function that a TID of the program is in.                           *)
LEMMA InAll ==
  ASSUME NEW p, NEW s, ProgramInv(p, s), NEW t \in AllBlkTids(s)
  PROVE  \/ \E g \in FunctionsAt(p) : t \in BlkTids(s[g]) /\ t \in TidsAt(p, g)
         \/ t = <<SinkBlock>>
<1>1. PICK g \in DOMAIN s : t \in BlkTids(s[g])
  BY DEF AllBlkTids
<1>2. PICK i \in DOMAIN s[g] : t = s[g][i].tid
  BY <1>1 DEF BlkTids
<1>3. CASE g \in FunctionsAt(p)
  BY <1>1, <1>3, ContentTids DEF ProgramInv
<1>4. CASE g \notin FunctionsAt(p)
  BY <1>2, <1>4, Cases, SelfLoopFacts
<1> QED BY <1>3, <1>4

(* A block of the program that is a copy for f is a block of f.            *)
LEMMA MovedStays ==
  ASSUME input \in Programs, NEW p, NEW s, ProgramInv(p, s),
         NEW f \in FunctionsAt(p), NEW t \in Tids, Moved(f, t) \in AllBlkTids(s)
  PROVE  Moved(f, t) \in BlkTids(s[f])
<1>1. f \in Functions
  BY DEF FunctionsAt
<1>2. PICK g \in FunctionsAt(p) : Moved(f, t) \in BlkTids(s[g]) /\ Moved(f, t) \in TidsAt(p, g)
  BY <1>1, InAll, MovedFacts
<1>3. g \in Functions
  BY DEF FunctionsAt
<1>4. PICK o \in Originals : Moved(f, t) = Moved(g, o.tid)
  BY <1>1, <1>2, <1>3, MovedFacts DEF TidsAt, Sources
<1>5. o.tid \in Tids
  BY OwnFacts
<1>6. f = g
  BY <1>1, <1>3, <1>4, <1>5, MovedFacts
<1> QED BY <1>2, <1>6

(* A jump without target leads to no block.                                *)
LEMMA NoneIsNowhere ==
  ASSUME input \in Programs, NEW p, NEW s, ProgramInv(p, s)
  PROVE  None \notin AllBlkTids(s)
<1> SUFFICES ASSUME None \in AllBlkTids(s)
             PROVE  FALSE
  OBVIOUS
<1>1. <<SinkBlock>> # None
  <2>1. <<SinkBlock>> \in Seq(Addresses \cup {SinkFn, SinkBlock, ReturnTarget})
    OBVIOUS
  <2> QED BY <2>1, NoneAssumption
<1>2. PICK g \in FunctionsAt(p) : None \in TidsAt(p, g)
  BY <1>1, InAll
<1>3. g \in Functions /\ g \in Addresses
  BY ProgramFacts DEF FunctionsAt
<1>4. \A o \in Originals : o.tid \in Tids /\ Moved(g, o.tid) # None
  BY <1>3, OwnFacts, MovedFacts
<1>5. ReturnTid(g) # None /\ SinkTid(g) # None
  <2>1. <<g>> \in Tids
    BY <1>3 DEF Tids
  <2> QED BY <1>3, <2>1, NoneIsNoTid
<1> QED BY <1>2, <1>4, <1>5 DEF TidsAt, Sources

(* The block with a TID is found.                                          *)
LEMMA FindBlock ==
  ASSUME NEW s, UniqueTids(s), NEW f \in DOMAIN s, NEW i \in DOMAIN s[f]
  PROVE  BlkAt(s, s[f][i].tid) = s[f][i]
<1> DEFINE all == UNION {Range(s[g]) : g \in DOMAIN s}
<1>1. s[f][i] \in all
  BY DEF Range
<1>2. \A b \in all : \E g \in DOMAIN s : \E k \in DOMAIN s[g] : b = s[g][k]
  BY DEF Range
<1>3. \A b \in all : b.tid = s[f][i].tid => b = s[f][i]
  BY <1>2 DEF UniqueTids
<1>4. PICK b : b = BlkAt(s, s[f][i].tid)
  OBVIOUS
<1>5. b \in all /\ b.tid = s[f][i].tid
  BY <1>1, <1>4 DEF BlkAt
<1> QED BY <1>3, <1>4, <1>5

(* A jump target of a block that exists in the program is in the function. *)
LEMMA TargetsInside ==
  ASSUME input \in Programs, NEW p, NEW s, ProgramInv(p, s), Inlined(p),
         NEW f \in DOMAIN s, NEW i \in DOMAIN s[f]
  PROVE  IntraTargets(s, s[f][i]) \subseteq BlkTids(s[f])
<1> SUFFICES ASSUME NEW t \in AllBlkTids(s), t \in JumpTargets(s[f][i])
             PROVE  t \in BlkTids(s[f])
  BY DEF IntraTargets, JumpTargets
<1>1. PICK b : b = s[f][i]
  OBVIOUS
<1>2. b.tid \in BlkTids(s[f])
  BY <1>1 DEF BlkTids
<1>3. CASE \E u : b = SelfLoop(u)
  <2>1. PICK u : b = SelfLoop(u)
    BY <1>3
  <2>2. JumpTargets(b) = {u}
    BY <2>1, SelfLoopFacts DEF JumpTargets
  <2> QED BY <1>1, <1>2, <2>1, <2>2, SelfLoopFacts
<1>4. CASE f \in FunctionsAt(p) /\ \E o \in Sources(p, f) : BlkFits(p, f, o, b)
  <2>1. PICK o \in Sources(p, f) : BlkFits(p, f, o, b)
    BY <1>4
  <2>2. o \in Originals /\ o \in Blks /\ o.jmps \in Seq(Jmps)
    BY OriginalFacts, BlkFacts DEF Sources
  <2>3. t # None
    BY NoneIsNowhere
  <2>4. /\ Marked(p) => ReturnTid(f) \in BlkTids(s[f])
        /\ Patched(p) => SinkTid(f) \in BlkTids(s[f])
    BY <1>1, <1>4 DEF ProgramInv, Layout
  <2>5. \A u \in Tids : t = LeadsAt(p, f, u) => t \in BlkTids(s[f])
    BY <1>4, <2>4, MovedStays DEF LeadsAt
  <2>6. CASE \E k \in DOMAIN b.jmps : t = IntraTarget(b.jmps[k])
    <3>1. PICK k \in DOMAIN b.jmps : t = IntraTarget(b.jmps[k])
      BY <2>6
    <3>2. k \in 1 .. Len(o.jmps) /\ JmpFits(p, f, o, k, b.jmps[k])
      BY <2>1, <3>1 DEF BlkFits
    <3>3. o.jmps[k] \in Jmps
      BY <2>2, <3>2
    <3>4. IntraTarget(o.jmps[k]) \in Tids \cup {None}
      BY <3>3, JmpFacts
    <3>5. CASE Marked(p) /\ b.jmps[k].kind = "Call" /\ b.jmps[k].return = ReturnTid(f)
      BY <2>4, <3>1, <3>5 DEF IntraTarget, IsBranch
    <3> QED BY <2>3, <2>5, <3>1, <3>2, <3>4, <3>5 DEF JmpFits
  <2>7. CASE b.ind # NoTargets /\ b.ind.kind = "Jump" /\ t \in Range(b.ind.targets)
    <3>1. PICK n \in DOMAIN b.ind.targets : t = b.ind.targets[n]
      BY <2>7 DEF Range
    <3>2. /\ o.ind # NoTargets /\ o.ind.kind = "Jump" /\ n \in DOMAIN o.ind.targets
          /\ t = LeadsAt(p, f, o.ind.targets[n])
      BY <2>1, <2>7, <3>1 DEF BlkFits, TargetsFit, KeptPositions
    <3>3. o.ind.targets \in Seq(Tids)
      BY <2>2, <3>2, BlkFacts
    <3>4. o.ind.targets[n] \in Tids
      BY <3>2, <3>3
    <3> QED BY <2>5, <3>2, <3>4
  <2> QED BY <1>1, <2>6, <2>7 DEF JumpTargets
<1> QED BY <1>1, <1>3, <1>4, Cases DEF Added

(* fn_tid_to_blk_tids finds no block outside of a closed function, so that *)
(* there is nothing to inline.                                             *)
LEMMA NothingToAdd ==
  ASSUME NEW s, NEW f \in DOMAIN s, Closed(s, BlkTids(s[f]))
  PROVE  fn_tid_to_blk_tids(s, f) = BlkTids(s[f])
<1>1. BlkTids(s[f]) \in SUBSET AllBlkTids(s)
  BY DEF AllBlkTids
<1> QED BY <1>1 DEF fn_tid_to_blk_tids

(* InliningPost follows from the invariant.                                *)
LEMMA ClosedCorrect ==
  ASSUME Inv, Inlined(pass)
  PROVE  InliningPost
<1>1. input \in Programs /\ ProgramInv(pass, subs)
  BY DEF Inv
<1>2. UniqueTids(subs)
  BY <1>1, InvUnique
<1> SUFFICES ASSUME NEW f \in DOMAIN subs, NEW i \in DOMAIN subs[f]
             PROVE  IntraTargets(subs, BlkAt(subs, subs[f][i].tid)) \subseteq BlkTids(subs[f])
  BY DEF InliningPost, Closed, BlkTids
<1>3. BlkAt(subs, subs[f][i].tid) = subs[f][i]
  BY <1>2, FindBlock
<1> QED BY <1>1, <1>3, TargetsInside

(* SingleTargetIndirectCallsPost follows from the invariant.               *)
LEMMA IndCorrect ==
  ASSUME Inv
  PROVE  SingleTargetIndirectCallsPost
<1>1. ProgramInv(pass, subs)
  BY DEF Inv
<1> SUFFICES ASSUME NEW f \in DOMAIN subs, NEW i \in DOMAIN subs[f]
             PROVE  IndFits(subs[f][i])
  BY DEF SingleTargetIndirectCallsPost
<1>2. \/ \E t : subs[f][i] = SelfLoop(t)
      \/ \E o \in Sources(pass, f) : BlkFits(pass, f, o, subs[f][i])
  BY <1>1, Cases DEF Added
<1> QED BY <1>2, SelfLoopFacts DEF BlkFits

(* ReorderFnBlocksPost follows from the invariant.                         *)
LEMMA ReorderCorrect ==
  ASSUME Inv, Reordered(pass)
  PROVE  ReorderFnBlocksPost
<1>1. input \in Programs /\ ProgramInv(pass, subs)
  BY DEF Inv
<1> SUFFICES ASSUME NEW f \in DOMAIN subs, subs[f] # <<>>
             PROVE  {i \in DOMAIN subs[f] : is_fn_start_blk(f, subs[f][i].tid)} = {1}
  BY DEF ReorderFnBlocksPost
<1>2. CASE f \in FunctionsAt(pass)
  <2>1. f # SinkFn
    BY <1>1, <1>2, ProgramFacts DEF FunctionsAt
  <2>2. Layout(pass, f, subs[f])
    BY <1>1, <1>2 DEF ProgramInv
  <2>3. subs[f] \in Seq(Range(subs[f])) /\ subs[f][1].tid = <<f>>
    BY <2>2 DEF Layout
  <2>4. 1 \in DOMAIN subs[f]
    BY <2>3
  <2>5. \A i \in DOMAIN subs[f] : subs[f][i].tid = <<f>> <=> i = 1
    BY <2>2, <2>3, <2>4 DEF Layout
  <2> QED BY <2>1, <2>4, <2>5 DEF is_fn_start_blk
<1>3. CASE f \notin FunctionsAt(pass)
  <2>1. f = SinkFn /\ subs[f] = <<SelfLoop(<<SinkBlock>>)>>
    BY <1>1, <1>3 DEF ProgramInv
  <2>2. DOMAIN subs[f] = {1} /\ subs[f][1].tid = <<SinkBlock>>
    BY <2>1, SelfLoopFacts
  <2>3. is_fn_start_blk(f, subs[f][1].tid)
    BY <2>1, <2>2 DEF is_fn_start_blk
  <2> QED BY <2>2, <2>3
<1> QED BY <1>2, <1>3

(* At most one block of a function has the prefix of artificial blocks.    *)
LEMMA ArtificialOnce ==
  ASSUME input \in Programs, NEW p, NEW s, ProgramInv(p, s), NEW f \in DOMAIN s,
         NEW prefix \in {SinkBlock, ReturnTarget}
  PROVE  \A i, k \in DOMAIN s[f] : s[f][i].tid[1] = prefix /\ s[f][k].tid[1] = prefix => i = k
<1> SUFFICES ASSUME NEW i \in DOMAIN s[f], NEW k \in DOMAIN s[f],
                    s[f][i].tid[1] = prefix, s[f][k].tid[1] = prefix
             PROVE  i = k
  OBVIOUS
<1>1. CASE f \in FunctionsAt(p)
  <2>1. f \in Functions
    BY <1>1 DEF FunctionsAt
  <2>2. \A o \in Originals : o.tid \in Tids /\ Moved(f, o.tid)[1] \in Addresses
    BY <2>1, OwnFacts, MovedFacts, TidShapes
  <2>3. ReturnTid(f)[1] = ReturnTarget /\ SinkTid(f)[1] = SinkBlock
    BY DEF ReturnTid, SinkTid
  <2>4. \A t \in TidsAt(p, f) : t[1] = prefix => t = <<prefix, f>>
    BY <2>2, <2>3, PrefixAssumption DEF TidsAt, Sources, ReturnTid, SinkTid
  <2>5. s[f][i].tid \in TidsAt(p, f) /\ s[f][k].tid \in TidsAt(p, f)
    BY <1>1, ContentTids DEF ProgramInv, BlkTids
  <2> QED BY <1>1, <2>4, <2>5 DEF ProgramInv, Layout
<1>2. CASE f \notin FunctionsAt(p)
  BY <1>2, Cases
<1> QED BY <1>1, <1>2

(* After PatchCf the targets of all jumps of a function exist in it.       *)
LEMMA PatchedTargets ==
  ASSUME input \in Programs, NEW p, NEW s, ProgramInv(p, s), Patched(p),
         NEW f \in FunctionsAt(p), NEW o \in Sources(p, f), NEW b, BlkFits(p, f, o, b),
         b.tid \in BlkTids(s[f]), NEW k \in DOMAIN b.jmps
  PROVE  ~WildTarget(s, f, b.jmps[k]) /\ ~WildCall(s, b.jmps[k])
<1>1. /\ o \in Originals /\ o \in Blks /\ o.jmps \in Seq(Jmps)
      /\ f \in Functions
  BY OriginalFacts, BlkFacts DEF Sources, FunctionsAt
<1>2. k \in 1 .. Len(o.jmps) /\ JmpFits(p, f, o, k, b.jmps[k])
  BY DEF BlkFits
<1>3. k \in DOMAIN o.jmps /\ o.jmps[k] \in Jmps
  BY <1>1, <1>2
<1>4. /\ s[f] # <<>>
      /\ Marked(p) /\ Inlined(p) /\ EmptyGone(p)
  BY DEF Patched, Marked, Inlined, EmptyGone, BlkTids
<1>5. /\ ReturnTid(f) \in BlkTids(s[f]) /\ SinkTid(f) \in BlkTids(s[f])
      /\ \A t \in JumpTargets(o) \cap KeptTids : Moved(f, t) \in BlkTids(s[f])
  BY <1>1, <1>4 DEF ProgramInv, Layout, BlkFits
<1>6. IntraTarget(o.jmps[k]) \in JumpTargets(o)
  BY <1>3 DEF JumpTargets
<1>7. LeadsAt(p, f, IntraTarget(o.jmps[k])) \in BlkTids(s[f])
  BY <1>4, <1>5, <1>6 DEF LeadsAt
<1>8. ~WildTarget(s, f, b.jmps[k])
  <2>1. CASE b.jmps[k].kind = "Call" /\ b.jmps[k].return = ReturnTid(f)
    BY <1>5, <2>1 DEF WildTarget, IntraTarget, IsBranch
  <2> QED BY <1>2, <1>7, <2>1 DEF JmpFits, WildTarget
<1>9. ~WildCall(s, b.jmps[k])
  <2>1. DOMAIN s = ((Functions \ DOMAIN input.stubs) \ EmptyFns) \cup {SinkFn}
    BY <1>4 DEF ProgramInv, FunctionsAt
  <2>2. \A t : ResolvedCall(t) \in DOMAIN s \cup input.extern_symbols
    BY <2>1, ProgramFacts DEF ResolvedCall, EmptyFns, Functions
  <2> QED BY <1>2, <2>2 DEF JmpFits, CalledAt, WildCall
<1> QED BY <1>8, <1>9

(* PatchCfPost follows from the invariant.                                 *)
LEMMA PatchCorrect ==
  ASSUME Inv, Patched(pass)
  PROVE  PatchCfPost
<1>1. input \in Programs /\ ProgramInv(pass, subs)
  BY DEF Inv
<1>2. \A f \in DOMAIN subs :
        Cardinality({i \in DOMAIN subs[f] : subs[f][i].tid[1] = SinkBlock}) <= 1
  <2> SUFFICES ASSUME NEW f \in DOMAIN subs
               PROVE  Cardinality({i \in DOMAIN subs[f] : subs[f][i].tid[1] = SinkBlock}) <= 1
    OBVIOUS
  <2> DEFINE S == {i \in DOMAIN subs[f] : subs[f][i].tid[1] = SinkBlock}
  <2>1. \A i, k \in S : i = k
    BY <1>1, ArtificialOnce
  <2> HIDE DEF S
  <2>2. Cardinality(S) <= 1
    BY <2>1, AtMostOne
  <2> QED BY <2>2 DEF S
<1>3. ASSUME NEW f \in DOMAIN subs, NEW i \in DOMAIN subs[f], NEW k \in DOMAIN subs[f][i].jmps
      PROVE  ~WildTarget(subs, f, subs[f][i].jmps[k]) /\ ~WildCall(subs, subs[f][i].jmps[k])
  <2>1. PICK b : b = subs[f][i]
    OBVIOUS
  <2>2. b.tid \in BlkTids(subs[f])
    BY <2>1 DEF BlkTids
  <2>3. CASE \E t : b = SelfLoop(t)
    <3>1. PICK t : b = SelfLoop(t)
      BY <2>3
    <3>2. IntraTarget(b.jmps[k]) = t /\ b.jmps[k].kind = "Branch" /\ t = b.tid
      BY <1>3, <2>1, <3>1, SelfLoopFacts
    <3> QED BY <2>1, <2>2, <3>2 DEF WildTarget, WildCall
  <2>4. CASE f \in FunctionsAt(pass) /\ \E o \in Sources(pass, f) : BlkFits(pass, f, o, b)
    BY <1>1, <1>3, <2>1, <2>2, <2>4, PatchedTargets
  <2> QED BY <1>1, <2>1, <2>3, <2>4, Cases DEF Added
<1> QED BY <1>2, <1>3 DEF PatchCfPost

(* RemoveEmptyFunctionsPost follows from the invariant.                    *)
LEMMA EmptyCorrect ==
  ASSUME Inv, EmptyGone(pass)
  PROVE  RemoveEmptyFunctionsPost
<1>1. ProgramInv(pass, subs)
  BY DEF Inv
<1>2. \A f \in FunctionsAt(pass) : subs[f] # <<>>
  BY <1>1 DEF ProgramInv, Layout, FunctionsAt, EmptyFns
<1> QED BY <1>1, <1>2 DEF ProgramInv, RemoveEmptyFunctionsPost

(* NoreturnExtFunctionsPost follows from the invariant.                    *)
LEMMA ReturnTargetsCorrect ==
  ASSUME Inv
  PROVE  NoreturnExtFunctionsPost
<1>1. input \in Programs /\ ProgramInv(pass, subs)
  BY DEF Inv
<1> SUFFICES ASSUME NEW f \in DOMAIN subs
             PROVE  Cardinality({i \in DOMAIN subs[f] : subs[f][i].tid[1] = ReturnTarget}) <= 1
  BY DEF NoreturnExtFunctionsPost
<1> DEFINE S == {i \in DOMAIN subs[f] : subs[f][i].tid[1] = ReturnTarget}
<1>2. \A i, k \in S : i = k
  BY <1>1, ArtificialOnce
<1> HIDE DEF S
<1>3. Cardinality(S) <= 1
  BY <1>2, AtMostOne
<1> QED BY <1>3 DEF S

(* All postconditions, as far as their passes have finished.               *)
LEMMA InvPostconditions == Inv => PostconditionsPersist
<1> SUFFICES ASSUME Inv PROVE PostconditionsPersist
  OBVIOUS
<1>1. pass \in PassNames /\ (pass = "done" => EntryPointsPost)
  BY DEF Inv
<1> QED BY <1>1, FinishedPasses, IndCorrect, ReorderCorrect, ClosedCorrect, EmptyCorrect,
           ReturnTargetsCorrect, PatchCorrect DEF PostconditionsPersist

-----------------------------------------------------------------------------
(* The control flow is the original one.                                   *)

(* The original of a block is the one it fits to.                          *)
LEMMA FindOriginal ==
  ASSUME input \in Programs, NEW p, NEW f \in Functions, NEW o \in Originals,
         NEW b, BlkFits(p, f, o, b)
  PROVE  ~IsArtificial(b.tid) /\ OriginalBlk(b.tid) = o
<1>1. o.tid \in Tids
  BY OwnFacts
<1>2. b.tid[1] = o.tid[1] /\ o.tid = <<o.tid[1]>> /\ o.tid[1] \in Addresses
  BY <1>1, MovedFacts, TidShapes DEF BlkFits
<1>3. OriginalTid(b.tid) = o.tid
  BY <1>2 DEF OriginalTid
<1>4. OriginalBlk(b.tid) = o
  <2>1. PICK q : q = OriginalBlk(b.tid)
    OBVIOUS
  <2>2. q \in Originals /\ q.tid = o.tid
    BY <1>3, <2>1 DEF OriginalBlk, Originals, Functions
  <2> QED BY <2>1, <2>2, OriginalFacts
<1> QED BY <1>2, <1>4, PrefixAssumption DEF IsArtificial

(* Added blocks are known by the prefix of their TID.                      *)
LEMMA AddedIsArtificial ==
  ASSUME NEW p, NEW f, NEW b, b \in Added(p, f) \/ b = SelfLoop(<<SinkBlock>>)
  PROVE  IsArtificial(b.tid)
<1>1. b.tid \in {ReturnTid(f), SinkTid(f), <<SinkBlock>>}
  BY SelfLoopFacts DEF Added
<1> QED BY <1>1 DEF IsArtificial, ReturnTid, SinkTid

(* Where a reference of the translated program leads.                      *)
LEMMA LeadsAtFacts ==
  ASSUME input \in Programs, NEW p, NEW f \in Functions, NEW t \in Tids
  PROVE  /\ LeadsAt(p, f, t) # None
         /\ LeadsAt(p, f, t) # ReturnTid(f)
         /\ LeadsAt(p, f, t)[1] # ReturnTarget
<1>1. f \in Addresses /\ t[1] \in Addresses /\ t # None /\ t # ReturnTid(f)
  BY ProgramFacts, TidShapes, NoneIsNoTid
<1>2. /\ Moved(f, t) # None /\ Moved(f, t) # ReturnTid(f)
      /\ Moved(f, t)[1] = t[1]
  BY MovedFacts
<1>3. /\ SinkTid(f) # None
      /\ SinkTid(f)[1] = SinkBlock /\ ReturnTid(f)[1] = ReturnTarget
  BY <1>1, NoneIsNoTid DEF SinkTid, ReturnTid
<1> QED BY <1>1, <1>2, <1>3, PrefixAssumption DEF LeadsAt

(* A block that is not artificial is a copy of the block OriginalBlk finds. *)
LEMMA CopyOfOriginal ==
  ASSUME input \in Programs, NEW p, NEW s, ProgramInv(p, s), NEW f \in DOMAIN s,
         NEW i \in DOMAIN s[f], ~IsArtificial(s[f][i].tid)
  PROVE  /\ f \in FunctionsAt(p) /\ f \in Functions
         /\ OriginalBlk(s[f][i].tid) \in Sources(p, f)
         /\ BlkFits(p, f, OriginalBlk(s[f][i].tid), s[f][i])
<1>1. PICK b : b = s[f][i]
  OBVIOUS
<1>2. f \in FunctionsAt(p) /\ \E o \in Sources(p, f) : BlkFits(p, f, o, b)
  BY <1>1, Cases, AddedIsArtificial
<1>3. PICK o \in Sources(p, f) : BlkFits(p, f, o, b)
  BY <1>2
<1>4. f \in Functions /\ o \in Originals
  BY <1>2 DEF FunctionsAt, Sources
<1>5. OriginalBlk(b.tid) = o
  BY <1>3, <1>4, FindOriginal
<1> QED BY <1>1, <1>2, <1>3, <1>4, <1>5

(* The jumps of an original block and where they lead.                     *)
LEMMA OriginalJmp ==
  ASSUME input \in Programs, NEW p, NEW f, NEW o \in Sources(p, f), NEW b, BlkFits(p, f, o, b),
         NEW k \in DOMAIN b.jmps
  PROVE  /\ o \in Originals
         /\ k \in DOMAIN o.jmps /\ k \in 1 .. Len(o.jmps)
         /\ o.jmps[k] \in Jmps
         /\ IntraTarget(o.jmps[k]) \in Tids \cup {None}
         /\ IntraTarget(o.jmps[k]) \in JumpTargets(o)
         /\ JmpFits(p, f, o, k, b.jmps[k])
<1>1. o \in Originals /\ o \in Blks /\ o.jmps \in Seq(Jmps)
  BY OriginalFacts, BlkFacts DEF Sources
<1>2. k \in 1 .. Len(o.jmps) /\ JmpFits(p, f, o, k, b.jmps[k])
  BY DEF BlkFits
<1>3. k \in DOMAIN o.jmps /\ o.jmps[k] \in Jmps
  BY <1>1, <1>2
<1>4. IntraTarget(o.jmps[k]) \in Tids \cup {None}
  BY <1>3, JmpFacts
<1>5. IntraTarget(o.jmps[k]) \in JumpTargets(o)
  BY <1>3 DEF JumpTargets
<1> QED BY <1>1, <1>2, <1>3, <1>4, <1>5

(* Only calls that never return lead to the artificial return target.      *)
LEMMA ReturnsCorrect ==
  ASSUME Inv
  PROVE  OnlyNoreturnCallsLeadToReturnTarget
<1> SUFFICES ASSUME NEW f \in DOMAIN subs, NEW i \in DOMAIN subs[f],
                    NEW k \in DOMAIN subs[f][i].jmps,
                    IntraTarget(subs[f][i].jmps[k]) # None,
                    IntraTarget(subs[f][i].jmps[k])[1] = ReturnTarget,
                    ~IsArtificial(subs[f][i].tid)
             PROVE  NeverReturns(subs[f][i].jmps[k])
  BY DEF OnlyNoreturnCallsLeadToReturnTarget
<1>1. input \in Programs /\ ProgramInv(pass, subs)
  BY DEF Inv
<1>2. PICK b : b = subs[f][i]
  OBVIOUS
<1>3. PICK o \in Sources(pass, f) : BlkFits(pass, f, o, b) /\ f \in Functions
  BY <1>1, <1>2, CopyOfOriginal
<1>4. k \in DOMAIN b.jmps
  BY <1>2
<1>5. /\ JmpFits(pass, f, o, k, b.jmps[k])
      /\ IntraTarget(o.jmps[k]) \in Tids \cup {None}
  BY <1>1, <1>3, <1>4, OriginalJmp
<1>6. IntraTarget(o.jmps[k]) # None => IntraTarget(b.jmps[k]) # LeadsAt(pass, f, IntraTarget(o.jmps[k]))
  BY <1>1, <1>2, <1>3, <1>5, LeadsAtFacts
<1> QED BY <1>2, <1>5, <1>6 DEF JmpFits

(* A reference to a block that is kept leads to the copy of that block.    *)
LEMMA LeadsToCorrect ==
  ASSUME input \in Programs, ProgramInv(pass, subs), Patched(pass),
         NEW f \in FunctionsAt(pass), NEW o \in Originals,
         Moved(f, o.tid) \in BlkTids(subs[f]), NEW t \in JumpTargets(o) \cap Tids
  PROVE  LeadsTo(f, t, LeadsAt(pass, f, t))
<1>1. f \in Functions /\ Inlined(pass)
  BY DEF FunctionsAt, Patched, Inlined
<1>2. CASE t \in KeptTids
  <2>1. Moved(f, t) \in BlkTids(subs[f])
    BY <1>1, <1>2 DEF ProgramInv, Layout
  <2>2. /\ Moved(f, t)[1] = t[1] /\ t = <<t[1]>> /\ t[1] \in Addresses
    BY <1>1, MovedFacts, TidShapes
  <2>3. ~IsArtificial(Moved(f, t)) /\ OriginalTid(Moved(f, t)) = t
    BY <2>2, PrefixAssumption DEF IsArtificial, OriginalTid
  <2>4. LeadsAt(pass, f, t) = Moved(f, t)
    BY <1>1, <1>2 DEF LeadsAt
  <2> QED BY <1>2, <2>1, <2>3, <2>4 DEF LeadsTo
<1>3. CASE t \notin KeptTids
  BY <1>3 DEF LeadsAt, LeadsTo, artificial_sink_block_for_fn, SinkTid
<1> QED BY <1>2, <1>3

(* Where a jump of the normal form leads.                                  *)
LEMMA SameTargetCorrect ==
  ASSUME input \in Programs, ProgramInv(pass, subs), Patched(pass),
         NEW f \in FunctionsAt(pass), NEW o \in Sources(pass, f), NEW b,
         BlkFits(pass, f, o, b), b.tid \in BlkTids(subs[f]), NEW k \in DOMAIN b.jmps
  PROVE  SameTarget(f, o.jmps[k], b.jmps[k])
<1>1. f \in Functions
  BY DEF FunctionsAt
<1>2. PICK j, u : j = b.jmps[k] /\ u = IntraTarget(o.jmps[k])
  OBVIOUS
<1>3. /\ o \in Originals
      /\ JmpFits(pass, f, o, k, j)
      /\ u \in Tids \cup {None} /\ u \in JumpTargets(o)
  BY <1>2, OriginalJmp
<1>4. Moved(f, o.tid) \in BlkTids(subs[f])
  BY DEF BlkFits
<1>5. u # None => LeadsTo(f, u, LeadsAt(pass, f, u)) /\ LeadsAt(pass, f, u) # ReturnTid(f)
  BY <1>1, <1>3, <1>4, LeadsToCorrect, LeadsAtFacts
<1>6. artificial_return_target_for_fn(f) = ReturnTid(f) /\ ReturnTid(f) # None
  <2>1. f \in Addresses /\ <<f>> \in Tids
    BY <1>1, ProgramFacts DEF Tids
  <2> QED BY <2>1, NoneIsNoTid DEF artificial_return_target_for_fn, ReturnTid
<1>7. j.kind = "Call" => IntraTarget(j) = j.return
  BY DEF IntraTarget, IsBranch
<1>8. \/ Marked(pass) /\ j.kind = "Call" /\ j.return = ReturnTid(f) /\ NeverReturns(j)
      \/ u = None /\ IntraTarget(j) = None
      \/ u # None /\ IntraTarget(j) = LeadsAt(pass, f, u)
  BY <1>2, <1>3 DEF JmpFits
<1> QED BY <1>2, <1>5, <1>6, <1>7, <1>8 DEF SameTarget

(* Where an indirect jump of the normal form leads.                        *)
LEMMA IndTargetsCorrect ==
  ASSUME input \in Programs, Patched(pass),
         NEW f \in FunctionsAt(pass), NEW o \in Sources(pass, f), NEW b,
         BlkFits(pass, f, o, b), b.ind # NoTargets, b.ind.kind = "Jump"
  PROVE  {OriginalTid(t) : t \in Range(b.ind.targets)} = Range(o.ind.targets) \cap KeptTids
<1>1. f \in Functions /\ Inlined(pass) /\ o \in Originals
  BY DEF FunctionsAt, Patched, Inlined, Sources
<1>2. PICK ts, us : ts = b.ind.targets /\ us = o.ind.targets
  OBVIOUS
<1>3. /\ o.ind # NoTargets /\ o.ind.kind = "Jump"
      /\ DOMAIN ts = {n \in DOMAIN us : us[n] \in KeptTids}
      /\ \A n \in DOMAIN ts : ts[n] = LeadsAt(pass, f, us[n])
  BY <1>2 DEF BlkFits, TargetsFit, KeptPositions
<1>4. us \in Seq(Tids)
  BY <1>1, <1>2, <1>3, OriginalFacts, BlkFacts
<1>5. \A n \in DOMAIN ts : n \in DOMAIN us /\ us[n] \in KeptTids /\ us[n] \in Tids
  BY <1>3, <1>4
<1>6. \A t \in Tids \cap KeptTids : OriginalTid(LeadsAt(pass, f, t)) = t
  <2> SUFFICES ASSUME NEW t \in Tids \cap KeptTids
               PROVE  OriginalTid(LeadsAt(pass, f, t)) = t
    OBVIOUS
  <2>1. Moved(f, t)[1] = t[1] /\ t = <<t[1]>>
    BY <1>1, MovedFacts, TidShapes
  <2>2. LeadsAt(pass, f, t) = Moved(f, t)
    BY <1>1 DEF LeadsAt
  <2> QED BY <2>1, <2>2 DEF OriginalTid
<1>7. \A n \in DOMAIN ts : OriginalTid(ts[n]) = us[n]
  BY <1>3, <1>5, <1>6
<1>8. {OriginalTid(t) : t \in Range(ts)} = Range(us) \cap KeptTids
  <2>1. Range(ts) = {ts[n] : n \in DOMAIN ts} /\ Range(us) = {us[n] : n \in DOMAIN us}
    BY DEF Range
  <2>2. \A x \in {OriginalTid(t) : t \in Range(ts)} : x \in Range(us) \cap KeptTids
    BY <1>5, <1>7, <2>1
  <2>3. \A x \in Range(us) \cap KeptTids : \E n \in DOMAIN ts : x = OriginalTid(ts[n])
    BY <1>3, <1>7, <2>1
  <2>4. \A n \in DOMAIN ts : ts[n] \in Range(ts)
    BY <2>1
  <2> QED BY <2>2, <2>3, <2>4
<1> QED BY <1>2, <1>8

(* BranchesPreserved follows from the invariant.                           *)
LEMMA BranchesCorrect ==
  ASSUME Inv
  PROVE  BranchesPreserved
<1> SUFFICES ASSUME pass = "done", NEW f \in DOMAIN subs \ {SinkFn}, NEW i \in DOMAIN subs[f],
                    NEW b, b = subs[f][i], NEW o, o = OriginalBlk(b.tid), ~IsArtificial(b.tid)
             PROVE  /\ \A k \in DOMAIN b.jmps : SameTarget(f, o.jmps[k], b.jmps[k])
                    /\ b.ind # NoTargets /\ b.ind.kind = "Jump" =>
                         {OriginalTid(t) : t \in Range(b.ind.targets)}
                           = Range(o.ind.targets) \cap KeptTids
  BY DEF BranchesPreserved
<1>1. input \in Programs /\ ProgramInv(pass, subs) /\ Patched(pass)
  BY DEF Inv, Patched
<1>2. f \in FunctionsAt(pass) /\ o \in Sources(pass, f) /\ BlkFits(pass, f, o, b)
  BY <1>1, CopyOfOriginal
<1>3. b.tid \in BlkTids(subs[f])
  BY DEF BlkTids
<1>4. \A k \in DOMAIN b.jmps : SameTarget(f, o.jmps[k], b.jmps[k])
  BY <1>1, <1>2, <1>3, SameTargetCorrect
<1>5. ASSUME b.ind # NoTargets, b.ind.kind = "Jump"
      PROVE  {OriginalTid(t) : t \in Range(b.ind.targets)} = Range(o.ind.targets) \cap KeptTids
  BY <1>1, <1>2, <1>5, IndTargetsCorrect
<1> QED BY <1>4, <1>5

(* CallsPreserved follows from the invariant.                              *)
LEMMA CallsCorrect ==
  ASSUME Inv
  PROVE  CallsPreserved
<1> SUFFICES ASSUME pass = "done", NEW f \in DOMAIN subs \ {SinkFn}, NEW i \in DOMAIN subs[f],
                    NEW b, b = subs[f][i], NEW o, o = OriginalBlk(b.tid), ~IsArtificial(b.tid),
                    NEW k \in DOMAIN b.jmps, b.jmps[k].kind = "Call"
             PROVE  b.jmps[k].target =
                      ResolvedCall(IF o.jmps[k].kind = "Call" THEN o.jmps[k].target
                                   ELSE o.ind.targets[1])
  BY DEF CallsPreserved
<1>1. input \in Programs /\ ProgramInv(pass, subs) /\ Patched(pass)
  BY DEF Inv, Patched
<1>2. o \in Sources(pass, f) /\ BlkFits(pass, f, o, b)
  BY <1>1, CopyOfOriginal
<1>3. JmpFits(pass, f, o, k, b.jmps[k])
  BY <1>1, <1>2, OriginalJmp
<1> QED BY <1>1, <1>3 DEF JmpFits, CalledAt, Called

(* ControlFlowPreserved follows from the invariant.                        *)
LEMMA InvControlFlow == Inv => ControlFlowPreserved
BY BranchesCorrect, CallsCorrect, ReturnsCorrect DEF ControlFlowPreserved


-----------------------------------------------------------------------------
(* Every pass keeps the invariant.  First what the passes have in common:  *)
(* blocks whose jumps and targets are rewritten.                           *)

(* A list that is given by its elements is a sequence.                     *)
LEMMA MappedSeq ==
  ASSUME NEW n \in Nat, NEW v, v = [i \in 1 .. n |-> v[i]]
  PROVE  v \in Seq(Range(v)) /\ Len(v) = n /\ DOMAIN v = 1 .. n
<1>1. v \in [1 .. n -> Range(v)]
  BY DEF Range
<1> QED BY <1>1

(* The other direction.                                                    *)
LEMMA SeqMapped ==
  ASSUME NEW S, NEW v \in Seq(S)
  PROVE  /\ Len(v) \in Nat /\ DOMAIN v = 1 .. Len(v)
         /\ v = [i \in 1 .. Len(v) |-> v[i]]
         /\ v \in Seq(Range(v))
         /\ \A i \in 1 .. Len(v) : v[i] \in S
         /\ v = <<>> <=> Len(v) = 0
<1>1. /\ Len(v) \in Nat /\ DOMAIN v = 1 .. Len(v)
      /\ v = [i \in 1 .. Len(v) |-> v[i]]
      /\ \A i \in 1 .. Len(v) : v[i] \in S
      /\ v = <<>> <=> Len(v) = 0
  OBVIOUS
<1>2. v \in Seq(Range(v))
  BY <1>1, MappedSeq
<1> QED BY <1>1, <1>2

(* IndFits depends on the kinds of the jumps and of the targets only.      *)
LEMMA IndFitsKept ==
  ASSUME NEW n \in Nat, NEW b, NEW c, IndFits(b),
         b.jmps = [k \in 1 .. n |-> b.jmps[k]], c.jmps = [k \in 1 .. n |-> c.jmps[k]],
         \A k \in 1 .. n : c.jmps[k].kind = b.jmps[k].kind,
         b.ind = NoTargets <=> c.ind = NoTargets,
         b.ind # NoTargets => c.ind.kind = b.ind.kind
  PROVE  IndFits(c)
<1>1. PICK v, w : v = b.jmps /\ w = c.jmps
  OBVIOUS
<1>2. /\ v \in Seq(Range(v)) /\ Len(v) = n
      /\ w \in Seq(Range(w)) /\ Len(w) = n
  BY <1>1, MappedSeq
<1>3. (v = <<>> <=> n = 0) /\ (w = <<>> <=> n = 0)
  BY <1>2
<1>4. n # 0 => Last(w).kind = Last(v).kind
  BY <1>1, <1>2 DEF Last
<1> QED BY <1>1, <1>3, <1>4 DEF IndFits

(* A block, of this function or another one, becomes the copy c of o in f. *)
LEMMA Rewritten ==
  ASSUME NEW p, NEW q, NEW f, NEW g, NEW o, NEW b, NEW c,
         input \in Programs, o \in Originals, BlkFits(p, g, o, b),
         c = [tid |-> c.tid, jmps |-> c.jmps, ind |-> c.ind],
         c.tid = Moved(f, o.tid),
         c.jmps = [k \in DOMAIN b.jmps |-> c.jmps[k]],
         \A k \in DOMAIN b.jmps : c.jmps[k].kind = b.jmps[k].kind,
         \A k \in DOMAIN b.jmps : JmpFits(q, f, o, k, c.jmps[k]),
         b.ind = NoTargets <=> c.ind = NoTargets,
         b.ind # NoTargets => c.ind.kind = b.ind.kind,
         TargetsFit(q, f, o, c.ind)
  PROVE  BlkFits(q, f, o, c)
<1>1. o.jmps \in Seq(Jmps)
  BY OriginalFacts, BlkFacts
<1>2. PICK n \in Nat : n = Len(o.jmps)
  BY <1>1
<1>3. b.jmps = [k \in 1 .. n |-> b.jmps[k]] /\ IndFits(b)
  BY <1>2 DEF BlkFits
<1>4. DOMAIN b.jmps = 1 .. n
  BY <1>3
<1>5. IndFits(c)
  BY <1>3, <1>4, IndFitsKept
<1> QED BY <1>2, <1>4, <1>5 DEF BlkFits

(* Targets are not touched by a pass that does not move blocks.            *)
LEMMA SameTargets ==
  ASSUME NEW p, NEW q, NEW f, NEW o, NEW ind, TargetsFit(p, f, o, ind),
         Patched(p) <=> Patched(q), Inlined(p) <=> Inlined(q)
  PROVE  TargetsFit(q, f, o, ind)
BY DEF TargetsFit, KeptPositions, LeadsAt

(* The layout depends on the TIDs only.                                    *)
LEMMA SameLayout ==
  ASSUME NEW p, NEW q, NEW f, NEW blocks, NEW new, Layout(p, f, blocks),
         new = [i \in DOMAIN blocks |-> new[i]],
         \A i \in DOMAIN blocks : new[i].tid = blocks[i].tid,
         Reordered(q) => Reordered(p), Inlined(q) => Inlined(p),
         Marked(q) => Marked(p) \/ blocks = <<>>, Patched(q) => Patched(p)
  PROVE  /\ Layout(q, f, new)
         /\ BlkTids(new) = BlkTids(blocks)
<1>1. blocks \in Seq(Range(blocks))
  BY DEF Layout
<1>2. PICK n \in Nat : n = Len(blocks)
  BY <1>1
<1>3. DOMAIN blocks = 1 .. n /\ (blocks = <<>> <=> n = 0)
  BY <1>1, <1>2
<1>4. new \in Seq(Range(new)) /\ Len(new) = n /\ DOMAIN new = 1 .. n
  BY <1>3, MappedSeq
<1>5. new = <<>> <=> n = 0
  BY <1>4
<1>6. BlkTids(new) = BlkTids(blocks)
  BY <1>3, <1>4 DEF BlkTids
<1>7. blocks # <<>> => new[1].tid = blocks[1].tid
  BY <1>3
<1>8. /\ \A i, k \in DOMAIN blocks : blocks[i].tid = blocks[k].tid => i = k
      /\ Own(f) \subseteq BlkTids(blocks)
      /\ input.subs[f] = <<>> <=> blocks = <<>>
      /\ Reordered(p) /\ blocks # <<>> => blocks[1].tid = <<f>>
      /\ Marked(p) /\ blocks # <<>> => ReturnTid(f) \in BlkTids(blocks)
      /\ Patched(p) => SinkTid(f) \in BlkTids(blocks)
  BY DEF Layout
<1>9. Inlined(q) =>
        \A o \in Originals :
          Moved(f, o.tid) \in BlkTids(new) =>
            \A t \in JumpTargets(o) \cap KeptTids : Moved(f, t) \in BlkTids(new)
  BY <1>6 DEF Layout
<1>10. \A i, k \in DOMAIN new : new[i].tid = new[k].tid => i = k
  BY <1>3, <1>4, <1>8
<1>11. /\ input.subs[f] = <<>> <=> new = <<>>
       /\ Reordered(q) /\ new # <<>> => new[1].tid = <<f>>
  BY <1>3, <1>5, <1>7, <1>8
<1>12. /\ Own(f) \subseteq BlkTids(new)
       /\ Marked(q) /\ new # <<>> => ReturnTid(f) \in BlkTids(new)
       /\ Patched(q) => SinkTid(f) \in BlkTids(new)
  BY <1>3, <1>5, <1>6, <1>8
<1> QED BY <1>4, <1>6, <1>9, <1>10, <1>11, <1>12 DEF Layout

-----------------------------------------------------------------------------
(* The translated program, SingleTargetIndirectCalls and                   *)
(* ReplaceCallsToExtFns.                                                   *)

(* At first every block is its own original.                               *)
LEMMA OriginalFits ==
  ASSUME input \in Programs, NEW f \in Functions, NEW i \in DOMAIN input.subs[f]
  PROVE  /\ input.subs[f][i] \in Sources("SingleTargetIndirectCalls", f)
         /\ BlkFits("SingleTargetIndirectCalls", f, input.subs[f][i], input.subs[f][i])
<1> DEFINE p == "SingleTargetIndirectCalls"
<1>1. PICK o : o = input.subs[f][i]
  OBVIOUS
<1>2. o \in Originals /\ o \in Blks /\ IndFits(o) /\ o.tid \in Own(f)
  BY <1>1, OriginalFacts DEF Own, BlkTids
<1>3. ~Patched(p) /\ ~EmptyGone(p) /\ ~Inlined(p) /\ ~StubsGone(p)
  BY DEF Patched, EmptyGone, Inlined, StubsGone
<1>4. o.jmps \in Seq(Jmps)
  BY <1>2, BlkFacts
<1>5. \A k \in 1 .. Len(o.jmps) : o.jmps[k] \in Jmps
  BY <1>4
<1>6. o.jmps = [k \in 1 .. Len(o.jmps) |-> o.jmps[k]]
  BY <1>4
<1> HIDE DEF p
<1>7. \A k \in 1 .. Len(o.jmps) : JmpFits(p, f, o, k, o.jmps[k])
  BY <1>3, <1>5, JmpFacts DEF JmpFits, CalledAt, Called, WithoutStub, LeadsAt
<1>8. TargetsFit(p, f, o, o.ind)
  BY <1>2, <1>3, BlkFacts DEF TargetsFit, KeptPositions, LeadsAt
<1>9. o = [tid |-> o.tid, jmps |-> o.jmps, ind |-> o.ind] /\ o.tid = Moved(f, o.tid)
  BY <1>2, BlkFacts DEF Moved
<1>10. BlkFits(p, f, o, o)
  BY <1>2, <1>6, <1>7, <1>8, <1>9 DEF BlkFits
<1> QED BY <1>1, <1>2, <1>10 DEF Sources, p

(* The translated program satisfies the invariant.                         *)
LEMMA InitCorrect ==
  ASSUME input \in Programs
  PROVE  ProgramInv("SingleTargetIndirectCalls", input.subs)
<1> DEFINE p == "SingleTargetIndirectCalls"
<1>1. /\ ~Patched(p) /\ ~EmptyGone(p) /\ ~Inlined(p) /\ ~StubsGone(p)
      /\ ~Reordered(p) /\ ~Marked(p)
  BY DEF Patched, EmptyGone, Inlined, StubsGone, Reordered, Marked
<1>2. \A f \in Functions : Content(p, f, input.subs[f])
  BY OriginalFits DEF Content
<1>3. ASSUME NEW f \in Functions
      PROVE  Layout(p, f, input.subs[f])
  <2>1. PICK blocks : blocks = input.subs[f]
    OBVIOUS
  <2>2. blocks \in Seq(Range(blocks))
    BY <1>3, <2>1, ProgramFacts, SeqMapped
  <2>3. \A i, k \in DOMAIN blocks : blocks[i].tid = blocks[k].tid => i = k
    BY <1>3, <2>1, ProgramFacts DEF UniqueTids, Functions
  <2> HIDE DEF p
  <2> QED BY <1>1, <2>1, <2>2, <2>3 DEF Layout, Own
<1> HIDE DEF p
<1>4. FunctionsAt(p) = Functions
  BY <1>1 DEF FunctionsAt
<1>5. ProgramInv(p, input.subs)
  BY <1>1, <1>2, <1>3, <1>4 DEF ProgramInv, Functions
<1> QED BY <1>5 DEF p

(* ReplaceSingleTargetCall on a block of the translated program.           *)
LEMMA SingleTargetFits ==
  ASSUME input \in Programs, NEW f \in Functions, NEW i \in DOMAIN input.subs[f],
         NEW o, o = input.subs[f][i]
  PROVE  /\ o \in Sources("ReorderFnBlocks", f)
         /\ BlkFits("ReorderFnBlocks", f, o, ReplaceSingleTargetCall(o))
         /\ ReplaceSingleTargetCall(o).tid = o.tid
<1> DEFINE p == "SingleTargetIndirectCalls"
           q == "ReorderFnBlocks"
<1>1. /\ ~Patched(p) /\ ~EmptyGone(p) /\ ~Inlined(p) /\ ~StubsGone(p) /\ ~Marked(p)
      /\ ~Patched(q) /\ ~EmptyGone(q) /\ ~Inlined(q) /\ ~StubsGone(q) /\ ~Marked(q)
  BY DEF Patched, EmptyGone, Inlined, StubsGone, Marked
<1>2. o \in Sources(p, f) /\ BlkFits(p, f, o, o)
  BY OriginalFits
<1>3. o \in Originals /\ o \in Blks /\ IndFits(o)
  BY <1>2, OriginalFacts DEF Sources
<1>4. PICK c : c = ReplaceSingleTargetCall(o)
  OBVIOUS
<1>5. /\ o = [tid |-> o.tid, jmps |-> o.jmps, ind |-> o.ind]
      /\ o.jmps \in Seq(Jmps)
  BY <1>3, BlkFacts
<1>6. PICK n \in Nat : n = Len(o.jmps) /\ DOMAIN o.jmps = 1 .. n
  BY <1>5
<1> HIDE DEF p, q
<1>7. \A k \in 1 .. n : JmpFits(q, f, o, k, o.jmps[k])
  BY <1>1, <1>2, <1>6 DEF BlkFits, JmpFits, CalledAt, WithoutStub, LeadsAt
<1>8. CASE o.jmps # <<>> /\ Last(o.jmps).kind = "CallInd" /\ Len(o.ind.targets) = 1
  <2>1. n # 0 /\ n \in 1 .. n /\ Last(o.jmps) = o.jmps[n]
    BY <1>5, <1>6, <1>8 DEF Last
  <2>2. PICK j : j = Call(o.ind.targets[1], Last(o.jmps).return)
    OBVIOUS
  <2>3. c = [o EXCEPT !.jmps[n] = j, !.ind = NoTargets]
    BY <1>4, <1>6, <1>8, <2>2 DEF ReplaceSingleTargetCall
  <2>4. /\ c.tid = o.tid /\ c.ind = NoTargets
        /\ c = [tid |-> c.tid, jmps |-> c.jmps, ind |-> c.ind]
        /\ c.jmps = [o.jmps EXCEPT ![n] = j]
    BY <1>5, <2>3
  <2>5. /\ c.jmps = [k \in 1 .. n |-> c.jmps[k]]
        /\ c.jmps[n] = j
        /\ \A k \in 1 .. n : k # n => c.jmps[k] = o.jmps[k]
    BY <1>5, <1>6, <2>1, <2>4
  <2>6. JmpFits(q, f, o, n, j)
    <3>1. /\ j.kind = "Call" /\ j.target = o.ind.targets[1] /\ j.return = o.jmps[n].return
          /\ j = [kind |-> j.kind, target |-> j.target, return |-> j.return]
      BY <2>1, <2>2 DEF Call
    <3>2. o.jmps[n].kind = "CallInd"
      BY <1>8, <2>1
    <3>3. IntraTarget(j) = IntraTarget(o.jmps[n])
      BY <3>1, <3>2 DEF IntraTarget, IsBranch
    <3> QED BY <1>1, <3>1, <3>2, <3>3 DEF JmpFits, CalledAt, Called, WithoutStub, LeadsAt
  <2>7. IndFits(c)
    <3>1. PICK w : w = c.jmps
      OBVIOUS
    <3>2. w \in Seq(Range(w)) /\ Len(w) = n
      BY <2>5, <3>1, MappedSeq
    <3>3. w # <<>> /\ Last(w) = j
      BY <2>1, <2>5, <3>1, <3>2 DEF Last
    <3>4. j.kind = "Call"
      BY <2>2 DEF Call
    <3> QED BY <2>4, <3>1, <3>3, <3>4 DEF IndFits
  <2>8. c.tid = Moved(f, o.tid)
    BY <1>2, <2>4 DEF BlkFits
  <2>9. \A k \in 1 .. n : JmpFits(q, f, o, k, c.jmps[k])
    BY <1>7, <2>5, <2>6
  <2>10. TargetsFit(q, f, o, c.ind)
    BY <2>4 DEF TargetsFit
  <2>11. BlkFits(q, f, o, c)
    BY <1>6, <2>4, <2>5, <2>7, <2>8, <2>9, <2>10 DEF BlkFits
  <2>12. o \in Sources(q, f)
    BY <1>1, <1>2 DEF Sources
  <2> QED BY <1>4, <2>4, <2>11, <2>12 DEF q
<1>9. CASE ~(o.jmps # <<>> /\ Last(o.jmps).kind = "CallInd" /\ Len(o.ind.targets) = 1)
  <2>1. c = o
    BY <1>4, <1>9 DEF ReplaceSingleTargetCall
  <2>2. TargetsFit(q, f, o, o.ind)
    BY <1>1, <1>2, SameTargets DEF BlkFits
  <2>3. BlkFits(q, f, o, o)
    BY <1>2, <1>6, <1>7, <2>2 DEF BlkFits
  <2>4. o \in Sources(q, f)
    BY <1>1, <1>2 DEF Sources
  <2> QED BY <1>4, <2>1, <2>3, <2>4 DEF q
<1> QED BY <1>8, <1>9

(* The pass on the program.                                                *)
LEMMA SingleTargetKeeps ==
  ASSUME input \in Programs, NEW new,
         new = [f \in Functions |->
                  [i \in DOMAIN input.subs[f] |-> ReplaceSingleTargetCall(input.subs[f][i])]]
  PROVE  ProgramInv("ReorderFnBlocks", new)
<1> DEFINE p == "SingleTargetIndirectCalls"
           q == "ReorderFnBlocks"
<1>1. /\ ~Patched(q) /\ ~EmptyGone(q) /\ ~Inlined(q) /\ ~StubsGone(q) /\ ~Marked(q)
      /\ ~Reordered(q)
  BY DEF Patched, EmptyGone, Inlined, StubsGone, Marked, Reordered
<1>2. ProgramInv(p, input.subs) /\ FunctionsAt(p) = Functions /\ FunctionsAt(q) = Functions
  BY InitCorrect DEF FunctionsAt, EmptyGone, StubsGone, Inlined
<1> HIDE DEF p, q
<1>3. ASSUME NEW f \in Functions
      PROVE  Layout(q, f, new[f]) /\ Content(q, f, new[f])
  <2>1. PICK old : old = input.subs[f]
    OBVIOUS
  <2>2. new[f] = [i \in DOMAIN old |-> ReplaceSingleTargetCall(old[i])]
    BY <1>3, <2>1
  <2>3. PICK blocks : blocks = new[f]
    OBVIOUS
  <2>4. /\ blocks = [i \in DOMAIN old |-> blocks[i]]
        /\ \A i \in DOMAIN old : blocks[i] = ReplaceSingleTargetCall(old[i])
        /\ DOMAIN blocks = DOMAIN old
    BY <2>2, <2>3
  <2>5. \A i \in DOMAIN old :
          /\ old[i] \in Sources(q, f)
          /\ BlkFits(q, f, old[i], blocks[i])
          /\ blocks[i].tid = old[i].tid
    <3> SUFFICES ASSUME NEW i \in DOMAIN old
                 PROVE  /\ old[i] \in Sources(q, f)
                        /\ BlkFits(q, f, old[i], blocks[i])
                        /\ blocks[i].tid = old[i].tid
      OBVIOUS
    <3>1. PICK o : o = input.subs[f][i]
      OBVIOUS
    <3>2. i \in DOMAIN input.subs[f] /\ o = old[i] /\ blocks[i] = ReplaceSingleTargetCall(o)
      BY <2>1, <2>4, <3>1
    <3>3. /\ o \in Sources(q, f)
          /\ BlkFits(q, f, o, ReplaceSingleTargetCall(o))
          /\ ReplaceSingleTargetCall(o).tid = o.tid
      BY <1>3, <3>1, <3>2, SingleTargetFits DEF q
    <3> QED BY <3>2, <3>3
  <2>6. Layout(p, f, old)
    BY <1>2, <1>3, <2>1 DEF ProgramInv
  <2>7. Layout(q, f, blocks)
    BY <1>1, <2>4, <2>5, <2>6, SameLayout
  <2>8. Content(q, f, blocks)
    BY <2>4, <2>5 DEF Content
  <2> QED BY <2>3, <2>7, <2>8
<1>4. ProgramInv(q, new)
  BY <1>1, <1>2, <1>3 DEF ProgramInv
<1> QED BY <1>4 DEF q

(* ReplaceStubCall on a jump.                                              *)
LEMMA StubJmp ==
  ASSUME NEW f, NEW o, NEW k, NEW j, JmpFits("ReplaceCallsToExtFns", f, o, k, j)
  PROVE  /\ JmpFits("Inlining", f, o, k, ReplaceStubCall(j))
         /\ ReplaceStubCall(j).kind = j.kind
<1> DEFINE p == "ReplaceCallsToExtFns"
           q == "Inlining"
<1>1. /\ ~Patched(p) /\ ~EmptyGone(p) /\ ~Inlined(p) /\ ~StubsGone(p) /\ ~Marked(p)
      /\ ~Patched(q) /\ ~EmptyGone(q) /\ ~Inlined(q) /\ StubsGone(q) /\ ~Marked(q)
  BY DEF Patched, EmptyGone, Inlined, StubsGone, Marked
<1> HIDE DEF p, q
<1>2. JmpFits(p, f, o, k, j)
  BY DEF p
<1>3. PICK t : t = Called(o, k)
  OBVIOUS
<1>4. CalledAt(p, t) = t /\ CalledAt(q, t) = (IF t \in DOMAIN input.stubs THEN input.stubs[t] ELSE t)
  BY <1>1 DEF CalledAt, WithoutStub
<1>5. j = [kind |-> j.kind, target |-> j.target, return |-> j.return]
  BY <1>2 DEF JmpFits
<1>6. PICK i : i = ReplaceStubCall(j)
  OBVIOUS
<1>7. /\ i = [kind |-> i.kind, target |-> i.target, return |-> i.return]
      /\ i.kind = j.kind /\ i.return = j.return
      /\ i.kind # "Call" => i.target = j.target
      /\ i.kind = "Call" => i.target = (IF j.target \in DOMAIN input.stubs
                                        THEN input.stubs[j.target] ELSE j.target)
  BY <1>5, <1>6 DEF ReplaceStubCall
<1>8. IntraTarget(i) = IntraTarget(j)
  BY <1>7 DEF IntraTarget, IsBranch
<1>9. \A u : LeadsAt(p, f, u) = u /\ LeadsAt(q, f, u) = u
  BY <1>1 DEF LeadsAt
<1>10. JmpFits(q, f, o, k, i)
  BY <1>1, <1>2, <1>3, <1>4, <1>7, <1>8, <1>9 DEF JmpFits
<1> QED BY <1>6, <1>7, <1>10 DEF q

(* The pass on a block.                                                    *)
LEMMA StubFits ==
  ASSUME input \in Programs, NEW f \in Functions,
         NEW o \in Sources("ReplaceCallsToExtFns", f), NEW b,
         BlkFits("ReplaceCallsToExtFns", f, o, b),
         NEW c, c = [b EXCEPT !.jmps = [k \in DOMAIN b.jmps |-> ReplaceStubCall(b.jmps[k])]]
  PROVE  /\ o \in Sources("Inlining", f)
         /\ BlkFits("Inlining", f, o, c)
         /\ c.tid = b.tid
<1> DEFINE p == "ReplaceCallsToExtFns"
           q == "Inlining"
<1>1. ~Patched(p) /\ ~Inlined(p) /\ ~Patched(q) /\ ~Inlined(q)
  BY DEF Patched, Inlined
<1> HIDE DEF p, q
<1>2. BlkFits(p, f, o, b)
  BY DEF p
<1>3. b = [tid |-> b.tid, jmps |-> b.jmps, ind |-> b.ind] /\ b.tid = Moved(f, o.tid)
  BY <1>2 DEF BlkFits
<1>4. /\ c = [tid |-> c.tid, jmps |-> c.jmps, ind |-> c.ind]
      /\ c.tid = b.tid /\ c.ind = b.ind
      /\ c.jmps = [k \in DOMAIN b.jmps |-> ReplaceStubCall(b.jmps[k])]
  BY <1>3
<1>5. c.jmps = [k \in DOMAIN b.jmps |-> c.jmps[k]]
  BY <1>4
<1>6. ASSUME NEW k \in DOMAIN b.jmps
      PROVE  JmpFits(q, f, o, k, c.jmps[k]) /\ c.jmps[k].kind = b.jmps[k].kind
  <2>1. JmpFits(p, f, o, k, b.jmps[k])
    BY <1>2, <1>6 DEF BlkFits
  <2>2. c.jmps[k] = ReplaceStubCall(b.jmps[k])
    BY <1>4, <1>6
  <2> QED BY <2>1, <2>2, StubJmp DEF p, q
<1>7. TargetsFit(q, f, o, c.ind)
  BY <1>1, <1>2, <1>4, SameTargets DEF BlkFits
<1>8. o \in Originals /\ o \in Sources(q, f)
  BY <1>1 DEF Sources, p
<1>9. BlkFits(q, f, o, c)
  BY <1>2, <1>3, <1>4, <1>5, <1>6, <1>7, <1>8, Rewritten
<1> QED BY <1>4, <1>8, <1>9 DEF q

StubAll(blocks) ==
  [i \in DOMAIN blocks |->
     [blocks[i] EXCEPT
        !.jmps = [k \in DOMAIN blocks[i].jmps |-> ReplaceStubCall(blocks[i].jmps[k])]]]

(* The pass on the program.                                                *)
LEMMA StubsKeeps ==
  ASSUME input \in Programs, NEW s, ProgramInv("ReplaceCallsToExtFns", s), NEW new,
         DOMAIN new = DOMAIN s \ DOMAIN input.stubs,
         \A f \in DOMAIN new : new[f] = StubAll(s[f])
  PROVE  ProgramInv("Inlining", new)
<1> DEFINE p == "ReplaceCallsToExtFns"
           q == "Inlining"
<1>1. /\ ~Patched(p) /\ ~Inlined(p) /\ ~Marked(p) /\ Reordered(p) /\ ~EmptyGone(p) /\ ~StubsGone(p)
      /\ ~Patched(q) /\ ~Inlined(q) /\ ~Marked(q) /\ Reordered(q) /\ ~EmptyGone(q) /\ StubsGone(q)
  BY DEF Patched, Inlined, Marked, Reordered, StubsGone, EmptyGone
<1> HIDE DEF p, q
<1>2. ProgramInv(p, s)
  BY DEF p
<1>3. FunctionsAt(p) = Functions /\ FunctionsAt(q) = Functions \ DOMAIN input.stubs
  BY <1>1 DEF FunctionsAt
<1>4. DOMAIN s = Functions /\ DOMAIN new = FunctionsAt(q)
  BY <1>1, <1>2, <1>3 DEF ProgramInv
<1>5. ASSUME NEW f \in FunctionsAt(q)
      PROVE  Layout(q, f, new[f]) /\ Content(q, f, new[f])
  <2>1. PICK old, blocks : old = s[f] /\ blocks = new[f]
    OBVIOUS
  <2>2. blocks = [i \in DOMAIN old |->
                    [old[i] EXCEPT
                       !.jmps = [k \in DOMAIN old[i].jmps |-> ReplaceStubCall(old[i].jmps[k])]]]
    BY <1>3, <1>4, <1>5, <2>1 DEF StubAll
  <2>3. /\ blocks = [i \in DOMAIN old |-> blocks[i]]
        /\ DOMAIN blocks = DOMAIN old
    BY <2>2
  <2>4. f \in Functions /\ Layout(p, f, old) /\ Content(p, f, old)
    BY <1>2, <1>3, <1>5, <2>1 DEF ProgramInv
  <2>5. Added(p, f) = {}
    BY <1>1 DEF Added
  <2>6. ASSUME NEW i \in DOMAIN old
        PROVE  /\ blocks[i].tid = old[i].tid
               /\ \E o \in Sources(q, f) : BlkFits(q, f, o, blocks[i])
    <3>1. PICK b, c : b = old[i] /\ c = blocks[i]
      OBVIOUS
    <3>2. c = [b EXCEPT !.jmps = [k \in DOMAIN b.jmps |-> ReplaceStubCall(b.jmps[k])]]
      BY <2>2, <2>6, <3>1
    <3>3. PICK o \in Sources(p, f) : BlkFits(p, f, o, b)
      BY <2>4, <2>5, <2>6, <3>1 DEF Content
    <3>4. o \in Sources(q, f) /\ BlkFits(q, f, o, c) /\ c.tid = b.tid
      BY <2>4, <3>2, <3>3, StubFits DEF p, q
    <3> QED BY <3>1, <3>4
  <2>7. Layout(q, f, blocks)
    BY <1>1, <2>3, <2>4, <2>6, SameLayout
  <2>8. Content(q, f, blocks)
    BY <2>3, <2>6 DEF Content
  <2> QED BY <2>1, <2>7, <2>8
<1>6. ProgramInv(q, new)
  BY <1>1, <1>4, <1>5 DEF ProgramInv
<1> QED BY <1>6 DEF q

-----------------------------------------------------------------------------
(* ReorderFnBlocks.                                                        *)

(* The block at the address of the function is found.                      *)
LEMMA StartFound ==
  ASSUME NEW f, f # SinkFn, NEW S, NEW blocks \in Seq(S), NEW m \in 1 .. Len(blocks),
         \A i \in 1 .. Len(blocks) : blocks[i].tid = <<f>> <=> i = m
  PROVE  SelectInSeq(blocks, LAMBDA b : is_fn_start_blk(f, b.tid)) = m
<1> DEFINE I == {i \in 1 .. Len(blocks) : is_fn_start_blk(f, blocks[i].tid)}
<1>1. I = {m}
  BY DEF is_fn_start_blk
<1>2. m \in Int
  OBVIOUS
<1>3. Min({m}) = m
  BY <1>2 DEF Min
<1>4. SelectInSeq(blocks, LAMBDA b : is_fn_start_blk(f, b.tid)) = IF I # {} THEN Min(I) ELSE 0
  BY DEF SelectInSeq
<1> HIDE DEF I
<1> QED BY <1>1, <1>3, <1>4

(* What SwapToFront returns.                                               *)
LEMMA SwapFacts ==
  ASSUME NEW S, NEW blocks \in Seq(S), NEW m \in 1 .. Len(blocks),
         NEW new, new = SwapToFront(blocks, m)
  PROVE  /\ new = [i \in 1 .. Len(blocks) |-> new[i]]
         /\ \A i \in 1 .. Len(blocks) :
              new[i] = blocks[IF i = 1 THEN m ELSE IF i = m THEN 1 ELSE i]
<1>1. PICK n \in Nat : n = Len(blocks) /\ DOMAIN blocks = 1 .. n
  OBVIOUS
<1>2. 1 \in 1 .. n /\ m \in 1 .. n
  BY <1>1
<1>3. PICK u : u = [i \in 1 .. n |-> IF i = 1 THEN blocks[m] ELSE blocks[i]]
  OBVIOUS
<1>4. [blocks EXCEPT ![1] = blocks[m]] = u
  BY <1>1, <1>3
<1>5. new = [u EXCEPT ![m] = blocks[1]]
  BY <1>4 DEF SwapToFront
<1>6. new = [i \in 1 .. n |-> IF i = m THEN blocks[1] ELSE u[i]]
  BY <1>3, <1>5
<1>7. ASSUME NEW i \in 1 .. n
      PROVE  new[i] = blocks[IF i = 1 THEN m ELSE IF i = m THEN 1 ELSE i]
  <2>1. CASE i = m
    BY <1>6, <2>1
  <2>2. CASE i # m
    BY <1>3, <1>6, <2>2
  <2> QED BY <2>1, <2>2
<1>8. new = [i \in 1 .. n |-> new[i]]
  BY <1>6
<1> QED BY <1>1, <1>7, <1>8

(* The pass on a function.                                                 *)
LEMMA SwapLayout ==
  ASSUME input \in Programs, NEW f \in Functions, NEW blocks, blocks # <<>>,
         Layout("ReorderFnBlocks", f, blocks), Content("ReorderFnBlocks", f, blocks),
         NEW m \in 1 .. Len(blocks), blocks[m].tid = <<f>>,
         NEW new, new = SwapToFront(blocks, m)
  PROVE  Layout("ReplaceCallsToExtFns", f, new) /\ Content("ReplaceCallsToExtFns", f, new)
<1> DEFINE p == "ReorderFnBlocks"
           q == "ReplaceCallsToExtFns"
           Pi(i) == IF i = 1 THEN m ELSE IF i = m THEN 1 ELSE i
<1>1. /\ ~Patched(p) /\ ~Inlined(p) /\ ~Marked(p) /\ ~EmptyGone(p) /\ ~StubsGone(p)
      /\ ~Patched(q) /\ ~Inlined(q) /\ ~Marked(q) /\ Reordered(q) /\ ~EmptyGone(q) /\ ~StubsGone(q)
  BY DEF Patched, Inlined, Marked, Reordered, StubsGone, EmptyGone
<1> HIDE DEF p, q
<1>2. Layout(p, f, blocks) /\ Content(p, f, blocks)
  BY DEF p
<1>3. blocks \in Seq(Range(blocks))
  BY <1>2 DEF Layout
<1>4. PICK n \in Nat : n = Len(blocks) /\ DOMAIN blocks = 1 .. n /\ n # 0
  BY <1>3
<1>5. new = [i \in 1 .. n |-> new[i]] /\ \A i \in 1 .. n : new[i] = blocks[Pi(i)]
  BY <1>3, <1>4, SwapFacts
<1>6. \A i \in 1 .. n : Pi(i) \in 1 .. n
  BY <1>4
<1>7. \A i, k \in 1 .. n : Pi(i) = Pi(k) => i = k
  BY <1>4
<1>8. \A i \in 1 .. n : Pi(Pi(i)) = i
  BY <1>4
<1>9. Pi(1) = m
  OBVIOUS
<1> HIDE DEF Pi
<1>10. new \in Seq(Range(new)) /\ Len(new) = n /\ DOMAIN new = 1 .. n
  BY <1>5, MappedSeq
<1>11. new # <<>>
  BY <1>4, <1>10
<1>12. \A i, k \in DOMAIN new : new[i].tid = new[k].tid => i = k
  <2>1. \A i, k \in 1 .. n : blocks[i].tid = blocks[k].tid => i = k
    BY <1>2, <1>4 DEF Layout
  <2> SUFFICES ASSUME NEW i \in 1 .. n, NEW k \in 1 .. n, new[i].tid = new[k].tid
               PROVE  i = k
    BY <1>10
  <2>2. Pi(i) = Pi(k)
    BY <1>5, <1>6, <2>1
  <2> QED BY <1>7, <2>2
<1>13. BlkTids(new) = BlkTids(blocks)
  <2>1. \A i \in 1 .. n : \E k \in 1 .. n : new[i].tid = blocks[k].tid
    BY <1>5, <1>6
  <2>2. \A i \in 1 .. n : \E k \in 1 .. n : blocks[i].tid = new[k].tid
    BY <1>5, <1>6, <1>8
  <2>3. /\ BlkTids(new) = {new[i].tid : i \in 1 .. n}
        /\ BlkTids(blocks) = {blocks[i].tid : i \in 1 .. n}
    BY <1>4, <1>10 DEF BlkTids
  <2>4. ASSUME NEW x \in BlkTids(new) PROVE x \in BlkTids(blocks)
    <3>1. PICK i \in 1 .. n : x = new[i].tid
      BY <2>3, <2>4
    <3> QED BY <2>1, <2>3, <3>1
  <2>5. ASSUME NEW x \in BlkTids(blocks) PROVE x \in BlkTids(new)
    <3>1. PICK i \in 1 .. n : x = blocks[i].tid
      BY <2>3, <2>5
    <3> QED BY <2>2, <2>3, <3>1
  <2> QED BY <2>4, <2>5
<1>14. new[1].tid = <<f>>
  BY <1>4, <1>5, <1>9
<1>15. input.subs[f] # <<>> /\ Own(f) \subseteq BlkTids(new)
  BY <1>2, <1>13 DEF Layout
<1>16. Layout(q, f, new)
  BY <1>1, <1>10, <1>11, <1>12, <1>14, <1>15 DEF Layout
<1>17. \A o, k, j : JmpFits(p, f, o, k, j) => JmpFits(q, f, o, k, j)
  BY <1>1 DEF JmpFits, CalledAt, WithoutStub, LeadsAt
<1>18. \A o, b : BlkFits(p, f, o, b) => BlkFits(q, f, o, b)
  BY <1>1, <1>17, SameTargets DEF BlkFits
<1>19. Added(p, f) = {} /\ Sources(p, f) = Sources(q, f)
  BY <1>1 DEF Added, Sources
<1>20. \A i \in 1 .. n : \E o \in Sources(q, f) : BlkFits(q, f, o, blocks[i])
  BY <1>2, <1>4, <1>18, <1>19 DEF Content
<1>21. Content(q, f, new)
  BY <1>5, <1>6, <1>10, <1>20 DEF Content
<1> QED BY <1>16, <1>21 DEF q

StartFirst(f, blocks) ==
  IF blocks = <<>> THEN <<>>
  ELSE SwapToFront(blocks, SelectInSeq(blocks, LAMBDA b : is_fn_start_blk(f, b.tid)))

(* The pass on the program.                                                *)
LEMMA ReorderKeeps ==
  ASSUME input \in Programs, NEW s, ProgramInv("ReorderFnBlocks", s), NEW new,
         DOMAIN new = DOMAIN s,
         \A f \in DOMAIN s : new[f] = StartFirst(f, s[f])
  PROVE  ProgramInv("ReplaceCallsToExtFns", new)
<1> DEFINE p == "ReorderFnBlocks"
           q == "ReplaceCallsToExtFns"
<1>1. /\ ~EmptyGone(p) /\ ~StubsGone(p) /\ ~Inlined(p) /\ ~Marked(p) /\ ~Patched(p)
      /\ ~EmptyGone(q) /\ ~StubsGone(q) /\ ~Inlined(q) /\ ~Marked(q) /\ ~Patched(q)
  BY DEF Patched, Inlined, Marked, StubsGone, EmptyGone
<1> HIDE DEF p, q
<1>2. ProgramInv(p, s)
  BY DEF p
<1>3. FunctionsAt(p) = Functions /\ FunctionsAt(q) = Functions
  BY <1>1 DEF FunctionsAt
<1>4. DOMAIN s = Functions
  BY <1>1, <1>2, <1>3 DEF ProgramInv
<1>5. ASSUME NEW f \in Functions
      PROVE  Layout(q, f, new[f]) /\ Content(q, f, new[f])
  <2>1. PICK old : old = s[f]
    OBVIOUS
  <2>2. Layout(p, f, old) /\ Content(p, f, old)
    BY <1>2, <1>3, <1>5, <2>1 DEF ProgramInv
  <2>3. CASE old = <<>>
    <3>1. new[f] = old
      BY <1>4, <1>5, <2>1, <2>3 DEF StartFirst
    <3>2. DOMAIN old = {} /\ old = [i \in DOMAIN old |-> old[i]]
      BY <2>3
    <3>3. Content(q, f, old)
      BY <3>2 DEF Content
    <3>4. input.subs[f] = <<>> /\ Own(f) \subseteq BlkTids(old)
      BY <2>2, <2>3 DEF Layout
    <3>5. old \in Seq(Range(old))
      BY <2>2 DEF Layout
    <3>6. Layout(q, f, old)
      BY <1>1, <2>3, <3>2, <3>4, <3>5 DEF Layout
    <3> QED BY <3>1, <3>3, <3>6
  <2>4. CASE old # <<>>
    <3>1. old \in Seq(Range(old)) /\ DOMAIN old = 1 .. Len(old)
      BY <2>2 DEF Layout
    <3>2. <<f>> \in Own(f) /\ f # SinkFn
      BY <1>5, <2>2, <2>4, ProgramFacts DEF Layout
    <3>3. <<f>> \in BlkTids(old)
      BY <2>2, <3>2 DEF Layout
    <3>4. PICK m \in 1 .. Len(old) : old[m].tid = <<f>>
      BY <3>1, <3>3 DEF BlkTids
    <3>5. \A i \in 1 .. Len(old) : old[i].tid = <<f>> <=> i = m
      BY <2>2, <3>1, <3>4 DEF Layout
    <3>6. SelectInSeq(old, LAMBDA b : is_fn_start_blk(f, b.tid)) = m
      BY <3>1, <3>2, <3>5, StartFound
    <3>7. new[f] = SwapToFront(old, m)
      BY <1>4, <1>5, <2>1, <2>4, <3>6 DEF StartFirst
    <3> QED BY <1>5, <2>2, <2>4, <3>4, <3>7, SwapLayout DEF p, q
  <2> QED BY <2>3, <2>4
<1>6. ProgramInv(q, new)
  BY <1>1, <1>3, <1>4, <1>5 DEF ProgramInv
<1> QED BY <1>6 DEF q

-----------------------------------------------------------------------------
(* NoreturnExtFunctions.                                                   *)

WithLast(blocks, b) == Append(blocks, b)

(* A new artificial block at the end of a function.                        *)
LEMMA AppendLayout ==
  ASSUME NEW p, NEW q, input \in Programs, NEW f \in Functions, NEW blocks,
         Layout(p, f, blocks), blocks # <<>>,
         NEW b, b.tid \in {ReturnTid(f), SinkTid(f)}, b.tid \notin BlkTids(blocks),
         Reordered(q) => Reordered(p), Inlined(q) => Inlined(p),
         Marked(q) => Marked(p) \/ b.tid = ReturnTid(f),
         Patched(q) => b.tid = SinkTid(f)
  PROVE  /\ Layout(q, f, WithLast(blocks, b))
         /\ BlkTids(WithLast(blocks, b)) = BlkTids(blocks) \cup {b.tid}
         /\ \A i \in DOMAIN WithLast(blocks, b) :
              \/ WithLast(blocks, b)[i] = b
              \/ \E k \in DOMAIN blocks : WithLast(blocks, b)[i] = blocks[k]
<1>0. PICK new : new = Append(blocks, b)
  OBVIOUS
<1>1. blocks \in Seq(Range(blocks))
  BY DEF Layout
<1>2. PICK n \in Nat : n = Len(blocks) /\ DOMAIN blocks = 1 .. n /\ n # 0
  BY <1>1
<1> DEFINE All == Range(blocks) \cup {b}
<1>3. blocks \in Seq(All) /\ b \in All
  <2>1. \A i \in 1 .. Len(blocks) : blocks[i] \in All
    BY <1>1
  <2> QED BY <1>1, <2>1
<1>4. new \in Seq(All)
  BY <1>0, <1>3, AppendFacts
<1>5. Len(new) = n + 1
  BY <1>0, <1>2, <1>3, AppendFacts
<1>6. \A i \in 1 .. n : new[i] = blocks[i]
  BY <1>0, <1>2, <1>3, AppendFacts
<1>7. new[n + 1] = b
  BY <1>0, <1>2, <1>3, AppendFacts
<1> HIDE DEF All
<1>8. DOMAIN new = 1 .. n + 1 /\ new # <<>> /\ new \in Seq(Range(new))
  <2>1. new \in Seq(Range(new))
    BY <1>4, SeqMapped
  <2>2. DOMAIN new = 1 .. Len(new) /\ (new = <<>> <=> Len(new) = 0)
    BY <1>4, SeqMapped
  <2> QED BY <1>5, <2>1, <2>2
<1>9. \A i \in 1 .. n + 1 : i = n + 1 \/ i \in 1 .. n
  OBVIOUS
<1>10. BlkTids(new) = BlkTids(blocks) \cup {b.tid}
  <2>1. /\ BlkTids(new) = {new[i].tid : i \in 1 .. n + 1}
        /\ BlkTids(blocks) = {blocks[i].tid : i \in 1 .. n}
    BY <1>2, <1>8 DEF BlkTids
  <2>2. ASSUME NEW x \in BlkTids(new) PROVE x \in BlkTids(blocks) \cup {b.tid}
    <3>1. PICK i \in 1 .. n + 1 : x = new[i].tid
      BY <2>1, <2>2
    <3> QED BY <1>6, <1>7, <1>9, <2>1, <3>1
  <2>3. ASSUME NEW x \in BlkTids(blocks) PROVE x \in BlkTids(new)
    <3>1. PICK i \in 1 .. n : x = blocks[i].tid
      BY <2>1, <2>3
    <3>2. i \in 1 .. n + 1
      OBVIOUS
    <3>3. x = new[i].tid
      BY <1>6, <3>1
    <3> QED BY <2>1, <3>2, <3>3
  <2>4. b.tid \in BlkTids(new)
    <3>1. n + 1 \in 1 .. n + 1
      OBVIOUS
    <3> QED BY <1>7, <2>1, <3>1
  <2> QED BY <2>2, <2>3, <2>4
<1>11. \A i, k \in DOMAIN new : new[i].tid = new[k].tid => i = k
  <2>1. \A i, k \in 1 .. n : blocks[i].tid = blocks[k].tid => i = k
    BY <1>2 DEF Layout
  <2>2. \A i \in 1 .. n : blocks[i].tid # b.tid
    BY <1>2 DEF BlkTids
  <2> QED BY <1>6, <1>7, <1>8, <1>9, <2>1, <2>2
<1>12. \A t \in Tids : Moved(f, t) # b.tid
  BY MovedFacts
<1>13. Inlined(q) =>
         \A o \in Originals :
           Moved(f, o.tid) \in BlkTids(new) =>
             \A t \in JumpTargets(o) \cap KeptTids : Moved(f, t) \in BlkTids(new)
  <2> SUFFICES ASSUME Inlined(q), NEW o \in Originals, Moved(f, o.tid) \in BlkTids(new),
                      NEW t \in JumpTargets(o) \cap KeptTids
               PROVE  Moved(f, t) \in BlkTids(new)
    OBVIOUS
  <2>1. Moved(f, o.tid) \in BlkTids(blocks)
    BY <1>10, <1>12, OwnFacts
  <2>2. Moved(f, t) \in BlkTids(blocks)
    BY <2>1 DEF Layout
  <2> QED BY <1>10, <2>2
<1>14. new[1] = blocks[1] /\ 1 \in 1 .. n
  BY <1>2, <1>6
<1>15. /\ Own(f) \subseteq BlkTids(blocks)
       /\ input.subs[f] # <<>>
       /\ Reordered(p) => blocks[1].tid = <<f>>
       /\ Marked(p) => ReturnTid(f) \in BlkTids(blocks)
  BY DEF Layout
<1>16. Layout(q, f, new)
  <2>1. /\ Own(f) \subseteq BlkTids(new)
        /\ input.subs[f] = <<>> <=> new = <<>>
        /\ Reordered(q) /\ new # <<>> => new[1].tid = <<f>>
        /\ Marked(q) /\ new # <<>> => ReturnTid(f) \in BlkTids(new)
        /\ Patched(q) => SinkTid(f) \in BlkTids(new)
    BY <1>8, <1>10, <1>14, <1>15
  <2> QED BY <1>8, <1>11, <1>13, <2>1 DEF Layout
<1>17. \A i \in DOMAIN new : new[i] = b \/ \E k \in DOMAIN blocks : new[i] = blocks[k]
  BY <1>2, <1>6, <1>7, <1>8, <1>9
<1> QED BY <1>0, <1>10, <1>16, <1>17 DEF WithLast

(* The jump of an artificial block does not change.                        *)
LEMMA SelfLoopKept ==
  ASSUME NEW t, NEW v, v = [k \in DOMAIN SelfLoop(t).jmps |-> v[k]], v[1] = Branch(t)
  PROVE  [SelfLoop(t) EXCEPT !.jmps = v] = SelfLoop(t)
<1>1. SelfLoop(t).jmps = <<Branch(t)>>
  BY DEF SelfLoop
<1>2. v = <<Branch(t)>>
  <2>1. v = [k \in {1} |-> v[k]]
    BY SelfLoopFacts
  <2>2. 1 .. 1 = {1}
    OBVIOUS
  <2>3. v = [k \in 1 .. 1 |-> v[k]] /\ 1 \in Nat
    BY <2>1, <2>2
  <2>4. v \in Seq(Range(v)) /\ Len(v) = 1
    BY <2>3, MappedSeq
  <2> QED BY <2>4
<1> QED BY <1>2 DEF SelfLoop

(* The blocks and jumps of a function in this pass.                        *)
WithReturnTarget(f, blocks) ==
  IF blocks = <<>> THEN <<>> ELSE add_artifical_return_target(f, blocks)
MarkBlk(f, b) ==
  [b EXCEPT !.jmps = [k \in DOMAIN b.jmps |-> MarkNoreturnCall(f, b.jmps[k])]]

(* MarkNoreturnCall on a jump.                                             *)
LEMMA MarkJmp ==
  ASSUME NEW f, NEW o, NEW k, NEW j, JmpFits("NoreturnExtFunctions", f, o, k, j)
  PROVE  /\ JmpFits("RemoveEmptyFunctions", f, o, k, MarkNoreturnCall(f, j))
         /\ MarkNoreturnCall(f, j).kind = j.kind
<1> DEFINE p == "NoreturnExtFunctions"
           q == "RemoveEmptyFunctions"
<1>1. /\ ~Patched(p) /\ ~EmptyGone(p) /\ Inlined(p) /\ StubsGone(p) /\ ~Marked(p)
      /\ ~Patched(q) /\ ~EmptyGone(q) /\ Inlined(q) /\ StubsGone(q) /\ Marked(q)
  BY DEF Patched, EmptyGone, Inlined, StubsGone, Marked
<1> HIDE DEF p, q
<1>2. JmpFits(p, f, o, k, j)
  BY DEF p
<1>3. \A t : CalledAt(p, t) = CalledAt(q, t) /\ LeadsAt(p, f, t) = LeadsAt(q, f, t)
  BY <1>1 DEF CalledAt, WithoutStub, LeadsAt
<1>4. PICK i : i = MarkNoreturnCall(f, j)
  OBVIOUS
<1>5. j = [kind |-> j.kind, target |-> j.target, return |-> j.return]
  BY <1>2 DEF JmpFits
<1>6. CASE j.kind = "Call" /\ j.target \in input.noreturn
  <2>1. /\ i = [kind |-> i.kind, target |-> i.target, return |-> i.return]
        /\ i.kind = "Call" /\ i.target = j.target /\ i.return = ReturnTid(f)
    BY <1>4, <1>5, <1>6 DEF MarkNoreturnCall, artificial_return_target_for_fn, ReturnTid
  <2>2. NeverReturns(i)
    BY <1>6, <2>1 DEF NeverReturns
  <2>3. JmpFits(q, f, o, k, i)
    BY <1>1, <1>2, <1>3, <1>6, <2>1, <2>2 DEF JmpFits
  <2> QED BY <1>4, <1>6, <2>1, <2>3 DEF q
<1>7. CASE ~(j.kind = "Call" /\ j.target \in input.noreturn)
  <2>1. i = j
    BY <1>4, <1>7 DEF MarkNoreturnCall
  <2>2. JmpFits(q, f, o, k, j)
    BY <1>1, <1>2, <1>3 DEF JmpFits
  <2> QED BY <1>4, <2>1, <2>2 DEF q
<1> QED BY <1>6, <1>7

(* The pass on a block.                                                    *)
LEMMA MarkFits ==
  ASSUME input \in Programs, NEW f \in Functions,
         NEW o \in Sources("NoreturnExtFunctions", f), NEW b,
         BlkFits("NoreturnExtFunctions", f, o, b),
         NEW c, c = MarkBlk(f, b)
  PROVE  /\ o \in Sources("RemoveEmptyFunctions", f)
         /\ BlkFits("RemoveEmptyFunctions", f, o, c)
         /\ c.tid = b.tid
<1> DEFINE p == "NoreturnExtFunctions"
           q == "RemoveEmptyFunctions"
<1>1. ~Patched(p) /\ Inlined(p) /\ ~Patched(q) /\ Inlined(q)
  BY DEF Patched, Inlined
<1> HIDE DEF p, q
<1>2. BlkFits(p, f, o, b)
  BY DEF p
<1>3. b = [tid |-> b.tid, jmps |-> b.jmps, ind |-> b.ind] /\ b.tid = Moved(f, o.tid)
  BY <1>2 DEF BlkFits
<1>4. /\ c = [tid |-> c.tid, jmps |-> c.jmps, ind |-> c.ind]
      /\ c.tid = b.tid /\ c.ind = b.ind
      /\ c.jmps = [k \in DOMAIN b.jmps |-> MarkNoreturnCall(f, b.jmps[k])]
  BY <1>3 DEF MarkBlk
<1>5. c.jmps = [k \in DOMAIN b.jmps |-> c.jmps[k]]
  BY <1>4
<1>6. ASSUME NEW k \in DOMAIN b.jmps
      PROVE  JmpFits(q, f, o, k, c.jmps[k]) /\ c.jmps[k].kind = b.jmps[k].kind
  <2>1. JmpFits(p, f, o, k, b.jmps[k])
    BY <1>2, <1>6 DEF BlkFits
  <2>2. c.jmps[k] = MarkNoreturnCall(f, b.jmps[k])
    BY <1>4, <1>6
  <2> QED BY <2>1, <2>2, MarkJmp DEF p, q
<1>7. TargetsFit(q, f, o, c.ind)
  BY <1>1, <1>2, <1>4, SameTargets DEF BlkFits
<1>8. o \in Originals /\ o \in Sources(q, f)
  BY <1>1 DEF Sources, p
<1>9. BlkFits(q, f, o, c)
  BY <1>2, <1>3, <1>4, <1>5, <1>6, <1>7, <1>8, Rewritten
<1> QED BY <1>4, <1>8, <1>9 DEF q

(* The new block.                                                          *)
LEMMA ReturnTargetAdded ==
  ASSUME input \in Programs, NEW f \in Functions, NEW old,
         Layout("NoreturnExtFunctions", f, old), Content("NoreturnExtFunctions", f, old),
         NEW mid, mid = WithReturnTarget(f, old)
  PROVE  /\ Layout("RemoveEmptyFunctions", f, mid)
         /\ \A i \in DOMAIN mid :
              mid[i] = SelfLoop(ReturnTid(f)) \/ \E k \in DOMAIN old : mid[i] = old[k]
<1> DEFINE p == "NoreturnExtFunctions"
           q == "RemoveEmptyFunctions"
<1>1. /\ ~Patched(p) /\ Inlined(p) /\ ~Marked(p) /\ Reordered(p)
      /\ ~Patched(q) /\ Inlined(q) /\ Marked(q) /\ Reordered(q)
  BY DEF Patched, Inlined, Marked, Reordered, StubsGone
<1> HIDE DEF p, q
<1>2. Layout(p, f, old) /\ Content(p, f, old)
  BY DEF p
<1>3. CASE old = <<>>
  <2>1. mid = old /\ DOMAIN mid = {} /\ mid = [i \in DOMAIN old |-> mid[i]]
    BY <1>3 DEF WithReturnTarget
  <2>2. \A i \in DOMAIN old : mid[i].tid = old[i].tid
    BY <2>1
  <2>3. /\ Reordered(q) => Reordered(p)
        /\ Inlined(q) => Inlined(p)
        /\ Marked(q) => Marked(p) \/ old = <<>>
        /\ Patched(q) => Patched(p)
    BY <1>1, <1>3
  <2>4. Layout(q, f, mid)
    BY <1>2, <2>1, <2>2, <2>3, SameLayout
  <2> QED BY <2>1, <2>4 DEF q
<1>4. CASE old # <<>>
  <2>1. PICK b : b = SelfLoop(ReturnTid(f))
    OBVIOUS
  <2>2. b.tid = ReturnTid(f)
    BY <2>1, SelfLoopFacts
  <2>3. b.tid \notin BlkTids(old)
    <3>1. BlkTids(old) \subseteq {Moved(f, o.tid) : o \in Sources(p, f)}
      BY <1>1, <1>2, ContentTids DEF TidsAt
    <3>2. \A o \in Sources(p, f) : Moved(f, o.tid) # ReturnTid(f)
      BY <1>2, OwnFacts, MovedFacts DEF Sources
    <3> QED BY <2>2, <3>1, <3>2
  <2>4. mid = WithLast(old, b)
    BY <1>4, <2>1 DEF WithReturnTarget, add_artifical_return_target,
                      artificial_return_target_for_fn, ReturnTid, WithLast
  <2>5. /\ b.tid \in {ReturnTid(f), SinkTid(f)}
        /\ Reordered(q) => Reordered(p)
        /\ Inlined(q) => Inlined(p)
        /\ Marked(q) => Marked(p) \/ b.tid = ReturnTid(f)
        /\ Patched(q) => b.tid = SinkTid(f)
    BY <1>1, <2>2
  <2>6. /\ Layout(q, f, mid)
        /\ \A i \in DOMAIN mid : mid[i] = b \/ \E k \in DOMAIN old : mid[i] = old[k]
    BY <1>2, <1>4, <2>3, <2>4, <2>5, AppendLayout
  <2> QED BY <2>1, <2>6 DEF q
<1> QED BY <1>3, <1>4

(* The same for all blocks of a function, with the new one.               *)
LEMMA MarkBlocks ==
  ASSUME input \in Programs, NEW f \in Functions, NEW old,
         Layout("NoreturnExtFunctions", f, old), Content("NoreturnExtFunctions", f, old),
         NEW mid, mid = WithReturnTarget(f, old),
         NEW blocks, blocks = [i \in DOMAIN mid |-> blocks[i]],
         \A i \in DOMAIN mid : blocks[i] = MarkBlk(f, mid[i])
  PROVE  Layout("RemoveEmptyFunctions", f, blocks) /\ Content("RemoveEmptyFunctions", f, blocks)
<1> DEFINE p == "NoreturnExtFunctions"
           q == "RemoveEmptyFunctions"
<1>1. /\ ~Patched(p) /\ Inlined(p) /\ ~Marked(p) /\ Reordered(p)
      /\ ~Patched(q) /\ Inlined(q) /\ Marked(q) /\ Reordered(q)
  BY DEF Patched, Inlined, Marked, Reordered, StubsGone
<1> HIDE DEF p, q
<1>2. /\ blocks = [i \in DOMAIN mid |-> blocks[i]]
      /\ DOMAIN blocks = DOMAIN mid
  OBVIOUS
<1>3. Layout(p, f, old) /\ Content(p, f, old)
  BY DEF p
<1>4. Added(p, f) = {} /\ Added(q, f) = {SelfLoop(ReturnTid(f))}
  BY <1>1 DEF Added
<1>5. /\ Layout(q, f, mid)
      /\ \A i \in DOMAIN mid :
           mid[i] = SelfLoop(ReturnTid(f)) \/ \E k \in DOMAIN old : mid[i] = old[k]
  BY <1>3, ReturnTargetAdded DEF p, q
<1>6. ASSUME NEW i \in DOMAIN mid
      PROVE  /\ blocks[i].tid = mid[i].tid
             /\ \/ blocks[i] \in Added(q, f)
                \/ \E o \in Sources(q, f) : BlkFits(q, f, o, blocks[i])
  <2>1. PICK b, c : b = mid[i] /\ c = blocks[i]
    OBVIOUS
  <2>2. c = MarkBlk(f, b)
    BY <1>6, <2>1
  <2>3. CASE b = SelfLoop(ReturnTid(f))
    <3>1. PICK v : v = [k \in DOMAIN b.jmps |-> MarkNoreturnCall(f, b.jmps[k])]
      OBVIOUS
    <3>2. v[1] = Branch(ReturnTid(f))
      BY <2>3, <3>1, SelfLoopFacts DEF MarkNoreturnCall
    <3>3. v = [k \in DOMAIN SelfLoop(ReturnTid(f)).jmps |-> v[k]]
      BY <2>3, <3>1
    <3>4. c = b
      BY <2>2, <2>3, <3>1, <3>2, <3>3, SelfLoopKept DEF MarkBlk
    <3> QED BY <1>4, <2>1, <2>3, <3>4
  <2>4. CASE \E k \in DOMAIN old : b = old[k]
    <3>1. PICK o \in Sources(p, f) : BlkFits(p, f, o, b)
      BY <1>3, <1>4, <2>4 DEF Content
    <3>2. o \in Sources(q, f) /\ BlkFits(q, f, o, c) /\ c.tid = b.tid
      BY <1>3, <2>2, <3>1, MarkFits DEF p, q
    <3> QED BY <2>1, <3>2
  <2> QED BY <1>5, <1>6, <2>1, <2>3, <2>4
<1>7. Layout(q, f, blocks)
  <2>1. \A i \in DOMAIN mid : blocks[i].tid = mid[i].tid
    BY <1>6
  <2> QED BY <1>2, <1>5, <2>1, SameLayout
<1>8. Content(q, f, blocks)
  BY <1>2, <1>6 DEF Content
<1> QED BY <1>7, <1>8 DEF q

MarkAll(f, blocks) == [i \in DOMAIN blocks |-> MarkBlk(f, blocks[i])]

(* The pass on the program.                                                *)
LEMMA MarkKeeps ==
  ASSUME input \in Programs, NEW s, ProgramInv("NoreturnExtFunctions", s),
         NEW added, \A f \in DOMAIN s : added[f] = WithReturnTarget(f, s[f]),
         NEW new, DOMAIN new = DOMAIN s,
         \A f \in DOMAIN s : new[f] = MarkAll(f, added[f])
  PROVE  ProgramInv("RemoveEmptyFunctions", new)
<1> DEFINE p == "NoreturnExtFunctions"
           q == "RemoveEmptyFunctions"
<1>1. /\ ~EmptyGone(p) /\ StubsGone(p)
      /\ ~EmptyGone(q) /\ StubsGone(q)
  BY DEF Inlined, StubsGone, EmptyGone
<1> HIDE DEF p, q
<1>2. ProgramInv(p, s)
  BY DEF p
<1>3. FunctionsAt(p) = FunctionsAt(q) /\ FunctionsAt(p) \subseteq Functions
  BY <1>1 DEF FunctionsAt
<1>4. DOMAIN s = FunctionsAt(q)
  BY <1>1, <1>2, <1>3 DEF ProgramInv
<1>5. ASSUME NEW f \in FunctionsAt(q)
      PROVE  Layout(q, f, new[f]) /\ Content(q, f, new[f])
  <2>1. PICK old, mid, blocks : old = s[f] /\ mid = added[f] /\ blocks = new[f]
    OBVIOUS
  <2>2. mid = WithReturnTarget(f, old)
    BY <1>4, <1>5, <2>1
  <2>3. blocks = [i \in DOMAIN mid |-> MarkBlk(f, mid[i])]
    BY <1>4, <1>5, <2>1 DEF MarkAll
  <2>4. f \in Functions /\ Layout(p, f, old) /\ Content(p, f, old)
    BY <1>2, <1>3, <1>5, <2>1 DEF ProgramInv
  <2>5. /\ blocks = [i \in DOMAIN mid |-> blocks[i]]
        /\ \A i \in DOMAIN mid : blocks[i] = MarkBlk(f, mid[i])
    BY <2>3
  <2>6. Layout(q, f, blocks) /\ Content(q, f, blocks)
    BY <2>2, <2>4, <2>5, MarkBlocks DEF p, q
  <2> QED BY <2>1, <2>6
<1>6. ProgramInv(q, new)
  BY <1>1, <1>4, <1>5 DEF ProgramInv
<1> QED BY <1>6 DEF q

-----------------------------------------------------------------------------
(* RemoveEmptyFunctions.                                                   *)

EmptyBlk(f, empty, b) ==
  [b EXCEPT !.jmps = [k \in DOMAIN b.jmps |-> RewriteEmptyCall(f, empty, b.jmps[k])]]

(* RewriteEmptyCall on a jump.                                             *)
LEMMA EmptyJmp ==
  ASSUME NEW f, NEW o, NEW k, NEW j, JmpFits("RemoveEmptyFunctions", f, o, k, j)
  PROVE  /\ JmpFits("PatchCf", f, o, k, RewriteEmptyCall(f, EmptyFns, j))
         /\ RewriteEmptyCall(f, EmptyFns, j).kind = j.kind
<1> DEFINE p == "RemoveEmptyFunctions"
           q == "PatchCf"
<1>1. /\ ~Patched(p) /\ ~EmptyGone(p) /\ Inlined(p) /\ StubsGone(p) /\ Marked(p)
      /\ ~Patched(q) /\ EmptyGone(q) /\ Inlined(q) /\ StubsGone(q) /\ Marked(q)
  BY DEF Patched, EmptyGone, Inlined, StubsGone, Marked
<1> HIDE DEF p, q
<1>2. JmpFits(p, f, o, k, j)
  BY DEF p
<1>3. \A t : /\ LeadsAt(p, f, t) = LeadsAt(q, f, t)
             /\ CalledAt(q, t) = IF CalledAt(p, t) \in EmptyFns THEN SinkFn ELSE CalledAt(p, t)
  BY <1>1 DEF CalledAt, WithoutStub, LeadsAt
<1>4. PICK i : i = RewriteEmptyCall(f, EmptyFns, j)
  OBVIOUS
<1>5. CASE j.kind = "Call" /\ j.target \in EmptyFns
  <2>1. /\ i = [kind |-> i.kind, target |-> i.target, return |-> i.return]
        /\ i.kind = "Call" /\ i.target = SinkFn /\ i.return = ReturnTid(f)
    BY <1>4, <1>5 DEF RewriteEmptyCall, Call, artificial_return_target_for_fn, ReturnTid
  <2>2. NeverReturns(i)
    BY <2>1 DEF NeverReturns
  <2>3. j.target = CalledAt(p, Called(o, k))
    BY <1>2, <1>5 DEF JmpFits
  <2>4. JmpFits(q, f, o, k, i)
    BY <1>1, <1>2, <1>3, <1>5, <2>1, <2>2, <2>3 DEF JmpFits
  <2> QED BY <1>4, <1>5, <2>1, <2>4 DEF q
<1>6. CASE ~(j.kind = "Call" /\ j.target \in EmptyFns)
  <2>1. i = j
    BY <1>4, <1>6 DEF RewriteEmptyCall
  <2>2. JmpFits(q, f, o, k, j)
    BY <1>1, <1>2, <1>3, <1>6 DEF JmpFits
  <2> QED BY <1>4, <2>1, <2>2 DEF q
<1> QED BY <1>5, <1>6

(* The pass on a block.                                                    *)
LEMMA EmptyFits ==
  ASSUME input \in Programs, NEW f \in Functions,
         NEW o \in Sources("RemoveEmptyFunctions", f), NEW b,
         BlkFits("RemoveEmptyFunctions", f, o, b),
         NEW c, c = EmptyBlk(f, EmptyFns, b)
  PROVE  /\ o \in Sources("PatchCf", f)
         /\ BlkFits("PatchCf", f, o, c)
         /\ c.tid = b.tid
<1> DEFINE p == "RemoveEmptyFunctions"
           q == "PatchCf"
<1>1. ~Patched(p) /\ Inlined(p) /\ ~Patched(q) /\ Inlined(q)
  BY DEF Patched, Inlined
<1> HIDE DEF p, q
<1>2. BlkFits(p, f, o, b)
  BY DEF p
<1>3. b = [tid |-> b.tid, jmps |-> b.jmps, ind |-> b.ind] /\ b.tid = Moved(f, o.tid)
  BY <1>2 DEF BlkFits
<1>4. /\ c = [tid |-> c.tid, jmps |-> c.jmps, ind |-> c.ind]
      /\ c.tid = b.tid /\ c.ind = b.ind
      /\ c.jmps = [k \in DOMAIN b.jmps |-> RewriteEmptyCall(f, EmptyFns, b.jmps[k])]
  BY <1>3 DEF EmptyBlk
<1>5. c.jmps = [k \in DOMAIN b.jmps |-> c.jmps[k]]
  BY <1>4
<1>6. ASSUME NEW k \in DOMAIN b.jmps
      PROVE  JmpFits(q, f, o, k, c.jmps[k]) /\ c.jmps[k].kind = b.jmps[k].kind
  <2>1. JmpFits(p, f, o, k, b.jmps[k])
    BY <1>2, <1>6 DEF BlkFits
  <2>2. c.jmps[k] = RewriteEmptyCall(f, EmptyFns, b.jmps[k])
    BY <1>4, <1>6
  <2> QED BY <2>1, <2>2, EmptyJmp DEF p, q
<1>7. TargetsFit(q, f, o, c.ind)
  BY <1>1, <1>2, <1>4, SameTargets DEF BlkFits
<1>8. o \in Originals /\ o \in Sources(q, f)
  BY <1>1 DEF Sources, p
<1>9. BlkFits(q, f, o, c)
  BY <1>2, <1>3, <1>4, <1>5, <1>6, <1>7, <1>8, Rewritten
<1> QED BY <1>4, <1>8, <1>9 DEF q

(* Artificial blocks are not changed.                                      *)
LEMMA EmptyLoop ==
  ASSUME NEW f, NEW empty, NEW t
  PROVE  EmptyBlk(f, empty, SelfLoop(t)) = SelfLoop(t)
<1>1. PICK b : b = SelfLoop(t)
  OBVIOUS
<1>2. PICK v : v = [k \in DOMAIN b.jmps |-> RewriteEmptyCall(f, empty, b.jmps[k])]
  OBVIOUS
<1>3. v[1] = Branch(t)
  BY <1>1, <1>2, SelfLoopFacts DEF RewriteEmptyCall
<1>4. v = [k \in DOMAIN SelfLoop(t).jmps |-> v[k]]
  BY <1>1, <1>2
<1>5. [SelfLoop(t) EXCEPT !.jmps = v] = SelfLoop(t)
  BY <1>3, <1>4, SelfLoopKept
<1> QED BY <1>1, <1>2, <1>5 DEF EmptyBlk

(* The pass on a function.                                                 *)
LEMMA EmptyBlocks ==
  ASSUME input \in Programs, NEW f \in Functions, NEW old,
         Layout("RemoveEmptyFunctions", f, old), Content("RemoveEmptyFunctions", f, old),
         NEW blocks, blocks = [i \in DOMAIN old |-> blocks[i]],
         \A i \in DOMAIN old : blocks[i] = EmptyBlk(f, EmptyFns, old[i])
  PROVE  Layout("PatchCf", f, blocks) /\ Content("PatchCf", f, blocks)
<1> DEFINE p == "RemoveEmptyFunctions"
           q == "PatchCf"
<1>1. /\ ~Patched(p) /\ Inlined(p) /\ Marked(p) /\ Reordered(p)
      /\ ~Patched(q) /\ Inlined(q) /\ Marked(q) /\ Reordered(q)
  BY DEF Patched, Inlined, Marked, Reordered, StubsGone
<1> HIDE DEF p, q
<1>2. /\ blocks = [i \in DOMAIN old |-> blocks[i]]
      /\ DOMAIN blocks = DOMAIN old
  OBVIOUS
<1>3. Layout(p, f, old) /\ Content(p, f, old)
  BY DEF p
<1>4. Added(p, f) = Added(q, f)
  BY <1>1 DEF Added
<1>5. ASSUME NEW i \in DOMAIN old
      PROVE  /\ blocks[i].tid = old[i].tid
             /\ \/ blocks[i] \in Added(q, f)
                \/ \E o \in Sources(q, f) : BlkFits(q, f, o, blocks[i])
  <2>1. PICK b, c : b = old[i] /\ c = blocks[i]
    OBVIOUS
  <2>2. c = EmptyBlk(f, EmptyFns, b)
    BY <1>5, <2>1
  <2>3. CASE b \in Added(p, f)
    <3>1. PICK t : b = SelfLoop(t)
      BY <2>3 DEF Added
    <3>2. c = b
      BY <2>2, <3>1, EmptyLoop
    <3> QED BY <1>4, <2>1, <2>3, <3>2
  <2>4. CASE \E o \in Sources(p, f) : BlkFits(p, f, o, b)
    <3>1. PICK o \in Sources(p, f) : BlkFits(p, f, o, b)
      BY <2>4
    <3>2. o \in Sources(q, f) /\ BlkFits(q, f, o, c) /\ c.tid = b.tid
      BY <2>2, <3>1, EmptyFits DEF p, q
    <3> QED BY <2>1, <3>2
  <2> QED BY <1>3, <1>5, <2>1, <2>3, <2>4 DEF Content
<1>6. Layout(q, f, blocks)
  <2>1. \A i \in DOMAIN old : blocks[i].tid = old[i].tid
    BY <1>5
  <2> QED BY <1>1, <1>2, <1>3, <2>1, SameLayout
<1>7. Content(q, f, blocks)
  BY <1>2, <1>5 DEF Content
<1> QED BY <1>6, <1>7 DEF q

EmptyAll(f, empty, blocks) == [i \in DOMAIN blocks |-> EmptyBlk(f, empty, blocks[i])]
EmptyIn(s) == {f \in DOMAIN s : s[f] = <<>>}
WithSinkFn(s, f) == IF f = SinkFn THEN <<SelfLoop(<<SinkBlock>>)>> ELSE s[f]

(* The pass on the program.                                                *)
LEMMA EmptyKeeps ==
  ASSUME input \in Programs, NEW s, ProgramInv("RemoveEmptyFunctions", s),
         NEW empty, empty = EmptyIn(s),
         NEW kept, DOMAIN kept = (DOMAIN s \ empty) \cup {SinkFn},
         \A f \in DOMAIN kept : kept[f] = WithSinkFn(s, f),
         NEW new, DOMAIN new = DOMAIN kept,
         \A f \in DOMAIN kept : new[f] = EmptyAll(f, empty, kept[f])
  PROVE  ProgramInv("PatchCf", new)
<1> DEFINE p == "RemoveEmptyFunctions"
           q == "PatchCf"
<1>1. /\ ~EmptyGone(p) /\ StubsGone(p)
      /\ EmptyGone(q) /\ StubsGone(q)
  BY DEF Inlined, StubsGone, EmptyGone
<1> HIDE DEF p, q
<1>2. ProgramInv(p, s)
  BY DEF p
<1>3. /\ FunctionsAt(p) = Functions \ DOMAIN input.stubs
      /\ FunctionsAt(q) = FunctionsAt(p) \ EmptyFns
      /\ FunctionsAt(p) \subseteq Functions
  BY <1>1 DEF FunctionsAt
<1>4. DOMAIN s = FunctionsAt(p)
  BY <1>1, <1>2 DEF ProgramInv
<1>5. empty = EmptyFns
  BY <1>2, <1>3, <1>4 DEF ProgramInv, Layout, EmptyFns, EmptyIn
<1>6. DOMAIN new = FunctionsAt(q) \cup {SinkFn}
  BY <1>3, <1>4, <1>5
<1>7. new[SinkFn] = <<SelfLoop(<<SinkBlock>>)>>
  <2>1. PICK b : b = SelfLoop(<<SinkBlock>>)
    OBVIOUS
  <2>2. kept[SinkFn] = <<b>> /\ DOMAIN <<b>> = {1} /\ <<b>>[1] = b
    BY <2>1 DEF WithSinkFn
  <2>3. EmptyBlk(SinkFn, empty, b) = b
    BY <2>1, EmptyLoop
  <2>4. SinkFn \in DOMAIN kept
    OBVIOUS
  <2>5. PICK v, u : v = new[SinkFn] /\ u = kept[SinkFn]
    OBVIOUS
  <2>6. v = [i \in DOMAIN u |-> EmptyBlk(SinkFn, empty, u[i])]
    BY <2>4, <2>5 DEF EmptyAll
  <2>7. v = [i \in 1 .. 1 |-> v[i]] /\ v[1] = b /\ 1 \in Nat
    <3>1. DOMAIN u = {1} /\ u[1] = b /\ 1 .. 1 = {1}
      BY <2>2, <2>5
    <3> QED BY <2>3, <2>6, <3>1
  <2>8. v \in Seq(Range(v)) /\ Len(v) = 1
    BY <2>7, MappedSeq
  <2>9. v = <<b>>
    BY <2>7, <2>8
  <2> QED BY <2>1, <2>5, <2>9
<1>8. ASSUME NEW f \in FunctionsAt(q)
      PROVE  Layout(q, f, new[f]) /\ Content(q, f, new[f])
  <2>1. PICK old, blocks : old = s[f] /\ blocks = new[f]
    OBVIOUS
  <2>2. f \in FunctionsAt(p) /\ f \in Functions /\ f # SinkFn /\ f \in DOMAIN kept
    BY <1>3, <1>4, <1>5, <1>8, ProgramFacts
  <2>3. kept[f] = old
    BY <2>1, <2>2 DEF WithSinkFn
  <2>4. blocks = [i \in DOMAIN old |-> EmptyBlk(f, EmptyFns, old[i])]
    BY <1>5, <2>1, <2>2, <2>3 DEF EmptyAll
  <2>5. Layout(p, f, old) /\ Content(p, f, old)
    BY <1>2, <2>1, <2>2 DEF ProgramInv
  <2>6. /\ blocks = [i \in DOMAIN old |-> blocks[i]]
        /\ \A i \in DOMAIN old : blocks[i] = EmptyBlk(f, EmptyFns, old[i])
    BY <2>4
  <2>7. Layout(q, f, blocks) /\ Content(q, f, blocks)
    BY <2>2, <2>5, <2>6, EmptyBlocks DEF p, q
  <2> QED BY <2>1, <2>7
<1>9. ProgramInv(q, new)
  BY <1>1, <1>6, <1>7, <1>8 DEF ProgramInv
<1> QED BY <1>9 DEF q

-----------------------------------------------------------------------------
(* PatchCf.  The program with the artificial sinks is s here.              *)

(* The functions of the program in this pass.                              *)
AllFunctions(s) == DOMAIN s = FunctionsAt("PatchCf") \cup {SinkFn}

(* Blocks of f exist for all kept blocks that are referred to and for no   *)
(* others.                                                                 *)
Complete(f, tids) ==
  /\ \A t \in Tids : Moved(f, t) \in tids => t \in KeptTids
  /\ \A o \in Originals :
       Moved(f, o.tid) \in tids => \A t \in JumpTargets(o) \cap KeptTids : Moved(f, t) \in tids
  /\ ReturnTid(f) \in tids /\ SinkTid(f) \in tids

(* A call is patched iff the function it should call is the artificial one. *)
LEMMA WildCalls ==
  ASSUME input \in Programs, NEW fns,
         fns = FunctionsAt("PatchCf") \cup {SinkFn} \cup input.extern_symbols, NEW t
  PROVE  ResolvedCall(t) = IF CalledAt("PatchCf", t) \in fns THEN CalledAt("PatchCf", t) ELSE SinkFn
<1> DEFINE p == "PatchCf"
<1>1. ~Patched(p) /\ EmptyGone(p) /\ StubsGone(p)
  BY DEF Patched, EmptyGone, StubsGone, Inlined
<1> HIDE DEF p
<1>2. FunctionsAt(p) = (Functions \ DOMAIN input.stubs) \ EmptyFns
  BY <1>1 DEF FunctionsAt
<1>3. CalledAt(p, t) = IF WithoutStub(p, t) \in EmptyFns THEN SinkFn ELSE WithoutStub(p, t)
  BY <1>1 DEF CalledAt
<1>4. WithoutStub(p, t) = IF t \in DOMAIN input.stubs THEN input.stubs[t] ELSE t
  BY <1>1 DEF WithoutStub
<1>5. /\ SinkFn \notin Functions /\ SinkFn \notin input.extern_symbols
      /\ input.extern_symbols \cap Functions = {}
      /\ DOMAIN input.stubs \subseteq Functions
      /\ \A f \in DOMAIN input.stubs : input.stubs[f] \in input.extern_symbols
  BY ProgramFacts, PrefixAssumption
<1>6. EmptyFns = {f \in Functions \ DOMAIN input.stubs : input.subs[f] = <<>>}
  BY DEF EmptyFns
<1>7. fns = FunctionsAt(p) \cup {SinkFn} \cup input.extern_symbols
  BY DEF p
<1>8. CASE t \in DOMAIN input.stubs
  <2>1. CalledAt(p, t) = input.stubs[t] /\ input.stubs[t] \in fns
    BY <1>3, <1>4, <1>5, <1>6, <1>7, <1>8
  <2> QED BY <1>8, <2>1 DEF ResolvedCall, p
<1>9. CASE t \notin DOMAIN input.stubs /\ t \in input.extern_symbols
  <2>1. CalledAt(p, t) = t /\ t \in fns
    BY <1>3, <1>4, <1>5, <1>6, <1>7, <1>9
  <2> QED BY <1>9, <2>1 DEF ResolvedCall, p
<1>10. CASE t \notin DOMAIN input.stubs /\ t \in Functions /\ input.subs[t] # <<>>
  <2>1. CalledAt(p, t) = t /\ t \in fns
    BY <1>2, <1>3, <1>4, <1>6, <1>7, <1>10
  <2> QED BY <1>5, <1>10, <2>1 DEF ResolvedCall, p, Functions
<1>11. CASE t \notin DOMAIN input.stubs /\ t \in Functions /\ input.subs[t] = <<>>
  <2>1. CalledAt(p, t) = SinkFn
    BY <1>3, <1>4, <1>6, <1>11
  <2> QED BY <1>5, <1>11, <2>1 DEF ResolvedCall, p, Functions
<1>12. CASE t \notin DOMAIN input.stubs /\ t \notin Functions /\ t \notin input.extern_symbols
  <2>1. CalledAt(p, t) = t /\ (t \in fns => t = SinkFn)
    BY <1>2, <1>3, <1>4, <1>6, <1>7, <1>12
  <2> QED BY <1>12, <2>1 DEF ResolvedCall, p, Functions
<1> QED BY <1>8, <1>9, <1>10, <1>11, <1>12

(* What PatchJmp returns.                                                  *)
LEMMA PatchJmpFacts ==
  ASSUME NEW s, NEW f, NEW j, j = [kind |-> j.kind, target |-> j.target, return |-> j.return],
         NEW i, i = PatchJmp(s, f, j)
  PROVE  /\ i = [kind |-> i.kind, target |-> i.target, return |-> i.return]
         /\ i.kind = j.kind
         /\ IntraTarget(i) = IF WildTarget(s, f, j) THEN SinkTid(f) ELSE IntraTarget(j)
         /\ j.kind = "Call" => i.target = IF WildCall(s, j) THEN SinkFn ELSE j.target
<1>1. PICK u : u = IF WildTarget(s, f, j) THEN SetIntraTarget(j, SinkTid(f)) ELSE j
  OBVIOUS
<1>2. /\ u = [kind |-> u.kind, target |-> u.target, return |-> u.return]
      /\ u.kind = j.kind
      /\ j.kind = "Call" => u.target = j.target
      /\ IntraTarget(u) = IF WildTarget(s, f, j) THEN SinkTid(f) ELSE IntraTarget(j)
  <2>1. CASE WildTarget(s, f, j) /\ IsBranch(j)
    BY <1>1, <2>1 DEF SetIntraTarget, IntraTarget, IsBranch
  <2>2. CASE WildTarget(s, f, j) /\ ~IsBranch(j)
    BY <1>1, <2>2 DEF SetIntraTarget, IntraTarget, IsBranch
  <2>3. CASE ~WildTarget(s, f, j)
    BY <1>1, <2>3
  <2> QED BY <2>1, <2>2, <2>3
<1>3. i = IF WildCall(s, j) THEN [u EXCEPT !.target = SinkFn] ELSE u
  BY <1>1 DEF PatchJmp, artificial_sink_block_for_fn, SinkTid
<1>4. CASE WildCall(s, j)
  <2>1. j.kind = "Call"
    BY <1>4 DEF WildCall
  <2>2. /\ i = [kind |-> i.kind, target |-> i.target, return |-> i.return]
        /\ i.kind = u.kind /\ i.return = u.return /\ i.target = SinkFn
    BY <1>2, <1>3, <1>4
  <2>3. IntraTarget(i) = IntraTarget(u)
    BY <1>2, <2>1, <2>2 DEF IntraTarget, IsBranch
  <2> QED BY <1>2, <1>4, <2>1, <2>2, <2>3
<1>5. CASE ~WildCall(s, j)
  BY <1>2, <1>3, <1>5
<1> QED BY <1>4, <1>5

(* PatchJmp on a jump.                                                     *)
LEMMA PatchJmpFits ==
  ASSUME input \in Programs, NEW f \in Functions, NEW s,
         AllFunctions(s), Complete(f, BlkTids(s[f])),
         NEW o \in Originals, Moved(f, o.tid) \in BlkTids(s[f]),
         NEW k \in DOMAIN o.jmps, NEW j, JmpFits("PatchCf", f, o, k, j)
  PROVE  /\ JmpFits("EntryPoints", f, o, k, PatchJmp(s, f, j))
         /\ PatchJmp(s, f, j).kind = j.kind
<1> DEFINE p == "PatchCf"
           q == "EntryPoints"
           fns == FunctionsAt(p) \cup {SinkFn} \cup input.extern_symbols
<1>1. ~Patched(p) /\ Inlined(p) /\ Patched(q) /\ Inlined(q) /\ Marked(q)
  BY DEF Patched, Inlined, Marked
<1> HIDE DEF p, q
<1>2. JmpFits(p, f, o, k, j) /\ DOMAIN s \cup input.extern_symbols = fns
  BY DEF p, AllFunctions
<1>3. PICK i, u, t : i = PatchJmp(s, f, j) /\ u = IntraTarget(o.jmps[k]) /\ t = Called(o, k)
  OBVIOUS
<1>4. u \in Tids \cup {None} /\ u \in JumpTargets(o)
  <2>1. o.jmps \in Seq(Jmps)
    BY OriginalFacts, BlkFacts
  <2>2. o.jmps[k] \in Jmps
    BY <2>1
  <2> QED BY <1>3, <2>2, JmpFacts DEF JumpTargets
<1>5. /\ j = [kind |-> j.kind, target |-> j.target, return |-> j.return]
      /\ \/ j.kind = o.jmps[k].kind
         \/ j.kind = "Call" /\ o.jmps[k].kind = "CallInd"
      /\ j.kind = "Call" => j.target = CalledAt(p, t)
      /\ \/ j.kind = "Call" /\ j.return = ReturnTid(f) /\ NeverReturns(j)
         \/ u = None /\ IntraTarget(j) = None
         \/ u # None /\ IntraTarget(j) = LeadsAt(p, f, u)
  BY <1>2, <1>3 DEF JmpFits
<1>6. /\ i = [kind |-> i.kind, target |-> i.target, return |-> i.return]
      /\ i.kind = j.kind
      /\ IntraTarget(i) = IF WildTarget(s, f, j) THEN SinkTid(f) ELSE IntraTarget(j)
      /\ j.kind = "Call" => i.target = IF WildCall(s, j) THEN SinkFn ELSE j.target
  BY <1>3, <1>5, PatchJmpFacts
<1>7. j.kind = "Call" => i.target = CalledAt(q, t)
  <2> SUFFICES ASSUME j.kind = "Call" PROVE i.target = CalledAt(q, t)
    OBVIOUS
  <2>1. CalledAt(q, t) = ResolvedCall(t)
    BY <1>1 DEF CalledAt
  <2>2. WildCall(s, j) <=> CalledAt(p, t) \notin fns
    BY <1>2, <1>5 DEF WildCall
  <2>3. ResolvedCall(t) = IF CalledAt(p, t) \in fns THEN CalledAt(p, t) ELSE SinkFn
    BY WildCalls DEF p
  <2> QED BY <1>5, <1>6, <2>1, <2>2, <2>3
<1>8. CASE j.kind = "Call" /\ j.return = ReturnTid(f) /\ NeverReturns(j)
  <2>1. IntraTarget(j) = ReturnTid(f)
    BY <1>8 DEF IntraTarget, IsBranch
  <2>2. ~WildTarget(s, f, j)
    BY <2>1 DEF WildTarget, Complete
  <2>3. j.target \in fns
    BY <1>8, ProgramFacts DEF NeverReturns
  <2>4. ~WildCall(s, j)
    BY <1>2, <2>3 DEF WildCall
  <2>5. i.return = ReturnTid(f) /\ i.target = j.target
    BY <1>6, <1>8, <2>1, <2>2, <2>4 DEF IntraTarget, IsBranch
  <2>6. NeverReturns(i)
    BY <1>6, <1>8, <2>5 DEF NeverReturns
  <2>7. JmpFits(q, f, o, k, i)
    BY <1>1, <1>3, <1>5, <1>6, <1>7, <1>8, <2>5, <2>6 DEF JmpFits
  <2> QED BY <1>3, <1>6, <2>7 DEF q
<1>9. CASE u = None /\ IntraTarget(j) = None
  <2>1. ~WildTarget(s, f, j)
    BY <1>9 DEF WildTarget
  <2>2. JmpFits(q, f, o, k, i)
    BY <1>3, <1>5, <1>6, <1>7, <1>9, <2>1 DEF JmpFits
  <2> QED BY <1>3, <1>6, <2>2 DEF q
<1>10. CASE u # None /\ IntraTarget(j) = LeadsAt(p, f, u)
  <2>1. IntraTarget(j) = Moved(f, u) /\ u \in Tids
    BY <1>1, <1>4, <1>10 DEF LeadsAt
  <2>2. Moved(f, u) # None /\ (Moved(f, u) \in BlkTids(s[f]) <=> u \in KeptTids)
    BY <1>4, <2>1, MovedFacts DEF Complete
  <2>3. WildTarget(s, f, j) <=> u \notin KeptTids
    BY <2>1, <2>2 DEF WildTarget
  <2>4. IntraTarget(i) = LeadsAt(q, f, u)
    BY <1>1, <1>6, <2>1, <2>3 DEF LeadsAt
  <2>5. JmpFits(q, f, o, k, i)
    BY <1>3, <1>5, <1>6, <1>7, <1>10, <2>4 DEF JmpFits
  <2> QED BY <1>3, <1>6, <2>5 DEF q
<1> QED BY <1>5, <1>8, <1>9, <1>10

(* remove_nonexisting_indirect_cf_targets on the targets of a block.       *)
LEMMA PatchTargets ==
  ASSUME input \in Programs, NEW f \in Functions, NEW s, Complete(f, BlkTids(s[f])),
         NEW o \in Originals, Moved(f, o.tid) \in BlkTids(s[f]),
         NEW ind, TargetsFit("PatchCf", f, o, ind), NEW r,
         r = remove_nonexisting_indirect_cf_targets(s, f, ind)
  PROVE  /\ TargetsFit("EntryPoints", f, o, r)
         /\ ind = NoTargets <=> r = NoTargets
         /\ ind # NoTargets => r.kind = ind.kind
<1> DEFINE p == "PatchCf"
           q == "EntryPoints"
<1>1. ~Patched(p) /\ Inlined(p) /\ Patched(q) /\ Inlined(q)
  BY DEF Patched, Inlined
<1> HIDE DEF p, q
<1>2. TargetsFit(p, f, o, ind)
  BY DEF p
<1>3. CASE ind = NoTargets
  BY <1>3 DEF remove_nonexisting_indirect_cf_targets, TargetsFit
<1>4. CASE ind # NoTargets
  <2>1. PICK ts, us, existing :
          /\ ts = ind.targets /\ us = o.ind.targets
          /\ existing = IF ind.kind = "Jump" THEN BlkTids(s[f])
                        ELSE DOMAIN s \cup input.extern_symbols
    OBVIOUS
  <2>2. /\ ind = [kind |-> ind.kind, targets |-> ts]
        /\ o.ind # NoTargets /\ ind.kind = o.ind.kind
        /\ ind.kind = "Jump" =>
             /\ DOMAIN ts = DOMAIN us
             /\ \A n \in DOMAIN ts : ts[n] = Moved(f, us[n])
    BY <1>1, <1>2, <1>4, <2>1 DEF TargetsFit, KeptPositions, LeadsAt
  <2>3. /\ o.ind.kind \in {"Jump", "Call"}
        /\ o.ind.kind = "Jump" => us \in Seq(Tids)
    BY <2>1, <2>2, OriginalFacts, BlkFacts
  <2>4. PICK rs : rs = [x \in {n \in DOMAIN ts : ts[n] \in existing} |-> ts[x]]
    OBVIOUS
  <2>5. r = [ind EXCEPT !.targets = rs]
    BY <1>4, <2>1, <2>4 DEF remove_nonexisting_indirect_cf_targets, Restrict
  <2>6. r = [kind |-> r.kind, targets |-> r.targets] /\ r.kind = ind.kind /\ r.targets = rs
    BY <2>2, <2>5
  <2>7. r # NoTargets
    BY <2>2, <2>3, <2>6 DEF NoTargets
  <2>8. ASSUME ind.kind = "Jump"
        PROVE  /\ DOMAIN rs = KeptPositions(q, us)
               /\ \A n \in DOMAIN rs : rs[n] = LeadsAt(q, f, us[n])
    <3>1. /\ existing = BlkTids(s[f])
          /\ \A n \in DOMAIN us : us[n] \in Tids /\ us[n] \in Range(us)
      BY <2>1, <2>2, <2>3, <2>8 DEF Range
    <3>2. \A n \in DOMAIN us : us[n] \in JumpTargets(o)
      BY <2>1, <2>2, <2>8, <3>1 DEF JumpTargets
    <3>3. \A n \in DOMAIN us : Moved(f, us[n]) \in existing <=> us[n] \in KeptTids
      BY <3>1, <3>2 DEF Complete
    <3>4. DOMAIN rs = {n \in DOMAIN us : us[n] \in KeptTids}
      BY <2>2, <2>4, <2>8, <3>3
    <3>5. \A n \in DOMAIN rs : rs[n] = Moved(f, us[n])
      BY <2>2, <2>4, <2>8
    <3> QED BY <1>1, <3>4, <3>5 DEF KeptPositions, LeadsAt
  <2>9. TargetsFit(q, f, o, r)
    BY <2>1, <2>2, <2>6, <2>8 DEF TargetsFit
  <2> QED BY <1>4, <2>6, <2>7, <2>9 DEF q
<1> QED BY <1>3, <1>4

(* The pass on a block.                                                    *)
LEMMA PatchFits ==
  ASSUME input \in Programs, NEW f \in Functions, NEW s,
         AllFunctions(s), Complete(f, BlkTids(s[f])),
         NEW o \in Sources("PatchCf", f), NEW b, BlkFits("PatchCf", f, o, b),
         b.tid \in BlkTids(s[f]), NEW c, c = PatchBlk(s, f, b)
  PROVE  /\ o \in Sources("EntryPoints", f)
         /\ BlkFits("EntryPoints", f, o, c)
         /\ c.tid = b.tid
<1> DEFINE p == "PatchCf"
           q == "EntryPoints"
<1>1. ~Patched(p) /\ Inlined(p) /\ Patched(q) /\ Inlined(q)
  BY DEF Patched, Inlined
<1>2. o \in Originals /\ o \in Sources(q, f)
  BY <1>1 DEF Sources
<1>3. BlkFits(p, f, o, b) /\ o \in Sources(p, f)
  OBVIOUS
<1> HIDE DEF p, q
<1>4. /\ b = [tid |-> b.tid, jmps |-> b.jmps, ind |-> b.ind] /\ b.tid = Moved(f, o.tid)
      /\ TargetsFit(p, f, o, b.ind)
  BY <1>3 DEF BlkFits
<1>5. PICK r, v : /\ r = remove_nonexisting_indirect_cf_targets(s, f, b.ind)
                  /\ v = [k \in DOMAIN b.jmps |-> PatchJmp(s, f, b.jmps[k])]
  OBVIOUS
<1>6. c = [b EXCEPT !.jmps = v, !.ind = r]
  BY <1>5 DEF PatchBlk, MapJmps
<1>7. /\ c = [tid |-> c.tid, jmps |-> c.jmps, ind |-> c.ind]
      /\ c.tid = b.tid /\ c.ind = r /\ c.jmps = v
  BY <1>4, <1>6
<1>8. /\ TargetsFit(q, f, o, c.ind)
      /\ b.ind = NoTargets <=> c.ind = NoTargets
      /\ b.ind # NoTargets => c.ind.kind = b.ind.kind
  BY <1>2, <1>4, <1>5, <1>7, PatchTargets DEF p, q
<1>9. ASSUME NEW k \in DOMAIN b.jmps
      PROVE  JmpFits(q, f, o, k, c.jmps[k]) /\ c.jmps[k].kind = b.jmps[k].kind
  <2>1. k \in DOMAIN o.jmps /\ JmpFits(p, f, o, k, b.jmps[k])
    BY <1>3, <1>9, OriginalJmp
  <2>2. c.jmps[k] = PatchJmp(s, f, b.jmps[k])
    BY <1>5, <1>7, <1>9
  <2> QED BY <1>2, <1>4, <2>1, <2>2, PatchJmpFits DEF p, q
<1>10. c.jmps = [k \in DOMAIN b.jmps |-> c.jmps[k]]
  BY <1>5, <1>7
<1>11. BlkFits(q, f, o, c)
  <2>1. \A k \in DOMAIN b.jmps : JmpFits(q, f, o, k, c.jmps[k])
    BY <1>9
  <2>2. \A k \in DOMAIN b.jmps : c.jmps[k].kind = b.jmps[k].kind
    BY <1>9
  <2>3. c.tid = Moved(f, o.tid)
    BY <1>4, <1>7
  <2> QED BY <1>2, <1>3, <1>7, <1>8, <1>10, <2>1, <2>2, <2>3, Rewritten
<1> QED BY <1>2, <1>7, <1>11 DEF q

(* Artificial blocks are not changed.                                      *)
LEMMA PatchLoop ==
  ASSUME NEW s, NEW f, NEW t, t \in BlkTids(s[f]) \/ t = None
  PROVE  PatchBlk(s, f, SelfLoop(t)) = SelfLoop(t)
<1>1. PICK b, j : b = SelfLoop(t) /\ j = Branch(t)
  OBVIOUS
<1>2. PICK v : v = [k \in DOMAIN b.jmps |-> PatchJmp(s, f, b.jmps[k])]
  OBVIOUS
<1>3. /\ b.jmps[1] = j /\ 1 \in DOMAIN b.jmps /\ j.kind = "Branch" /\ IntraTarget(j) = t
      /\ b.ind = NoTargets
  BY <1>1, SelfLoopFacts
<1>4. PatchJmp(s, f, j) = j
  BY <1>3 DEF PatchJmp, WildTarget, WildCall
<1>5. v[1] = Branch(t)
  BY <1>1, <1>2, <1>3, <1>4
<1>6. v = [k \in DOMAIN SelfLoop(t).jmps |-> v[k]]
  BY <1>1, <1>2
<1>7. [SelfLoop(t) EXCEPT !.jmps = v] = SelfLoop(t)
  BY <1>5, <1>6, SelfLoopKept
<1>8. remove_nonexisting_indirect_cf_targets(s, f, b.ind) = NoTargets
  BY <1>3 DEF remove_nonexisting_indirect_cf_targets
<1>9. PatchBlk(s, f, b) = [b EXCEPT !.jmps = v, !.ind = NoTargets]
  BY <1>2, <1>8 DEF PatchBlk, MapJmps
<1> QED BY <1>1, <1>7, <1>9 DEF SelfLoop

WithSink(f, blocks) ==
  IF blocks = <<>> \/ f = SinkFn THEN blocks ELSE add_artifical_sink(f, blocks)

(* The new block.                                                          *)
LEMMA SinkAdded ==
  ASSUME input \in Programs, NEW f \in FunctionsAt("PatchCf"), NEW old,
         Layout("PatchCf", f, old), Content("PatchCf", f, old),
         NEW mid, mid = WithSink(f, old)
  PROVE  /\ Layout("EntryPoints", f, mid)
         /\ Complete(f, BlkTids(mid))
         /\ \A i \in DOMAIN mid :
              mid[i] = SelfLoop(SinkTid(f)) \/ \E k \in DOMAIN old : mid[i] = old[k]
<1> DEFINE p == "PatchCf"
           q == "EntryPoints"
<1>1. /\ ~Patched(p) /\ Inlined(p) /\ Marked(p) /\ Reordered(p) /\ EmptyGone(p)
      /\ Patched(q) /\ Inlined(q) /\ Marked(q) /\ Reordered(q)
  BY DEF Patched, Inlined, Marked, Reordered, StubsGone, EmptyGone
<1> HIDE DEF p, q
<1>2. Layout(p, f, old) /\ Content(p, f, old) /\ f \in FunctionsAt(p)
  BY DEF p
<1>3. /\ f \in Functions /\ f \notin DOMAIN input.stubs /\ f # SinkFn
      /\ old # <<>>
  BY <1>1, <1>2, ProgramFacts DEF FunctionsAt, EmptyFns, Layout
<1>4. PICK b : b = SelfLoop(SinkTid(f))
  OBVIOUS
<1>5. b.tid = SinkTid(f)
  BY <1>4, SelfLoopFacts
<1>6. \A t \in BlkTids(old) : t = ReturnTid(f) \/ \E o \in Sources(p, f) : t = Moved(f, o.tid)
  <2>1. BlkTids(old) \subseteq TidsAt(p, f)
    BY <1>2, ContentTids
  <2> QED BY <1>1, <2>1 DEF TidsAt
<1>7. b.tid \notin BlkTids(old)
  <2>1. \A o \in Sources(p, f) : Moved(f, o.tid) # SinkTid(f)
    BY <1>3, OwnFacts, MovedFacts DEF Sources
  <2>2. ReturnTid(f) # SinkTid(f)
    BY PrefixAssumption DEF ReturnTid, SinkTid
  <2> QED BY <1>5, <1>6, <2>1, <2>2
<1>8. mid = WithLast(old, b)
  <2>1. artificial_sink_block_for_fn(f) = SinkTid(f)
    BY DEF artificial_sink_block_for_fn, SinkTid
  <2> QED BY <1>3, <1>4, <1>5, <1>7, <2>1 DEF WithSink, add_artifical_sink, WithLast
<1>9. /\ b.tid \in {ReturnTid(f), SinkTid(f)}
      /\ Reordered(q) => Reordered(p)
      /\ Inlined(q) => Inlined(p)
      /\ Marked(q) => Marked(p) \/ b.tid = ReturnTid(f)
      /\ Patched(q) => b.tid = SinkTid(f)
  BY <1>1, <1>5
<1>10. /\ Layout(q, f, mid)
       /\ BlkTids(mid) = BlkTids(old) \cup {b.tid}
       /\ \A i \in DOMAIN mid : mid[i] = b \/ \E k \in DOMAIN old : mid[i] = old[k]
  <2>1. Layout(q, f, WithLast(old, b))
    BY <1>2, <1>3, <1>7, <1>9, AppendLayout
  <2>2. BlkTids(WithLast(old, b)) = BlkTids(old) \cup {b.tid}
    BY <1>2, <1>3, <1>7, <1>9, AppendLayout
  <2>3. \A i \in DOMAIN WithLast(old, b) :
          WithLast(old, b)[i] = b \/ \E k \in DOMAIN old : WithLast(old, b)[i] = old[k]
    BY <1>2, <1>3, <1>7, <1>9, AppendLayout
  <2> QED BY <1>8, <2>1, <2>2, <2>3
<1>11. mid # <<>>
  BY <1>3, <1>10 DEF Layout
<1>12. Complete(f, BlkTids(mid))
  <2>1. ASSUME NEW t \in Tids, Moved(f, t) \in BlkTids(mid)
        PROVE  t \in KeptTids
    <3>1. Moved(f, t) # ReturnTid(f) /\ Moved(f, t) # SinkTid(f)
      BY <1>3, MovedFacts
    <3>2. PICK o \in Sources(p, f) : Moved(f, t) = Moved(f, o.tid)
      BY <1>5, <1>6, <1>10, <2>1, <3>1
    <3>3. o.tid \in Tids /\ o.tid \in KeptTids
      BY <1>3, OwnFacts DEF Sources
    <3> QED BY <1>3, <3>2, <3>3, MovedFacts
  <2>2. /\ \A o \in Originals :
             Moved(f, o.tid) \in BlkTids(mid) =>
               \A t \in JumpTargets(o) \cap KeptTids : Moved(f, t) \in BlkTids(mid)
        /\ ReturnTid(f) \in BlkTids(mid) /\ SinkTid(f) \in BlkTids(mid)
    BY <1>1, <1>10, <1>11 DEF Layout
  <2> QED BY <2>1, <2>2 DEF Complete
<1> QED BY <1>4, <1>10, <1>12 DEF q

CopyOrAdded(p, f, b) ==
  b \in Added(p, f) \/ \E o \in Sources(p, f) : BlkFits(p, f, o, b)

(* The pass on a block, copied or artificial.                              *)
LEMMA PatchOne ==
  ASSUME input \in Programs, NEW f \in Functions, NEW s, AllFunctions(s),
         NEW tids, tids = BlkTids(s[f]), Complete(f, tids), NEW b, b.tid \in tids,
         b \in Added("EntryPoints", f) \/ CopyOrAdded("PatchCf", f, b),
         NEW c, c = PatchBlk(s, f, b)
  PROVE  c.tid = b.tid /\ CopyOrAdded("EntryPoints", f, c)
<1>1. CASE b \in Added("EntryPoints", f)
  <2>1. PICK t : b = SelfLoop(t) /\ t \in BlkTids(s[f])
    BY <1>1, SelfLoopFacts DEF Added
  <2>2. c = b
    BY <2>1, PatchLoop
  <2> QED BY <1>1, <2>2 DEF CopyOrAdded
<1>2. CASE \E o \in Sources("PatchCf", f) : BlkFits("PatchCf", f, o, b)
  BY <1>2, PatchFits DEF CopyOrAdded
<1>3. Added("PatchCf", f) \subseteq Added("EntryPoints", f)
  BY DEF Added, Marked, Patched
<1> QED BY <1>1, <1>2, <1>3 DEF CopyOrAdded

(* The pass on a function.                                                 *)
LEMMA PatchBlocks ==
  ASSUME input \in Programs, NEW f \in FunctionsAt("PatchCf"), NEW old,
         Layout("PatchCf", f, old), Content("PatchCf", f, old),
         NEW sinks, AllFunctions(sinks),
         NEW mid, mid = sinks[f], mid = WithSink(f, old),
         NEW blocks, blocks = [i \in DOMAIN mid |-> blocks[i]],
         \A i \in DOMAIN mid : blocks[i] = PatchBlk(sinks, f, mid[i])
  PROVE  Layout("EntryPoints", f, blocks) /\ Content("EntryPoints", f, blocks)
<1> DEFINE p == "PatchCf"
           q == "EntryPoints"
<1>1. ~Patched(p) /\ Marked(p) /\ Patched(q) /\ Marked(q)
  BY DEF Patched, Marked
<1>2. /\ blocks = [i \in DOMAIN mid |-> blocks[i]]
      /\ DOMAIN blocks = DOMAIN mid
  OBVIOUS
<1>3. f \in Functions /\ Content(p, f, old)
  BY DEF FunctionsAt
<1>4. Added(p, f) = {SelfLoop(ReturnTid(f))} /\ Added(q, f) = {SelfLoop(ReturnTid(f)), SelfLoop(SinkTid(f))}
  BY <1>1 DEF Added
<1>5. /\ Layout(q, f, mid) /\ Complete(f, BlkTids(mid))
      /\ \A i \in DOMAIN mid :
           mid[i] = SelfLoop(SinkTid(f)) \/ \E k \in DOMAIN old : mid[i] = old[k]
  BY SinkAdded
<1>6. ASSUME NEW i \in DOMAIN mid
      PROVE  /\ blocks[i].tid = mid[i].tid
             /\ \/ blocks[i] \in Added(q, f)
                \/ \E o \in Sources(q, f) : BlkFits(q, f, o, blocks[i])
  <2>1. PICK b, c : b = mid[i] /\ c = blocks[i]
    OBVIOUS
  <2>2. c = PatchBlk(sinks, f, b) /\ b.tid \in BlkTids(mid)
    BY <1>6, <2>1 DEF BlkTids
  <2>3. b \in Added(q, f) \/ \E o \in Sources(p, f) : BlkFits(p, f, o, b)
    BY <1>3, <1>4, <1>5, <1>6, <2>1 DEF Content
  <2>4. c.tid = b.tid /\ CopyOrAdded(q, f, c)
    <3>1. PICK tids : tids = BlkTids(mid)
      OBVIOUS
    <3>2. f \in Functions
      BY <1>3
    <3>3. Complete(f, tids) /\ b.tid \in tids
      BY <1>5, <2>2, <3>1
    <3>4. tids = BlkTids(sinks[f])
      BY <3>1
    <3>5. b \in Added("EntryPoints", f) \/ CopyOrAdded("PatchCf", f, b)
      BY <2>3 DEF CopyOrAdded
    <3>6. c = PatchBlk(sinks, f, b)
      BY <2>2
    <3>7. c.tid = b.tid /\ CopyOrAdded("EntryPoints", f, c)
      BY <3>2, <3>3, <3>4, <3>5, <3>6, PatchOne
    <3> QED BY <3>7
  <2> QED BY <2>1, <2>4 DEF CopyOrAdded
<1> HIDE DEF p, q
<1>7. Layout(q, f, blocks)
  <2>1. \A i \in DOMAIN mid : blocks[i].tid = mid[i].tid
    BY <1>6
  <2> QED BY <1>2, <1>5, <2>1, SameLayout
<1>8. Content(q, f, blocks)
  BY <1>2, <1>6 DEF Content
<1> QED BY <1>7, <1>8 DEF q

PatchAll(s, f, blocks) == [i \in DOMAIN blocks |-> PatchBlk(s, f, blocks[i])]

(* The pass on the program.                                                *)
LEMMA PatchKeeps ==
  ASSUME input \in Programs, NEW s, ProgramInv("PatchCf", s),
         NEW sinks, DOMAIN sinks = DOMAIN s, \A f \in DOMAIN s : sinks[f] = WithSink(f, s[f]),
         NEW new, DOMAIN new = DOMAIN s,
         \A f \in DOMAIN s : new[f] = PatchAll(sinks, f, sinks[f])
  PROVE  ProgramInv("EntryPoints", new)
<1> DEFINE p == "PatchCf"
           q == "EntryPoints"
<1>1. EmptyGone(p) /\ EmptyGone(q)
  BY DEF EmptyGone
<1> HIDE DEF p, q
<1>2. ProgramInv(p, s)
  BY DEF p
<1>3. FunctionsAt(p) = FunctionsAt(q)
  BY <1>1 DEF FunctionsAt
<1>4. DOMAIN s = FunctionsAt(p) \cup {SinkFn} /\ s[SinkFn] = <<SelfLoop(<<SinkBlock>>)>>
  BY <1>1, <1>2 DEF ProgramInv
<1>5. new[SinkFn] = <<SelfLoop(<<SinkBlock>>)>>
  <2>1. PICK b : b = SelfLoop(<<SinkBlock>>)
    OBVIOUS
  <2>2. PICK v, u : v = new[SinkFn] /\ u = sinks[SinkFn]
    OBVIOUS
  <2>3. u = <<b>>
    BY <1>4, <2>1, <2>2 DEF WithSink
  <2>4. DOMAIN u = {1} /\ u[1] = b /\ 1 .. 1 = {1}
    BY <2>3
  <2>5. <<SinkBlock>> \in BlkTids(u)
    BY <2>1, <2>4, SelfLoopFacts DEF BlkTids
  <2>6. PatchBlk(sinks, SinkFn, b) = b
    BY <2>1, <2>2, <2>5, PatchLoop
  <2>7. v = [i \in DOMAIN u |-> PatchBlk(sinks, SinkFn, u[i])]
    BY <1>4, <2>2 DEF PatchAll
  <2>8. v = [i \in 1 .. 1 |-> v[i]] /\ v[1] = b /\ 1 \in Nat
    BY <2>4, <2>6, <2>7
  <2>9. v \in Seq(Range(v)) /\ Len(v) = 1
    BY <2>8, MappedSeq
  <2>10. v = <<b>>
    BY <2>8, <2>9
  <2> QED BY <2>1, <2>2, <2>10
<1>6. ASSUME NEW f \in FunctionsAt(q)
      PROVE  Layout(q, f, new[f]) /\ Content(q, f, new[f])
  <2>1. PICK old, mid, blocks : old = s[f] /\ mid = sinks[f] /\ blocks = new[f]
    OBVIOUS
  <2>2. f \in FunctionsAt(p) /\ f \in DOMAIN s
    BY <1>3, <1>4, <1>6
  <2>3. mid = WithSink(f, old) /\ Layout(p, f, old) /\ Content(p, f, old)
    BY <1>2, <2>1, <2>2 DEF ProgramInv
  <2>4. blocks = [i \in DOMAIN mid |-> PatchBlk(sinks, f, mid[i])]
    BY <2>1, <2>2 DEF PatchAll
  <2>5. /\ blocks = [i \in DOMAIN mid |-> blocks[i]]
        /\ \A i \in DOMAIN mid : blocks[i] = PatchBlk(sinks, f, mid[i])
    BY <2>4
  <2>6. AllFunctions(sinks)
    BY <1>4 DEF AllFunctions, p
  <2>7. Layout(q, f, blocks) /\ Content(q, f, blocks)
    BY <2>1, <2>2, <2>3, <2>5, <2>6, PatchBlocks DEF p, q
  <2> QED BY <2>1, <2>7
<1>7. ProgramInv(q, new)
  BY <1>1, <1>3, <1>4, <1>5, <1>6 DEF ProgramInv
<1> QED BY <1>7 DEF q

-----------------------------------------------------------------------------
(* Inlining.                                                               *)

(* SuffixTarget on a jump of a block of any function that f gets a copy of. *)
LEMMA SuffixJmp ==
  ASSUME input \in Programs, NEW f \in Functions, NEW g, NEW s, BlkTids(s[f]) = Own(f),
         NEW o, NEW k, IntraTarget(o.jmps[k]) \in Tids \cup {None},
         NEW j, JmpFits("Inlining", g, o, k, j)
  PROVE  /\ JmpFits("NoreturnExtFunctions", f, o, k, SuffixTarget(s, f, j))
         /\ SuffixTarget(s, f, j).kind = j.kind
<1> DEFINE p == "Inlining"
           q == "NoreturnExtFunctions"
<1>1. /\ ~Patched(p) /\ ~EmptyGone(p) /\ ~Inlined(p) /\ StubsGone(p) /\ ~Marked(p)
      /\ ~Patched(q) /\ ~EmptyGone(q) /\ Inlined(q) /\ StubsGone(q) /\ ~Marked(q)
  BY DEF Patched, EmptyGone, Inlined, StubsGone, Marked
<1> HIDE DEF p, q
<1>2. JmpFits(p, g, o, k, j)
  BY DEF p
<1>3. \A t : CalledAt(p, t) = CalledAt(q, t) /\ LeadsAt(p, g, t) = t /\ LeadsAt(q, f, t) = Moved(f, t)
  BY <1>1 DEF CalledAt, WithoutStub, LeadsAt
<1>4. PICK i, t : i = SuffixTarget(s, f, j) /\ t = IntraTarget(j)
  OBVIOUS
<1>5. /\ j = [kind |-> j.kind, target |-> j.target, return |-> j.return]
      /\ t = IntraTarget(o.jmps[k])
  BY <1>1, <1>2, <1>3, <1>4 DEF JmpFits
<1>6. CASE t = None \/ t \in Own(f)
  <2>1. i = j /\ (t # None => Moved(f, t) = t)
    BY <1>4, <1>6, OwnFacts, NoneIsNoTid DEF SuffixTarget, originally_in_same_fn, Moved
  <2>2. JmpFits(q, f, o, k, j)
    BY <1>1, <1>2, <1>3, <1>4, <1>5, <2>1 DEF JmpFits
  <2> QED BY <1>4, <2>1, <2>2 DEF q
<1>7. CASE t # None /\ t \notin Own(f)
  <2>1. i = SetIntraTarget(j, Moved(f, t))
    BY <1>4, <1>7 DEF SuffixTarget, originally_in_same_fn, Moved
  <2>2. /\ i = [kind |-> i.kind, target |-> i.target, return |-> i.return]
        /\ i.kind = j.kind
        /\ ~IsBranch(j) => i.target = j.target
        /\ IntraTarget(i) = Moved(f, t)
    BY <1>5, <2>1 DEF SetIntraTarget, IntraTarget, IsBranch
  <2>3. j.kind = "Call" => ~IsBranch(j)
    BY DEF IsBranch
  <2>4. JmpFits(q, f, o, k, i)
    BY <1>1, <1>2, <1>3, <1>5, <1>7, <2>2, <2>3 DEF JmpFits
  <2> QED BY <1>4, <2>2, <2>4 DEF q
<1> QED BY <1>6, <1>7

(* SuffixIndTargets on the targets of such a block.                        *)
LEMMA SuffixTargets ==
  ASSUME input \in Programs, NEW f \in Functions, NEW g, NEW s, BlkTids(s[f]) = Own(f),
         NEW o \in Originals, NEW ind, TargetsFit("Inlining", g, o, ind),
         NEW r, r = SuffixIndTargets(s, f, ind)
  PROVE  /\ TargetsFit("NoreturnExtFunctions", f, o, r)
         /\ ind = NoTargets <=> r = NoTargets
         /\ ind # NoTargets => r.kind = ind.kind
<1> DEFINE p == "Inlining"
           q == "NoreturnExtFunctions"
<1>1. ~Patched(p) /\ ~Inlined(p) /\ ~Patched(q) /\ Inlined(q)
  BY DEF Patched, Inlined
<1> HIDE DEF p, q
<1>2. TargetsFit(p, g, o, ind)
  BY DEF p
<1>3. CASE ind = NoTargets
  BY <1>3 DEF SuffixIndTargets, TargetsFit
<1>4. CASE ind # NoTargets /\ ind.kind # "Jump"
  <2>1. r = ind
    BY <1>4 DEF SuffixIndTargets
  <2>2. TargetsFit(q, f, o, ind)
    BY <1>2, <1>4 DEF TargetsFit
  <2> QED BY <1>4, <2>1, <2>2 DEF q
<1>5. CASE ind # NoTargets /\ ind.kind = "Jump"
  <2>1. PICK ts, us : ts = ind.targets /\ us = o.ind.targets
    OBVIOUS
  <2>2. /\ ind = [kind |-> "Jump", targets |-> ts]
        /\ o.ind # NoTargets /\ o.ind.kind = "Jump"
        /\ DOMAIN ts = DOMAIN us
        /\ \A n \in DOMAIN ts : ts[n] = us[n]
    BY <1>1, <1>2, <1>5, <2>1 DEF TargetsFit, KeptPositions, LeadsAt
  <2>3. PICK rs : rs = [n \in DOMAIN ts |->
                          IF originally_in_same_fn(s, f, ts[n]) THEN ts[n] ELSE Append(ts[n], f)]
    OBVIOUS
  <2>4. r = [ind EXCEPT !.targets = rs]
    BY <1>5, <2>1, <2>3 DEF SuffixIndTargets
  <2>5. r = [kind |-> r.kind, targets |-> r.targets] /\ r.kind = "Jump" /\ r.targets = rs
    BY <2>2, <2>4
  <2>6. DOMAIN rs = DOMAIN us /\ \A n \in DOMAIN rs : rs[n] = Moved(f, us[n])
    BY <2>2, <2>3 DEF originally_in_same_fn, Moved
  <2>7. r # NoTargets
    BY <2>5 DEF NoTargets
  <2>8. TargetsFit(q, f, o, r)
    BY <1>1, <2>1, <2>2, <2>5, <2>6 DEF TargetsFit, KeptPositions, LeadsAt
  <2> QED BY <1>5, <2>5, <2>7, <2>8 DEF q
<1> QED BY <1>3, <1>4, <1>5

Renamed(b, t) == [b EXCEPT !.tid = t]

(* A block of f, or the renamed copy a of a block b of another function.   *)
LEMMA InlineFits ==
  ASSUME input \in Programs, NEW f \in Functions, NEW g, NEW s, BlkTids(s[f]) = Own(f),
         NEW o \in Originals, NEW b, BlkFits("Inlining", g, o, b),
         NEW a, a = Renamed(b, Moved(f, o.tid)),
         NEW c, c = append_jump_targets_with_fn_suffix(s, f, a)
  PROVE  BlkFits("NoreturnExtFunctions", f, o, c) /\ c.tid = a.tid
<1> DEFINE p == "Inlining"
           q == "NoreturnExtFunctions"
<1> HIDE DEF p, q
<1>1. BlkFits(p, g, o, b)
  BY DEF p
<1>2. /\ b = [tid |-> b.tid, jmps |-> b.jmps, ind |-> b.ind]
      /\ DOMAIN b.jmps = 1 .. Len(o.jmps)
      /\ TargetsFit(p, g, o, b.ind)
  BY <1>1 DEF BlkFits
<1>3. /\ a = [tid |-> a.tid, jmps |-> a.jmps, ind |-> a.ind]
      /\ a.tid = Moved(f, o.tid) /\ a.jmps = b.jmps /\ a.ind = b.ind
  BY <1>2 DEF Renamed
<1>4. PICK r, v : /\ r = SuffixIndTargets(s, f, b.ind)
                  /\ v = [k \in DOMAIN b.jmps |-> SuffixTarget(s, f, b.jmps[k])]
  OBVIOUS
<1>5. c = [a EXCEPT !.jmps = v, !.ind = r]
  BY <1>3, <1>4 DEF append_jump_targets_with_fn_suffix, MapJmps
<1>6. /\ c = [tid |-> c.tid, jmps |-> c.jmps, ind |-> c.ind]
      /\ c.tid = a.tid /\ c.ind = r /\ c.jmps = v
  BY <1>3, <1>5
<1>7. /\ TargetsFit(q, f, o, c.ind)
      /\ b.ind = NoTargets <=> c.ind = NoTargets
      /\ b.ind # NoTargets => c.ind.kind = b.ind.kind
  BY <1>2, <1>4, <1>6, SuffixTargets DEF p, q
<1>8. o.jmps \in Seq(Jmps)
  BY OriginalFacts, BlkFacts
<1>9. ASSUME NEW k \in DOMAIN b.jmps
      PROVE  JmpFits(q, f, o, k, c.jmps[k]) /\ c.jmps[k].kind = b.jmps[k].kind
  <2>1. k \in 1 .. Len(o.jmps) /\ JmpFits(p, g, o, k, b.jmps[k])
    BY <1>1, <1>2, <1>9 DEF BlkFits
  <2>2. o.jmps[k] \in Jmps
    BY <1>8, <2>1
  <2>3. IntraTarget(o.jmps[k]) \in Tids \cup {None}
    BY <2>2, JmpFacts
  <2>4. c.jmps[k] = SuffixTarget(s, f, b.jmps[k])
    BY <1>4, <1>6, <1>9
  <2>5. PICK j : j = b.jmps[k]
    OBVIOUS
  <2>6. JmpFits("Inlining", g, o, k, j)
    BY <2>1, <2>5 DEF p
  <2>7. /\ JmpFits("NoreturnExtFunctions", f, o, k, SuffixTarget(s, f, j))
        /\ SuffixTarget(s, f, j).kind = j.kind
    BY <2>3, <2>6, SuffixJmp
  <2> QED BY <2>4, <2>5, <2>7 DEF q
<1>10. c.jmps = [k \in DOMAIN b.jmps |-> c.jmps[k]]
  BY <1>4, <1>6
<1>11. BlkFits(q, f, o, c)
  <2>1. \A k \in DOMAIN b.jmps : JmpFits(q, f, o, k, c.jmps[k])
    BY <1>9
  <2>2. \A k \in DOMAIN b.jmps : c.jmps[k].kind = b.jmps[k].kind
    BY <1>9
  <2>3. c.tid = Moved(f, o.tid)
    BY <1>3, <1>6
  <2> QED BY <1>1, <1>6, <1>7, <1>10, <2>1, <2>2, <2>3, Rewritten
<1> QED BY <1>6, <1>11 DEF q

(* SetToSeq lists every element of a finite set once.                      *)
Lists(v, S) ==
  \E n \in Nat :
    /\ v = [i \in 1 .. n |-> v[i]]
    /\ \A i \in 1 .. n : v[i] \in S
    /\ \A i, k \in 1 .. n : v[i] = v[k] => i = k
    /\ \A x \in S : \E i \in 1 .. n : v[i] = x
    /\ S = {} => n = 0

(* What SetToSeq returns.                                                  *)
LEMMA SetToSeqFacts ==
  ASSUME NEW S, IsFiniteSet(S)
  PROVE  Lists(SetToSeq(S), S)
<1>0. PICK v : v = SetToSeq(S)
  OBVIOUS
<1> DEFINE n == Cardinality(S)
<1>1. n \in Nat /\ ExistsBijection(1 .. n, S)
  BY FS_CardinalityType
<1>2. IsFiniteSet(1 .. n) /\ Cardinality(1 .. n) = n
  BY <1>1, FS_Interval
<1>3. S = {} => n = 0
  BY FS_EmptySet
<1> HIDE DEF n
<1>4. \E u \in [1 .. n -> S] : IsInjective(u)
  BY <1>1 DEF ExistsBijection, Bijection, Injection
<1>5. v \in [1 .. n -> S] /\ IsInjective(v)
  BY <1>0, <1>4 DEF SetToSeq, n
<1>6. v \in Injection(1 .. n, S)
  BY <1>5 DEF Injection
<1>7. v \in Surjection(1 .. n, S)
  BY <1>2, <1>6, FS_Injection DEF n
<1>8. \A x \in S : \E i \in 1 .. n : v[i] = x
  BY <1>7 DEF Surjection
<1>9. DOMAIN v = 1 .. n /\ v = [i \in 1 .. n |-> v[i]] /\ \A i \in 1 .. n : v[i] \in S
  BY <1>5
<1>10. \A i, k \in 1 .. n : v[i] = v[k] => i = k
  BY <1>5 DEF IsInjective
<1> QED BY <1>0, <1>1, <1>3, <1>8, <1>9, <1>10 DEF Lists

(* The set of reachable blocks is closed and holds the blocks of f.        *)
LEMMA ReachFacts ==
  ASSUME NEW s, NEW f \in DOMAIN s
  PROVE  /\ BlkTids(s[f]) \subseteq fn_tid_to_blk_tids(s, f)
         /\ fn_tid_to_blk_tids(s, f) \subseteq AllBlkTids(s)
         /\ Closed(s, fn_tid_to_blk_tids(s, f))
<1> DEFINE closed == {tids \in SUBSET AllBlkTids(s) : BlkTids(s[f]) \subseteq tids /\ Closed(s, tids)}
<1>1. fn_tid_to_blk_tids(s, f) = {t \in AllBlkTids(s) : \A tids \in closed : t \in tids}
  BY DEF fn_tid_to_blk_tids
<1>2. BlkTids(s[f]) \subseteq AllBlkTids(s)
  BY DEF AllBlkTids
<1>3. ASSUME NEW t \in fn_tid_to_blk_tids(s, f), NEW u \in IntraTargets(s, BlkAt(s, t))
      PROVE  u \in fn_tid_to_blk_tids(s, f)
  <2>1. u \in AllBlkTids(s)
    BY <1>3 DEF IntraTargets
  <2>2. ASSUME NEW tids \in closed
        PROVE  u \in tids
    <3>1. t \in tids /\ Closed(s, tids)
      BY <1>1, <1>3, <2>2
    <3> QED BY <1>3, <3>1 DEF Closed
  <2> QED BY <1>1, <2>1, <2>2
<1>4. Closed(s, fn_tid_to_blk_tids(s, f))
  BY <1>3 DEF Closed
<1> QED BY <1>1, <1>2, <1>4

(* Before the pass the blocks of a function are the ones it was translated *)
(* with, under their TIDs.                                                 *)
LEMMA BeforeInlining ==
  ASSUME input \in Programs, NEW s, ProgramInv("Inlining", s)
  PROVE  /\ DOMAIN s = Functions \ DOMAIN input.stubs
         /\ \A f \in DOMAIN s : BlkTids(s[f]) = Own(f)
         /\ AllBlkTids(s) = KeptTids
         /\ IsFiniteSet(KeptTids)
<1> DEFINE p == "Inlining"
<1>1. ~Patched(p) /\ ~Marked(p) /\ ~Inlined(p) /\ ~EmptyGone(p) /\ StubsGone(p)
  BY DEF Patched, Marked, Inlined, EmptyGone, StubsGone
<1> HIDE DEF p
<1>2. ProgramInv(p, s)
  BY DEF p
<1>3. DOMAIN s = Functions \ DOMAIN input.stubs /\ FunctionsAt(p) = DOMAIN s
  BY <1>1, <1>2 DEF ProgramInv, FunctionsAt
<1>4. ASSUME NEW f \in DOMAIN s
      PROVE  BlkTids(s[f]) = Own(f)
  <2>1. Layout(p, f, s[f]) /\ Content(p, f, s[f])
    BY <1>2, <1>3, <1>4 DEF ProgramInv
  <2>2. BlkTids(s[f]) \subseteq TidsAt(p, f)
    BY <2>1, ContentTids
  <2>3. TidsAt(p, f) \subseteq Own(f)
    BY <1>1 DEF TidsAt, Sources, Moved
  <2>4. Own(f) \subseteq BlkTids(s[f])
    BY <2>1 DEF Layout
  <2> QED BY <2>2, <2>3, <2>4
<1>5. AllBlkTids(s) = KeptTids
  BY <1>3, <1>4 DEF AllBlkTids, KeptTids, Own, Functions
<1>6. KeptTids \in SUBSET AllBlkTids(input.subs)
  BY DEF KeptTids, AllBlkTids
<1>7. IsFiniteSet(AllBlkTids(input.subs))
  BY ProgramFacts
<1>8. IsFiniteSet(KeptTids)
  BY <1>6, <1>7, FS_Subset
<1> QED BY <1>3, <1>4, <1>5, <1>8

(* The block with a TID is the one that fits to the original block.        *)
LEMMA BlkAtFits ==
  ASSUME input \in Programs, NEW s, ProgramInv("Inlining", s), NEW o \in Originals,
         o.tid \in KeptTids
  PROVE  /\ \E g \in DOMAIN s : BlkFits("Inlining", g, o, BlkAt(s, o.tid))
         /\ BlkAt(s, o.tid).tid = o.tid
<1> DEFINE p == "Inlining"
<1>1. ~Patched(p) /\ ~Marked(p) /\ ~Inlined(p) /\ ~EmptyGone(p)
  BY DEF Patched, Marked, Inlined, EmptyGone
<1> HIDE DEF p
<1>2. ProgramInv(p, s)
  BY DEF p
<1>3. o.tid \in AllBlkTids(s)
  BY BeforeInlining
<1>4. PICK g \in DOMAIN s : o.tid \in BlkTids(s[g])
  BY <1>3 DEF AllBlkTids
<1>5. PICK i \in DOMAIN s[g] : o.tid = s[g][i].tid
  BY <1>4 DEF BlkTids
<1>6. BlkAt(s, o.tid) = s[g][i]
  <2>1. UniqueTids(s)
    BY <1>2, InvUnique
  <2> QED BY <1>5, <2>1, FindBlock
<1>7. PICK a \in Sources(p, g) : BlkFits(p, g, a, s[g][i])
  <2>1. Added(p, g) = {}
    BY <1>1 DEF Added
  <2> QED BY <1>1, <1>2, <2>1, Cases
<1>8. s[g][i].tid = a.tid /\ a \in Originals
  BY <1>1, <1>7 DEF BlkFits, Sources, Moved
<1>9. a = o
  BY <1>5, <1>8, OriginalFacts
<1> QED BY <1>5, <1>6, <1>7, <1>9 DEF p

(* The block refers to the blocks the original one refers to.              *)
LEMMA TargetsKept ==
  ASSUME input \in Programs, NEW g, NEW o \in Originals, NEW b, BlkFits("Inlining", g, o, b),
         NEW t \in JumpTargets(o), t # None
  PROVE  t \in JumpTargets(b)
<1> DEFINE p == "Inlining"
<1>1. ~Patched(p) /\ ~Inlined(p) /\ ~Marked(p)
  BY DEF Patched, Inlined, Marked
<1> HIDE DEF p
<1>2. BlkFits(p, g, o, b)
  BY DEF p
<1>3. o.jmps \in Seq(Jmps) /\ IndFits(o)
  BY OriginalFacts, BlkFacts
<1>4. DOMAIN o.jmps = 1 .. Len(o.jmps) /\ DOMAIN b.jmps = 1 .. Len(o.jmps) /\ Len(o.jmps) \in Nat
  BY <1>2, <1>3, SeqMapped DEF BlkFits
<1>5. CASE \E k \in DOMAIN o.jmps : t = IntraTarget(o.jmps[k])
  <2>1. PICK k \in DOMAIN o.jmps : t = IntraTarget(o.jmps[k])
    BY <1>5
  <2>2. JmpFits(p, g, o, k, b.jmps[k])
    BY <1>2, <1>4, <2>1 DEF BlkFits
  <2>3. IntraTarget(b.jmps[k]) = t
    BY <1>1, <2>1, <2>2 DEF JmpFits, LeadsAt
  <2> QED BY <1>4, <2>1, <2>3 DEF JumpTargets
<1>6. CASE o.ind # NoTargets /\ o.ind.kind = "Jump" /\ t \in Range(o.ind.targets)
  <2>1. PICK n : n = Len(o.jmps)
    OBVIOUS
  <2>2. b.jmps = [k \in 1 .. n |-> b.jmps[k]] /\ IndFits(b) /\ TargetsFit(p, g, o, b.ind)
    BY <1>2, <2>1 DEF BlkFits
  <2>3. Len(b.jmps) = n /\ b.jmps \in Seq(Range(b.jmps))
    BY <1>4, <2>1, <2>2, MappedSeq
  <2>4. (o.jmps = <<>> <=> n = 0) /\ (b.jmps = <<>> <=> n = 0)
    BY <1>3, <2>1, <2>3, SeqMapped
  <2>5. ASSUME n = 0 PROVE b.ind # NoTargets /\ b.ind.kind = "Jump"
    BY <1>3, <1>6, <2>2, <2>4, <2>5 DEF IndFits
  <2>6. ASSUME n # 0 PROVE b.ind # NoTargets /\ b.ind.kind = "Jump"
    <3>1. Last(o.jmps) = o.jmps[n] /\ Last(b.jmps) = b.jmps[n]
      BY <2>1, <2>3 DEF Last
    <3>2. o.jmps[n].kind = "BranchInd"
      BY <1>3, <1>6, <2>4, <2>6, <3>1 DEF IndFits
    <3>3. JmpFits(p, g, o, n, b.jmps[n])
      BY <1>2, <1>4, <2>1, <2>6 DEF BlkFits
    <3>4. b.jmps[n].kind = "BranchInd"
      BY <3>2, <3>3 DEF JmpFits
    <3> QED BY <2>2, <2>4, <2>6, <3>1, <3>4 DEF IndFits
  <2>7. b.ind # NoTargets /\ b.ind.kind = "Jump"
    BY <2>5, <2>6
  <2>8. PICK m \in DOMAIN o.ind.targets : t = o.ind.targets[m]
    BY <1>6 DEF Range
  <2>9. m \in DOMAIN b.ind.targets /\ b.ind.targets[m] = t
    BY <1>1, <2>2, <2>7, <2>8 DEF TargetsFit, KeptPositions, LeadsAt
  <2>10. t \in Range(b.ind.targets)
    BY <2>9 DEF Range
  <2> QED BY <2>7, <2>10 DEF JumpTargets
<1> QED BY <1>5, <1>6 DEF JumpTargets

(* What the reachable blocks refer to is reachable.                        *)
LEMMA ReachClosed ==
  ASSUME input \in Programs, NEW s, ProgramInv("Inlining", s), NEW f \in DOMAIN s,
         NEW tids, tids = fn_tid_to_blk_tids(s, f),
         NEW o \in Originals, o.tid \in tids, NEW t \in JumpTargets(o), t \in KeptTids
  PROVE  t \in tids
<1>1. AllBlkTids(s) = KeptTids /\ tids \subseteq AllBlkTids(s) /\ Closed(s, tids)
  BY BeforeInlining, ReachFacts
<1>2. PICK b : b = BlkAt(s, o.tid)
  OBVIOUS
<1>3. PICK g \in DOMAIN s : BlkFits("Inlining", g, o, b)
  BY <1>1, <1>2, BlkAtFits
<1>4. t # None
  <2>1. \E a \in Originals : a.tid = t
    BY OwnFacts
  <2>2. t \in Tids
    BY <2>1, OwnFacts
  <2>3. f \in Addresses
    BY BeforeInlining, ProgramFacts
  <2> QED BY <2>2, <2>3, NoneIsNoTid
<1>5. t \in JumpTargets(b)
  BY <1>3, <1>4, TargetsKept
<1>6. t \in IntraTargets(s, b)
  BY <1>1, <1>5 DEF IntraTargets, JumpTargets
<1> QED BY <1>1, <1>2, <1>6 DEF Closed

(* The blocks that f gets copies of, and the copies.                       *)
Copied(s, f, o) == Renamed(BlkAt(s, o.tid), Moved(f, o.tid))

Copies(f, tids, copies) ==
  /\ copies \in Seq(Range(copies))
  /\ \A i \in DOMAIN copies : \E t \in tids \ Own(f) : copies[i].tid = Moved(f, t)
  /\ \A i, k \in DOMAIN copies : copies[i].tid = copies[k].tid => i = k
  /\ \A t \in tids \ Own(f) : Moved(f, t) \in BlkTids(copies)
  /\ tids = Own(f) => copies = <<>>

(* additional_blocks copies the reachable blocks of other functions once.  *)
LEMMA CopiesCorrect ==
  ASSUME input \in Programs, NEW s, ProgramInv("Inlining", s), NEW f \in DOMAIN s,
         NEW tids, tids = fn_tid_to_blk_tids(s, f),
         NEW copies, copies = additional_blocks(s, f)
  PROVE  /\ Copies(f, tids, copies)
         /\ \A i \in DOMAIN copies : \E o \in Originals :
              o.tid \in tids /\ copies[i] = Copied(s, f, o)
<1>1. /\ f \in Functions /\ BlkTids(s[f]) = Own(f)
      /\ AllBlkTids(s) = KeptTids /\ IsFiniteSet(KeptTids)
  BY BeforeInlining
<1>2. tids \subseteq KeptTids
  BY <1>1, ReachFacts
<1>3. \A t \in tids : t \in Tids /\ \E o \in Originals : o.tid = t
  BY <1>2, OwnFacts
<1>4. PICK S, v : S = tids \ Own(f) /\ v = SetToSeq(S)
  OBVIOUS
<1>5. IsFiniteSet(S)
  <2>1. S \in SUBSET KeptTids
    BY <1>2, <1>4
  <2> QED BY <1>1, <2>1, FS_Subset
<1>6. Lists(v, S)
  BY <1>4, <1>5, SetToSeqFacts
<1>7. PICK n \in Nat :
        /\ v = [i \in 1 .. n |-> v[i]]
        /\ \A i \in 1 .. n : v[i] \in S
        /\ \A i, k \in 1 .. n : v[i] = v[k] => i = k
        /\ \A x \in S : \E i \in 1 .. n : v[i] = x
        /\ S = {} => n = 0
  BY <1>6 DEF Lists
<1>8. copies = [i \in DOMAIN v |-> clone_with_tid_suffix(BlkAt(s, v[i]), f)]
  BY <1>1, <1>4 DEF additional_blocks
<1>9. DOMAIN copies = DOMAIN v /\ DOMAIN v = 1 .. n /\ copies = [i \in 1 .. n |-> copies[i]]
  BY <1>7, <1>8
<1>10. ASSUME NEW i \in DOMAIN copies
       PROVE  /\ \E o \in Originals : o.tid \in tids /\ copies[i] = Copied(s, f, o)
              /\ copies[i].tid = Moved(f, v[i])
  <2>1. v[i] \in tids /\ v[i] \notin Own(f)
    BY <1>4, <1>7, <1>9, <1>10
  <2>2. PICK o \in Originals : o.tid = v[i]
    BY <1>3, <2>1
  <2>3. PICK b : b = BlkAt(s, o.tid)
    OBVIOUS
  <2>4. b.tid = o.tid /\ \E g \in DOMAIN s : BlkFits("Inlining", g, o, b)
    BY <1>2, <2>1, <2>2, <2>3, BlkAtFits
  <2>5. b = [tid |-> b.tid, jmps |-> b.jmps, ind |-> b.ind]
    BY <2>4 DEF BlkFits
  <2>6. copies[i] = clone_with_tid_suffix(b, f)
    BY <1>8, <1>9, <1>10, <2>2, <2>3
  <2>7. Moved(f, o.tid) = Append(b.tid, f)
    BY <2>1, <2>2, <2>4 DEF Moved
  <2>8. copies[i] = Renamed(b, Moved(f, o.tid)) /\ copies[i].tid = Moved(f, o.tid)
    BY <2>5, <2>6, <2>7 DEF clone_with_tid_suffix, Renamed
  <2> QED BY <2>1, <2>2, <2>3, <2>8 DEF Copied
<1>11. copies \in Seq(Range(copies)) /\ Len(copies) = n
  BY <1>7, <1>9, MappedSeq
<1>12. \A i \in DOMAIN copies : \E t \in tids \ Own(f) : copies[i].tid = Moved(f, t)
  <2>1. \A i \in DOMAIN copies : v[i] \in tids \ Own(f)
    BY <1>4, <1>7, <1>9
  <2>2. \A i \in DOMAIN copies : copies[i].tid = Moved(f, v[i])
    BY <1>10
  <2> QED BY <2>1, <2>2
<1>13. \A i, k \in DOMAIN copies : copies[i].tid = copies[k].tid => i = k
  <2> SUFFICES ASSUME NEW i \in DOMAIN copies, NEW k \in DOMAIN copies,
                      copies[i].tid = copies[k].tid
               PROVE  i = k
    OBVIOUS
  <2>1. Moved(f, v[i]) = Moved(f, v[k])
    BY <1>10
  <2>2. v[i] \in Tids /\ v[k] \in Tids
    BY <1>3, <1>4, <1>7, <1>9
  <2>3. v[i] = v[k]
    BY <1>1, <2>1, <2>2, MovedFacts
  <2> QED BY <1>7, <1>9, <2>3
<1>14. \A t \in tids \ Own(f) : Moved(f, t) \in BlkTids(copies)
  <2> SUFFICES ASSUME NEW t \in tids \ Own(f)
               PROVE  Moved(f, t) \in BlkTids(copies)
    OBVIOUS
  <2>1. PICK i \in 1 .. n : v[i] = t
    BY <1>4, <1>7
  <2>2. i \in DOMAIN copies /\ copies[i].tid = Moved(f, t)
    BY <1>9, <1>10, <2>1
  <2> QED BY <2>2 DEF BlkTids
<1>15. tids = Own(f) => copies = <<>>
  <2>1. tids = Own(f) => S = {}
    BY <1>4
  <2> QED BY <1>7, <1>11, <2>1, SeqMapped
<1>16. Copies(f, tids, copies)
  BY <1>11, <1>12, <1>13, <1>14, <1>15 DEF Copies
<1> QED BY <1>10, <1>16

Joined(old, copies) == old \o copies

(* The blocks of f and the copies behind them.                             *)
LEMMA JoinedFacts ==
  ASSUME NEW old, NEW copies, old \in Seq(Range(old)), copies \in Seq(Range(copies)),
         NEW mid, mid = Joined(old, copies)
  PROVE  /\ mid \in Seq(Range(mid))
         /\ Len(old) \in Nat /\ Len(copies) \in Nat
         /\ DOMAIN old = 1 .. Len(old) /\ DOMAIN copies = 1 .. Len(copies)
         /\ DOMAIN mid = 1 .. (Len(old) + Len(copies))
         /\ \A i \in 1 .. Len(old) : mid[i] = old[i]
         /\ \A i \in 1 .. Len(copies) : mid[Len(old) + i] = copies[i]
<1>1. PICK S : S = Range(old) \cup Range(copies)
  OBVIOUS
<1>2. /\ Len(old) \in Nat /\ Len(copies) \in Nat
      /\ DOMAIN old = 1 .. Len(old) /\ DOMAIN copies = 1 .. Len(copies)
  BY SeqMapped
<1>3. old \in Seq(S) /\ copies \in Seq(S)
  <2>1. \A i \in 1 .. Len(old) : old[i] \in S
    BY <1>1, SeqMapped
  <2>2. \A i \in 1 .. Len(copies) : copies[i] \in S
    BY <1>1, SeqMapped
  <2> QED BY <1>2, <2>1, <2>2
<1>4. mid \in Seq(S)
  BY <1>3, ConcatProperties DEF Joined
<1>5. Len(mid) = Len(old) + Len(copies)
  BY <1>3, ConcatProperties DEF Joined
<1>6. \A i \in 1 .. Len(old) + Len(copies) :
        mid[i] = IF i <= Len(old) THEN old[i] ELSE copies[i - Len(old)]
  BY <1>3, ConcatProperties DEF Joined
<1>7. mid \in Seq(Range(mid)) /\ DOMAIN mid = 1 .. Len(mid)
  BY <1>4, SeqMapped
<1>8. \A i \in 1 .. Len(old) : mid[i] = old[i]
  BY <1>2, <1>6
<1>9. \A i \in 1 .. Len(copies) : mid[Len(old) + i] = copies[i]
  BY <1>2, <1>6
<1> QED BY <1>2, <1>5, <1>7, <1>8, <1>9

(* Every block is one of the function or a copy.                           *)
LEMMA JoinedCases ==
  ASSUME NEW old, NEW copies, old \in Seq(Range(old)), copies \in Seq(Range(copies)),
         NEW mid, mid = Joined(old, copies)
  PROVE  /\ BlkTids(mid) = BlkTids(old) \cup BlkTids(copies)
         /\ mid = <<>> <=> old = <<>> /\ copies = <<>>
         /\ old # <<>> => mid[1] = old[1]
         /\ \A i \in DOMAIN mid :
              \/ i \in DOMAIN old /\ mid[i] = old[i]
              \/ \E k \in DOMAIN copies : i = Len(old) + k /\ mid[i] = copies[k]
<1>1. /\ mid \in Seq(Range(mid))
      /\ Len(old) \in Nat /\ Len(copies) \in Nat
      /\ DOMAIN old = 1 .. Len(old) /\ DOMAIN copies = 1 .. Len(copies)
      /\ DOMAIN mid = 1 .. (Len(old) + Len(copies))
  BY JoinedFacts
<1>2. /\ \A i \in 1 .. Len(old) : mid[i] = old[i]
      /\ \A i \in 1 .. Len(copies) : mid[Len(old) + i] = copies[i]
  BY JoinedFacts
<1>3. ASSUME NEW i \in DOMAIN mid
      PROVE  \/ i \in DOMAIN old /\ mid[i] = old[i]
             \/ \E k \in DOMAIN copies : i = Len(old) + k /\ mid[i] = copies[k]
  <2>1. CASE i <= Len(old)
    BY <1>1, <1>2, <1>3, <2>1
  <2>2. CASE i > Len(old)
    <3>1. PICK k : k = i - Len(old)
      OBVIOUS
    <3>2. k \in 1 .. Len(copies) /\ i = Len(old) + k
      BY <1>1, <1>3, <2>2, <3>1
    <3> QED BY <1>1, <1>2, <3>2
  <2> QED BY <1>1, <1>3, <2>1, <2>2
<1>4. /\ \A i \in DOMAIN old : i \in DOMAIN mid
      /\ \A i \in DOMAIN copies : Len(old) + i \in DOMAIN mid
  BY <1>1
<1>5. BlkTids(mid) = BlkTids(old) \cup BlkTids(copies)
  <2>1. BlkTids(mid) \subseteq BlkTids(old) \cup BlkTids(copies)
    BY <1>3 DEF BlkTids
  <2>2. BlkTids(old) \subseteq BlkTids(mid)
    BY <1>1, <1>2, <1>4 DEF BlkTids
  <2>3. BlkTids(copies) \subseteq BlkTids(mid)
    BY <1>1, <1>2, <1>4 DEF BlkTids
  <2> QED BY <2>1, <2>2, <2>3
<1>6. /\ mid = <<>> <=> Len(mid) = 0
      /\ old = <<>> <=> Len(old) = 0
      /\ copies = <<>> <=> Len(copies) = 0
  BY <1>1, SeqMapped
<1>7. Len(mid) = Len(old) + Len(copies)
  BY <1>1, SeqMapped
<1>8. old # <<>> => mid[1] = old[1]
  BY <1>1, <1>2, <1>6
<1> QED BY <1>1, <1>3, <1>5, <1>6, <1>7, <1>8

ClosedTids(tids) ==
  \A o \in Originals : o.tid \in tids => \A t \in JumpTargets(o) \cap KeptTids : t \in tids

(* A function with the copies it needs.                                    *)
LEMMA JoinedLayout ==
  ASSUME input \in Programs, NEW f \in Functions, NEW old, Layout("Inlining", f, old),
         BlkTids(old) = Own(f), NEW tids, Own(f) \subseteq tids, tids \subseteq Tids,
         KeptTids \subseteq Tids,
         ClosedTids(tids), Own(f) = {} => tids = {}, NEW copies, Copies(f, tids, copies),
         NEW mid, mid = Joined(old, copies)
  PROVE  Layout("NoreturnExtFunctions", f, mid)
<1> DEFINE p == "Inlining"
           q == "NoreturnExtFunctions"
<1>1. /\ ~Inlined(p) /\ ~Marked(p) /\ ~Patched(p) /\ Reordered(p)
      /\ Inlined(q) /\ ~Marked(q) /\ ~Patched(q) /\ Reordered(q)
  BY DEF Inlined, Marked, Patched, Reordered, StubsGone
<1> HIDE DEF p, q
<1>2. Layout(p, f, old)
  BY DEF p
<1>3. /\ old \in Seq(Range(old))
      /\ \A i, k \in DOMAIN old : old[i].tid = old[k].tid => i = k
      /\ input.subs[f] = <<>> <=> old = <<>>
      /\ old # <<>> => old[1].tid = <<f>>
  BY <1>1, <1>2 DEF Layout
<1>4. /\ copies \in Seq(Range(copies))
      /\ \A i \in DOMAIN copies : \E t \in tids \ Own(f) : copies[i].tid = Moved(f, t)
      /\ \A i, k \in DOMAIN copies : copies[i].tid = copies[k].tid => i = k
      /\ \A t \in tids \ Own(f) : Moved(f, t) \in BlkTids(copies)
      /\ tids = Own(f) => copies = <<>>
  BY DEF Copies
<1>5. /\ mid \in Seq(Range(mid))
      /\ BlkTids(mid) = BlkTids(old) \cup BlkTids(copies)
      /\ mid = <<>> <=> old = <<>> /\ copies = <<>>
      /\ old # <<>> => mid[1] = old[1]
  BY <1>3, <1>4, JoinedFacts, JoinedCases
<1>6. \A i \in DOMAIN mid :
        \/ i \in DOMAIN old /\ mid[i] = old[i]
        \/ \E k \in DOMAIN copies : i = Len(old) + k /\ mid[i] = copies[k]
  BY <1>3, <1>4, JoinedCases
<1>7. \A i \in DOMAIN old : old[i].tid \in Own(f)
  BY DEF BlkTids
<1>8. \A i \in DOMAIN copies : copies[i].tid \notin Own(f)
  BY <1>4, MovedFacts
<1>9. ASSUME NEW i \in DOMAIN mid, NEW k \in DOMAIN mid, mid[i].tid = mid[k].tid
      PROVE  i = k
  <2>1. CASE mid[i].tid \in Own(f)
    BY <1>3, <1>6, <1>8, <1>9, <2>1
  <2>2. CASE mid[i].tid \notin Own(f)
    <3>1. PICK m \in DOMAIN copies : i = Len(old) + m /\ mid[i] = copies[m]
      BY <1>6, <1>7, <1>9, <2>2
    <3>2. PICK n \in DOMAIN copies : k = Len(old) + n /\ mid[k] = copies[n]
      BY <1>6, <1>7, <1>9, <2>2
    <3> QED BY <1>4, <1>9, <3>1, <3>2
  <2> QED BY <2>1, <2>2
<1>10. mid = <<>> <=> old = <<>>
  <2>1. ASSUME old = <<>>
        PROVE  copies = <<>>
    <3>1. Own(f) = {}
      BY <2>1 DEF BlkTids
    <3> QED BY <1>4, <3>1
  <2> QED BY <1>5, <2>1
<1>11. \A t \in Tids : Moved(f, t) \in BlkTids(mid) <=> t \in tids
  <2> SUFFICES ASSUME NEW t \in Tids
               PROVE  Moved(f, t) \in BlkTids(mid) <=> t \in tids
    OBVIOUS
  <2>1. Moved(f, t) \in Own(f) <=> t \in Own(f)
    BY MovedFacts
  <2>2. CASE t \in Own(f)
    BY <1>5, <2>1, <2>2
  <2>3. CASE t \notin Own(f)
    <3>1. Moved(f, t) \in BlkTids(mid) <=> Moved(f, t) \in BlkTids(copies)
      BY <1>5, <2>1, <2>3
    <3>2. ASSUME Moved(f, t) \in BlkTids(copies)
          PROVE  t \in tids
      <4>1. PICK u \in tids : Moved(f, t) = Moved(f, u)
        BY <1>4, <3>2 DEF BlkTids
      <4>2. u \in Tids
        OBVIOUS
      <4> QED BY <4>1, <4>2, MovedFacts
    <3> QED BY <1>4, <2>3, <3>1, <3>2
  <2> QED BY <2>2, <2>3
<1>12. ASSUME NEW o \in Originals, Moved(f, o.tid) \in BlkTids(mid),
              NEW t \in JumpTargets(o) \cap KeptTids
       PROVE  Moved(f, t) \in BlkTids(mid)
  <2>1. o.tid \in Tids
    BY OwnFacts
  <2>2. t \in tids
    BY <1>11, <1>12, <2>1 DEF ClosedTids
  <2> QED BY <1>11, <2>2
<1>13. \A i, k \in DOMAIN mid : mid[i].tid = mid[k].tid => i = k
  BY <1>9
<1>14. \A o \in Originals :
         Moved(f, o.tid) \in BlkTids(mid) =>
           \A t \in JumpTargets(o) \cap KeptTids : Moved(f, t) \in BlkTids(mid)
  BY <1>12
<1>15. mid # <<>> => mid[1].tid = <<f>>
  BY <1>3, <1>5, <1>10
<1>16. Layout(q, f, mid)
  BY <1>1, <1>3, <1>5, <1>10, <1>13, <1>14, <1>15 DEF Layout
<1> QED BY <1>16 DEF q

InlineBlk(s, f, b) == append_jump_targets_with_fn_suffix(s, f, b)

(* A block of f stays a block of f.                                        *)
LEMMA InlineOwn ==
  ASSUME input \in Programs, NEW f \in Functions, NEW s, BlkTids(s[f]) = Own(f),
         NEW o \in Sources("Inlining", f), NEW b, BlkFits("Inlining", f, o, b)
  PROVE  /\ o \in Sources("NoreturnExtFunctions", f)
         /\ BlkFits("NoreturnExtFunctions", f, o, InlineBlk(s, f, b))
         /\ InlineBlk(s, f, b).tid = b.tid
<1>1. o \in Originals /\ o \in Sources("NoreturnExtFunctions", f)
  BY DEF Sources, Inlined
<1>2. b = Renamed(b, Moved(f, o.tid))
  <2>1. b = [tid |-> b.tid, jmps |-> b.jmps, ind |-> b.ind] /\ b.tid = Moved(f, o.tid)
    BY DEF BlkFits
  <2> QED BY <2>1 DEF Renamed
<1> QED BY <1>1, <1>2, InlineFits DEF InlineBlk

(* A copy has become a block of f.                                         *)
LEMMA InlineCopy ==
  ASSUME input \in Programs, NEW s, ProgramInv("Inlining", s), NEW f \in DOMAIN s,
         NEW o \in Originals, o.tid \in KeptTids, NEW a, a = Copied(s, f, o)
  PROVE  /\ o \in Sources("NoreturnExtFunctions", f)
         /\ BlkFits("NoreturnExtFunctions", f, o, InlineBlk(s, f, a))
         /\ InlineBlk(s, f, a).tid = a.tid
<1>1. o \in Sources("NoreturnExtFunctions", f)
  BY DEF Sources, Inlined
<1>2. PICK b : b = BlkAt(s, o.tid)
  OBVIOUS
<1>3. PICK g \in DOMAIN s : BlkFits("Inlining", g, o, b)
  BY <1>2, BlkAtFits
<1>4. a = Renamed(b, Moved(f, o.tid))
  BY <1>2 DEF Copied
<1>5. f \in Functions /\ BlkTids(s[f]) = Own(f)
  BY BeforeInlining
<1> QED BY <1>1, <1>3, <1>4, <1>5, InlineFits DEF InlineBlk

(* The pass on a function.                                                 *)
LEMMA InlineBlocks ==
  ASSUME input \in Programs, NEW s, ProgramInv("Inlining", s), NEW f \in DOMAIN s,
         NEW mid, mid = Joined(s[f], additional_blocks(s, f)),
         NEW blocks, blocks = [i \in DOMAIN mid |-> blocks[i]],
         \A i \in DOMAIN mid : blocks[i] = InlineBlk(s, f, mid[i])
  PROVE  Layout("NoreturnExtFunctions", f, blocks) /\ Content("NoreturnExtFunctions", f, blocks)
<1> DEFINE p == "Inlining"
           q == "NoreturnExtFunctions"
<1>1. ~Marked(p) /\ ~Patched(p) /\ ~EmptyGone(p) /\ StubsGone(p)
  BY DEF Marked, Patched, EmptyGone, StubsGone
<1>2. /\ blocks = [i \in DOMAIN mid |-> blocks[i]]
      /\ DOMAIN blocks = DOMAIN mid
  OBVIOUS
<1>3. /\ f \in Functions /\ BlkTids(s[f]) = Own(f)
      /\ AllBlkTids(s) = KeptTids
  BY BeforeInlining
<1>4. PICK old, copies, tids :
        /\ old = s[f] /\ copies = additional_blocks(s, f)
        /\ tids = fn_tid_to_blk_tids(s, f)
  OBVIOUS
<1>5. Layout(p, f, old) /\ Content(p, f, old)
  <2>1. f \in FunctionsAt(p)
    BY <1>1 DEF ProgramInv
  <2> QED BY <1>4, <2>1 DEF ProgramInv
<1>6. /\ Copies(f, tids, copies)
      /\ \A i \in DOMAIN copies : \E o \in Originals :
           o.tid \in tids /\ copies[i] = Copied(s, f, o)
  BY <1>4, CopiesCorrect
<1>7. Own(f) \subseteq tids /\ tids \subseteq KeptTids
  BY <1>3, <1>4, ReachFacts
<1>8. KeptTids \subseteq Tids
  BY OwnFacts
<1>9. ClosedTids(tids)
  BY <1>4, ReachClosed DEF ClosedTids
<1>10. Own(f) = {} => tids = {}
  <2>1. Own(f) = {} => Closed(s, BlkTids(s[f]))
    BY <1>3 DEF Closed
  <2> QED BY <1>3, <1>4, <2>1, NothingToAdd
<1>11. Layout(q, f, mid)
  <2>1. BlkTids(old) = Own(f) /\ tids \subseteq Tids /\ mid = Joined(old, copies)
    BY <1>3, <1>4, <1>7, <1>8
  <2> QED BY <1>3, <1>5, <1>6, <1>7, <1>8, <1>9, <1>10, <2>1, JoinedLayout
<1>12. ASSUME NEW i \in DOMAIN mid
       PROVE  /\ blocks[i].tid = mid[i].tid
              /\ \E o \in Sources(q, f) : BlkFits(q, f, o, blocks[i])
  <2>1. PICK b : b = mid[i]
    OBVIOUS
  <2>2. blocks[i] = InlineBlk(s, f, b)
    BY <1>12, <2>1
  <2>3. (\E k \in DOMAIN old : b = old[k]) \/ (\E k \in DOMAIN copies : b = copies[k])
    <3>1. old \in Seq(Range(old)) /\ copies \in Seq(Range(copies)) /\ mid = Joined(old, copies)
      BY <1>4, <1>5, <1>6 DEF Layout, Copies
    <3> QED BY <1>12, <2>1, <3>1, JoinedCases
  <2>4. CASE \E k \in DOMAIN old : b = old[k]
    <3>1. Added(p, f) = {}
      BY <1>1 DEF Added
    <3>2. PICK o \in Sources("Inlining", f) : BlkFits("Inlining", f, o, b)
      BY <1>5, <2>4, <3>1 DEF Content
    <3>3. /\ o \in Sources("NoreturnExtFunctions", f)
          /\ BlkFits("NoreturnExtFunctions", f, o, InlineBlk(s, f, b))
          /\ InlineBlk(s, f, b).tid = b.tid
      BY <1>3, <3>2, InlineOwn
    <3> QED BY <2>1, <2>2, <3>3
  <2>5. CASE \E k \in DOMAIN copies : b = copies[k]
    <3>1. PICK o \in Originals : o.tid \in tids /\ b = Copied(s, f, o)
      BY <1>6, <2>5
    <3>2. o.tid \in KeptTids
      BY <1>7, <3>1
    <3>3. /\ o \in Sources("NoreturnExtFunctions", f)
          /\ BlkFits("NoreturnExtFunctions", f, o, InlineBlk(s, f, b))
          /\ InlineBlk(s, f, b).tid = b.tid
      BY <3>1, <3>2, InlineCopy
    <3> QED BY <2>1, <2>2, <3>3
  <2> QED BY <2>3, <2>4, <2>5
<1> HIDE DEF p, q
<1>13. Layout(q, f, blocks)
  <2>1. \A i \in DOMAIN mid : blocks[i].tid = mid[i].tid
    BY <1>12
  <2> QED BY <1>2, <1>11, <2>1, SameLayout
<1>14. Content(q, f, blocks)
  BY <1>2, <1>12 DEF Content
<1> QED BY <1>13, <1>14 DEF q

InlineAll(s, f, blocks) == [i \in DOMAIN blocks |-> InlineBlk(s, f, blocks[i])]

(* The pass on the program.                                                *)
LEMMA InlineKeeps ==
  ASSUME input \in Programs, NEW s, ProgramInv("Inlining", s),
         NEW joined, \A f \in DOMAIN s : joined[f] = Joined(s[f], additional_blocks(s, f)),
         NEW new, DOMAIN new = DOMAIN s,
         \A f \in DOMAIN s : new[f] = InlineAll(s, f, joined[f])
  PROVE  ProgramInv("NoreturnExtFunctions", new)
<1> DEFINE p == "Inlining"
           q == "NoreturnExtFunctions"
<1>1. ~EmptyGone(p) /\ StubsGone(p) /\ ~EmptyGone(q) /\ StubsGone(q)
  BY DEF Inlined, StubsGone, EmptyGone
<1> HIDE DEF p, q
<1>2. ProgramInv(p, s)
  BY DEF p
<1>3. DOMAIN s = FunctionsAt(q)
  BY <1>1, <1>2 DEF ProgramInv, FunctionsAt
<1>4. ASSUME NEW f \in DOMAIN s
      PROVE  Layout(q, f, new[f]) /\ Content(q, f, new[f])
  <2>1. PICK mid, blocks : mid = joined[f] /\ blocks = new[f]
    OBVIOUS
  <2>2. mid = Joined(s[f], additional_blocks(s, f))
    BY <1>4, <2>1
  <2>3. blocks = [i \in DOMAIN mid |-> InlineBlk(s, f, mid[i])]
    BY <1>4, <2>1 DEF InlineAll
  <2>4. /\ blocks = [i \in DOMAIN mid |-> blocks[i]]
        /\ \A i \in DOMAIN mid : blocks[i] = InlineBlk(s, f, mid[i])
    BY <2>3
  <2>5. Layout(q, f, blocks) /\ Content(q, f, blocks)
    BY <2>2, <2>4, InlineBlocks DEF q
  <2> QED BY <2>1, <2>5
<1>5. ProgramInv(q, new)
  BY <1>1, <1>3, <1>4 DEF ProgramInv
<1> QED BY <1>5 DEF q

-----------------------------------------------------------------------------
(* Every step keeps the invariant.                                         *)

(* What is said about the translated program stays true.                   *)
LEMMA InputStays ==
  ASSUME input' = input
  PROVE  \A p, s : ProgramInv(p, s) <=> ProgramInv(p, s)'
<1>1. /\ Functions' = Functions /\ Originals' = Originals /\ KeptTids' = KeptTids
      /\ EmptyFns' = EmptyFns
      /\ \A f : Own(f)' = Own(f)
      /\ \A p, t : WithoutStub(p, t)' = WithoutStub(p, t)
      /\ \A t : ResolvedCall(t)' = ResolvedCall(t)
      /\ \A j : NeverReturns(j)' <=> NeverReturns(j)
  BY DEF Functions, Originals, KeptTids, EmptyFns, Own, WithoutStub, ResolvedCall, NeverReturns
<1>2. \A f, t : Moved(f, t)' = Moved(f, t)
  BY <1>1 DEF Moved
<1>3. \A p, f, t : LeadsAt(p, f, t)' = LeadsAt(p, f, t)
  BY <1>1, <1>2 DEF LeadsAt
<1>4. \A p, t : CalledAt(p, t)' = CalledAt(p, t)
  BY <1>1 DEF CalledAt
<1>5. \A p, f, o, k, j : JmpFits(p, f, o, k, j)' <=> JmpFits(p, f, o, k, j)
  BY <1>1, <1>3, <1>4 DEF JmpFits
<1>6. \A p, ts : KeptPositions(p, ts)' = KeptPositions(p, ts)
  BY <1>1 DEF KeptPositions
<1>7. \A p, f, o, ind : TargetsFit(p, f, o, ind)' <=> TargetsFit(p, f, o, ind)
  BY <1>3, <1>6 DEF TargetsFit
<1>8. \A p, f, o, b : BlkFits(p, f, o, b)' <=> BlkFits(p, f, o, b)
  BY <1>2, <1>5, <1>7 DEF BlkFits
<1>9. \A p, f : Sources(p, f)' = Sources(p, f)
  BY <1>1 DEF Sources
<1>10. \A p, f, blocks : Content(p, f, blocks)' <=> Content(p, f, blocks)
  BY <1>8, <1>9 DEF Content
<1>11. \A p, f, blocks : Layout(p, f, blocks)' <=> Layout(p, f, blocks)
  BY <1>1, <1>2 DEF Layout
<1>12. \A p : FunctionsAt(p)' = FunctionsAt(p)
  BY <1>1 DEF FunctionsAt
<1> QED BY <1>10, <1>11, <1>12 DEF ProgramInv

(* It suffices to look at the program.                                     *)
LEMMA StepKeeps ==
  ASSUME Inv, input' = input, ProgramInv(pass', subs'),
         pass' \in PassNames, pass' # "SingleTargetIndirectCalls", pass' # "done"
  PROVE  Inv'
<1>1. ProgramInv(pass, subs)'
  BY InputStays
<1> QED BY <1>1 DEF Inv

(* SingleTargetIndirectCalls keeps the invariant.                          *)
LEMMA SingleTargetStep ==
  ASSUME Inv, SingleTargetIndirectCalls
  PROVE  Inv'
<1>1. /\ input \in Programs /\ pass = "SingleTargetIndirectCalls" /\ subs = input.subs
      /\ input' = input /\ pass' = "ReorderFnBlocks"
  BY RunSteps DEF Inv, SingleTargetIndirectCalls, Run
<1>2. PICK new : new = subs'
  OBVIOUS
<1>3. new = [f \in Functions |->
               [i \in DOMAIN input.subs[f] |-> ReplaceSingleTargetCall(input.subs[f][i])]]
  BY <1>1, <1>2 DEF SingleTargetIndirectCalls, MapBlks, Functions
<1>4. ProgramInv("ReorderFnBlocks", new)
  BY <1>1, <1>3, SingleTargetKeeps
<1> QED BY <1>1, <1>2, <1>4, StepKeeps DEF PassNames

(* ReorderFnBlocks keeps the invariant.                                    *)
LEMMA ReorderStep ==
  ASSUME Inv, ReorderFnBlocks
  PROVE  Inv'
<1>1. /\ input \in Programs /\ ProgramInv("ReorderFnBlocks", subs)
      /\ input' = input /\ pass' = "ReplaceCallsToExtFns"
  BY RunSteps DEF Inv, ReorderFnBlocks, Run
<1>2. PICK s, new : s = subs /\ new = subs'
  OBVIOUS
<1>3. DOMAIN new = DOMAIN s
  BY <1>2 DEF ReorderFnBlocks
<1>4. \A f \in DOMAIN s : new[f] = StartFirst(f, s[f])
  BY <1>2 DEF ReorderFnBlocks, StartFirst
<1>5. ProgramInv("ReplaceCallsToExtFns", new)
  BY <1>1, <1>2, <1>3, <1>4, ReorderKeeps
<1> QED BY <1>1, <1>2, <1>5, StepKeeps DEF PassNames

(* ReplaceCallsToExtFns keeps the invariant.                               *)
LEMMA StubsStep ==
  ASSUME Inv, ReplaceCallsToExtFns
  PROVE  Inv'
<1>1. /\ input \in Programs /\ ProgramInv("ReplaceCallsToExtFns", subs)
      /\ input' = input /\ pass' = "Inlining"
  BY RunSteps DEF Inv, ReplaceCallsToExtFns, Run
<1>2. PICK s, new : s = subs /\ new = subs'
  OBVIOUS
<1>3. /\ DOMAIN new = DOMAIN s \ DOMAIN input.stubs
      /\ \A f \in DOMAIN new : new[f] = StubAll(s[f])
  BY <1>2 DEF ReplaceCallsToExtFns, MapBlks, MapJmps, StubAll
<1>4. ProgramInv("Inlining", new)
  BY <1>1, <1>2, <1>3, StubsKeeps
<1> QED BY <1>1, <1>2, <1>4, StepKeeps DEF PassNames

(* Inlining keeps the invariant.                                           *)
LEMMA InliningStep ==
  ASSUME Inv, Inlining
  PROVE  Inv'
<1>1. /\ input \in Programs /\ ProgramInv("Inlining", subs)
      /\ input' = input /\ pass' = "NoreturnExtFunctions"
  BY RunSteps DEF Inv, Inlining, Run
<1>2. PICK s, new : s = subs /\ new = subs'
  OBVIOUS
<1>3. PICK joined : joined = [f \in DOMAIN s |-> Joined(s[f], additional_blocks(s, f))]
  OBVIOUS
<1>4. new = [f \in DOMAIN joined |-> InlineAll(s, f, joined[f])]
  BY <1>2, <1>3 DEF Inlining, MapBlks, Joined, InlineBlk, InlineAll
<1>5. /\ DOMAIN new = DOMAIN s
      /\ \A f \in DOMAIN s : joined[f] = Joined(s[f], additional_blocks(s, f))
      /\ \A f \in DOMAIN s : new[f] = InlineAll(s, f, joined[f])
  BY <1>3, <1>4
<1>6. ProgramInv("NoreturnExtFunctions", new)
  BY <1>1, <1>2, <1>5, InlineKeeps
<1> QED BY <1>1, <1>2, <1>6, StepKeeps DEF PassNames

(* NoreturnExtFunctions keeps the invariant.                               *)
LEMMA NoreturnStep ==
  ASSUME Inv, NoreturnExtFunctions
  PROVE  Inv'
<1>1. /\ input \in Programs /\ ProgramInv("NoreturnExtFunctions", subs)
      /\ input' = input /\ pass' = "RemoveEmptyFunctions"
  BY RunSteps DEF Inv, NoreturnExtFunctions, Run
<1>2. PICK s, new : s = subs /\ new = subs'
  OBVIOUS
<1>3. PICK added : added = [f \in DOMAIN s |-> WithReturnTarget(f, s[f])]
  OBVIOUS
<1>4. new = [f \in DOMAIN added |-> MarkAll(f, added[f])]
  BY <1>2, <1>3 DEF NoreturnExtFunctions, MapBlks, MapJmps, WithReturnTarget, MarkBlk, MarkAll
<1>5. /\ DOMAIN new = DOMAIN s
      /\ \A f \in DOMAIN s : added[f] = WithReturnTarget(f, s[f])
      /\ \A f \in DOMAIN s : new[f] = MarkAll(f, added[f])
  BY <1>3, <1>4
<1>6. ProgramInv("RemoveEmptyFunctions", new)
  BY <1>1, <1>2, <1>5, MarkKeeps
<1> QED BY <1>1, <1>2, <1>6, StepKeeps DEF PassNames

(* RemoveEmptyFunctions keeps the invariant.                               *)
LEMMA EmptyStep ==
  ASSUME Inv, RemoveEmptyFunctions
  PROVE  Inv'
<1>1. /\ input \in Programs /\ ProgramInv("RemoveEmptyFunctions", subs)
      /\ input' = input /\ pass' = "PatchCf"
  BY RunSteps DEF Inv, RemoveEmptyFunctions, Run
<1>2. PICK s, new, empty : s = subs /\ new = subs' /\ empty = EmptyIn(s)
  OBVIOUS
<1>3. PICK kept : kept = [f \in (DOMAIN s \ empty) \cup {SinkFn} |-> WithSinkFn(s, f)]
  OBVIOUS
<1>4. new = [f \in DOMAIN kept |-> EmptyAll(f, empty, kept[f])]
  BY <1>2, <1>3 DEF RemoveEmptyFunctions, MapBlks, MapJmps, EmptyBlk, EmptyAll, EmptyIn, WithSinkFn
<1>5. /\ DOMAIN kept = (DOMAIN s \ empty) \cup {SinkFn}
      /\ \A f \in DOMAIN kept : kept[f] = WithSinkFn(s, f)
      /\ DOMAIN new = DOMAIN kept
      /\ \A f \in DOMAIN kept : new[f] = EmptyAll(f, empty, kept[f])
  BY <1>3, <1>4
<1>6. ProgramInv("PatchCf", new)
  BY <1>1, <1>2, <1>5, EmptyKeeps
<1> QED BY <1>1, <1>2, <1>6, StepKeeps DEF PassNames

(* PatchCf keeps the invariant.                                            *)
LEMMA PatchStep ==
  ASSUME Inv, PatchCf
  PROVE  Inv'
<1>1. /\ input \in Programs /\ ProgramInv("PatchCf", subs)
      /\ input' = input /\ pass' = "EntryPoints"
  BY RunSteps DEF Inv, PatchCf, Run
<1>2. PICK s, new : s = subs /\ new = subs'
  OBVIOUS
<1>3. PICK sinks : sinks = [f \in DOMAIN s |-> WithSink(f, s[f])]
  OBVIOUS
<1>4. new = [f \in DOMAIN sinks |-> PatchAll(sinks, f, sinks[f])]
  <2>1. new = PatchBlks(sinks)
    BY <1>2, <1>3 DEF PatchCf, WithSink
  <2> QED BY <2>1 DEF PatchBlks, MapBlks, PatchAll
<1>5. /\ DOMAIN sinks = DOMAIN s /\ DOMAIN new = DOMAIN s
      /\ \A f \in DOMAIN s : sinks[f] = WithSink(f, s[f])
      /\ \A f \in DOMAIN s : new[f] = PatchAll(sinks, f, sinks[f])
  BY <1>3, <1>4
<1>6. ProgramInv("EntryPoints", new)
  BY <1>1, <1>2, <1>5, PatchKeeps
<1> QED BY <1>1, <1>2, <1>6, StepKeeps DEF PassNames

(* EntryPoints establishes its postcondition and changes no block.         *)
LEMMA EntryPointsStep ==
  ASSUME Inv, EntryPoints
  PROVE  Inv'
<1>1. /\ input \in Programs /\ ProgramInv("EntryPoints", subs)
      /\ input' = input /\ pass' = "done" /\ subs' = subs
  BY RunSteps DEF Inv, EntryPoints, Run
<1>2. \A f : Added("EntryPoints", f) = Added("done", f) /\ Sources("EntryPoints", f) = Sources("done", f)
  BY DEF Added, Sources, Inlined, Marked, Patched
<1>3. /\ \A t : CalledAt("EntryPoints", t) = CalledAt("done", t)
      /\ \A f, t : LeadsAt("EntryPoints", f, t) = LeadsAt("done", f, t)
      /\ \A ts : KeptPositions("EntryPoints", ts) = KeptPositions("done", ts)
  BY DEF CalledAt, LeadsAt, KeptPositions, Inlined, Patched
<1>4. \A f, o, k, j : JmpFits("EntryPoints", f, o, k, j) => JmpFits("done", f, o, k, j)
  BY <1>3 DEF JmpFits, Marked
<1>5. \A f, o, ind : TargetsFit("EntryPoints", f, o, ind) => TargetsFit("done", f, o, ind)
  BY <1>3 DEF TargetsFit
<1>6. \A f, o, b : BlkFits("EntryPoints", f, o, b) => BlkFits("done", f, o, b)
  BY <1>4, <1>5 DEF BlkFits
<1>7. \A f, blocks : Content("EntryPoints", f, blocks) => Content("done", f, blocks)
  BY <1>2, <1>6 DEF Content
<1>8. \A f, blocks : Layout("EntryPoints", f, blocks) => Layout("done", f, blocks)
  BY DEF Layout, Reordered, StubsGone, Inlined, Marked, Patched
<1>9. FunctionsAt("done") = FunctionsAt("EntryPoints")
  BY DEF FunctionsAt, EmptyGone
<1>10. ProgramInv("done", subs)
  BY <1>1, <1>7, <1>8, <1>9 DEF ProgramInv, EmptyGone
<1>11. ProgramInv(pass, subs)'
  BY <1>1, <1>10, InputStays
<1>12. EntryPointsPost'
  BY <1>1 DEF EntryPoints, EntryPointsPost
<1> QED BY <1>1, <1>11, <1>12 DEF Inv, PassNames

-----------------------------------------------------------------------------
(* The specification.                                                      *)

(* What has become of every block of the translated program is known       *)
(* before each of the passes.                                              *)
THEOREM Invariance == Spec => []Inv
<1>1. Init => Inv
  <2> SUFFICES ASSUME Init
               PROVE  Inv
    OBVIOUS
  <2>1. input \in Programs /\ pass = "SingleTargetIndirectCalls" /\ subs = input.subs
    BY PassOrder DEF Init
  <2>2. ProgramInv("SingleTargetIndirectCalls", input.subs)
    BY <2>1, InitCorrect
  <2> QED BY <2>1, <2>2 DEF Inv, PassNames
<1>2. Inv /\ [Next]_vars => Inv'
  <2> SUFFICES ASSUME Inv, [Next]_vars
               PROVE  Inv'
    OBVIOUS
  <2>1. CASE SingleTargetIndirectCalls
    BY <2>1, SingleTargetStep
  <2>2. CASE ReorderFnBlocks
    BY <2>2, ReorderStep
  <2>3. CASE ReplaceCallsToExtFns
    BY <2>3, StubsStep
  <2>4. CASE Inlining
    BY <2>4, InliningStep
  <2>5. CASE NoreturnExtFunctions
    BY <2>5, NoreturnStep
  <2>6. CASE RemoveEmptyFunctions
    BY <2>6, EmptyStep
  <2>7. CASE PatchCf
    BY <2>7, PatchStep
  <2>8. CASE EntryPoints
    BY <2>8, EntryPointsStep
  <2>9. CASE UNCHANGED vars
    <3>1. /\ input' = input /\ pass' = pass /\ subs' = subs /\ entry_points' = entry_points
      BY <2>9 DEF vars
    <3>2. ProgramInv(pass', subs')
      BY <3>1 DEF Inv
    <3>3. ProgramInv(pass, subs)'
      BY <3>1, <3>2, InputStays
    <3> QED BY <3>1, <3>3 DEF Inv, EntryPointsPost
  <2> QED BY <2>1, <2>2, <2>3, <2>4, <2>5, <2>6, <2>7, <2>8, <2>9 DEF Next
<1> QED BY <1>1, <1>2, PTL DEF Spec

(* Every postcondition that a pass asserts holds from the end of the pass  *)
(* on: no later pass invalidates it, for any program.                      *)
THEOREM PostconditionsCorrect == Spec => []PostconditionsPersist
BY Invariance, InvPostconditions, PTL

(* The blocks that inlining copies and the artificial blocks never collide *)
(* with a block of any function.                                           *)
THEOREM TidsCorrect == Spec => []BlockTidsUnique
<1>1. Inv => BlockTidsUnique
  BY InvUnique DEF Inv, BlockTidsUnique
<1> QED BY <1>1, Invariance, PTL

(* In the normal form every jump, call, return site and indirect target    *)
(* leads to what it led to in the translated program, to an artificial     *)
(* block only if that does not exist or never returns.                     *)
THEOREM ControlFlowCorrect == Spec => []ControlFlowPreserved
BY Invariance, InvControlFlow, PTL
=============================================================================
