------------------------ MODULE InterproceduralProofs ------------------------
(***************************************************************************)
(* Proofs about Interprocedural for all programs, whatever the number of   *)
(* functions and blocks, all block effects, register contents and call     *)
(* depths, and whichever unstable edge is applied next.                    *)
(***************************************************************************)
EXTENDS Interprocedural, SequenceTheorems, TLAPS

Blks == DOMAIN program.blks
Subs == DOMAIN program.subs

(* What the provers need to know about the analysed program.               *)
LEMMA ProgramFacts ==
  ASSUME program \in Programs
  PROVE  /\ None \notin Blks
         /\ program.entry \in DOMAIN call_targets
         /\ \A b \in Blks :
              /\ program.blks[b].def \in [States -> States]
              /\ DOMAIN Jmps(b) \subseteq {1, 2}
              /\ 2 \in DOMAIN Jmps(b) =>
                   1 \in DOMAIN Jmps(b) /\ Jmps(b)[1].kind = "CBranch" /\ Jmps(b)[2].kind # "CBranch"
              /\ \A jmp \in DOMAIN Jmps(b) : NextBlocks(b, jmp) \subseteq Blks
         /\ \A f \in Subs : \A i \in DOMAIN program.subs[f] : program.subs[f][i] \in Blks
         /\ \A f \in DOMAIN call_targets :
              /\ f \in Subs /\ 1 \in DOMAIN program.subs[f]
              /\ call_targets[f] = BlkStart(program.subs[f][1], f)
<1>1. /\ None \notin Blks
      /\ \A b \in Blks : IsBlk(program.blks[b], Blks)
      /\ \A f \in Subs : program.subs[f] \in Seq(Blks)
      /\ program.entry \in Subs /\ program.subs[program.entry] # <<>>
  BY ProgramsAssumption DEF Blks, Subs
<1>2. ASSUME NEW b \in Blks
      PROVE  /\ program.blks[b].def \in [States -> States]
             /\ DOMAIN Jmps(b) \subseteq {1, 2}
             /\ 2 \in DOMAIN Jmps(b) =>
                  1 \in DOMAIN Jmps(b) /\ Jmps(b)[1].kind = "CBranch" /\ Jmps(b)[2].kind # "CBranch"
  BY <1>1 DEF IsBlk, Jmps
<1>3. ASSUME NEW b \in Blks, NEW jmp \in DOMAIN Jmps(b)
      PROVE  NextBlocks(b, jmp) \subseteq Blks
  <2>1. IsJmp(Jmps(b)[jmp], Blks) /\ program.blks[b].ind \subseteq Blks
    BY <1>1 DEF IsBlk, Jmps
  <2>. QED BY <2>1 DEF NextBlocks, IsJmp
<1>4. ASSUME NEW f \in Subs
      PROVE  /\ \A i \in DOMAIN program.subs[f] : program.subs[f][i] \in Blks
             /\ program.subs[f] # <<>> => 1 \in DOMAIN program.subs[f]
  BY <1>1, LenProperties, EmptySeq, ElementOfSeq
<1>5. ASSUME NEW f \in DOMAIN call_targets
      PROVE  /\ f \in Subs /\ 1 \in DOMAIN program.subs[f]
             /\ call_targets[f] = BlkStart(program.subs[f][1], f)
  BY <1>4 DEF call_targets, Subs
<1>6. program.entry \in DOMAIN call_targets
  BY <1>1 DEF call_targets, Subs
<1>. QED BY <1>1, <1>2, <1>3, <1>4, <1>5, <1>6

-----------------------------------------------------------------------------
(* The graph                                                               *)

IsStart(n) ==
  n.kind = "BlkStart" /\ n = BlkStart(n.blk, n.sub) /\ n.blk \in Blks /\ n.sub \in Subs
IsEnd(n) ==
  n.kind = "BlkEnd" /\ n = BlkEnd(n.blk, n.sub) /\ n.blk \in Blks /\ n.sub \in Subs
IsCall(n) ==
  n.kind = "CallSource" /\ n = CallSource(n.source, n.target) /\ IsEnd(n.source) /\ IsStart(n.target)
IsReturn(n) ==
  n.kind = "CallReturn" /\ n = CallReturn(n.call, n.return) /\ IsEnd(n.call) /\ IsEnd(n.return)

\* What edges of each kind connect.
EdgeFits(e) ==
  \/ e.kind = "Block" /\ IsStart(e.from) /\ IsEnd(e.to) /\ e.to = BlkEnd(e.from.blk, e.from.sub)
  \/ e.kind \in {"Jump", "ExternCallStub"} /\ IsEnd(e.from) /\ IsStart(e.to)
  \/ e.kind = "CallCombine" /\ IsEnd(e.from) /\ IsCall(e.to) /\ e.to.source = e.from
  \/ e.kind = "Call" /\ IsCall(e.from) /\ IsStart(e.to)
  \/ e.kind = "CrCallStub" /\ IsCall(e.from) /\ IsReturn(e.to) /\ e.to.call = e.from.source
  \/ e.kind = "CrReturnStub" /\ IsEnd(e.from) /\ IsReturn(e.to)
  \/ e.kind = "ReturnCombine" /\ IsReturn(e.from) /\ IsStart(e.to)

IsBuilder(g) ==
  g = [nodes |-> g.nodes, edges |-> g.edges, jump_targets |-> g.jump_targets,
       block_worklist |-> g.block_worklist, return_addresses |-> g.return_addresses]

\* Every block of jump_targets has its nodes and the edge between them.
BlocksKnown(g) ==
  \A p \in g.jump_targets :
    /\ p \in Blks \X Subs
    /\ BlkStart(p[1], p[2]) \in g.nodes /\ BlkEnd(p[1], p[2]) \in g.nodes
    /\ Edge(BlkStart(p[1], p[2]), BlkEnd(p[1], p[2]), "Block", 0) \in g.edges

NodesFit(g) ==
  \A n \in g.nodes :
    /\ IsStart(n) \/ IsEnd(n) \/ IsCall(n) \/ IsReturn(n)
    /\ IsStart(n) \/ IsEnd(n) => <<n.blk, n.sub>> \in g.jump_targets

EdgesFit(g) ==
  \A e \in g.edges : EdgeFits(e) /\ e.from \in g.nodes /\ e.to \in g.nodes

AddressesFit(g) ==
  /\ DOMAIN g.return_addresses = Subs
  /\ \A f \in Subs : \A r \in g.return_addresses[f] :
       IsCall(r[1]) /\ r[1] \in g.nodes /\ IsStart(r[2]) /\ r[2] \in g.nodes

CalleesKnown(g) ==
  \A f \in DOMAIN call_targets : <<program.subs[f][1], f>> \in g.jump_targets

\* All that add_outgoing_edges has to do for a block.
Expanded(g, source) ==
  /\ \A jmp \in DOMAIN Jmps(source.blk) : JumpEdges(source, jmp) \subseteq g.edges
  /\ CallNodes(source) \subseteq g.nodes
  /\ \A f \in Subs : ReturnAddresses(source, f) \subseteq g.return_addresses[f]

\* A block that is not in the work list has its edges.
WorkRemembered(g) ==
  /\ \A n \in g.block_worklist : IsEnd(n) /\ n \in g.nodes
  /\ \A p \in g.jump_targets :
       BlkEnd(p[1], p[2]) \in g.block_worklist \/ Expanded(g, BlkEnd(p[1], p[2]))

GraphFits(g) ==
  IsBuilder(g) /\ BlocksKnown(g) /\ NodesFit(g) /\ EdgesFit(g) /\ AddressesFit(g)

GraphInv(g) == GraphFits(g) /\ CalleesKnown(g) /\ WorkRemembered(g)

(* Nodes of different kinds differ.                                        *)
LEMMA NodeKinds ==
  ASSUME NEW n
  PROVE  /\ IsStart(n) => n.kind = "BlkStart"
         /\ IsEnd(n) => n.kind = "BlkEnd"
         /\ IsCall(n) => n.kind = "CallSource"
         /\ IsReturn(n) => n.kind = "CallReturn"
<1>1. IsStart(n) => n.kind = "BlkStart"
  BY DEF IsStart, BlkStart
<1>2. IsEnd(n) => n.kind = "BlkEnd"
  BY DEF IsEnd, BlkEnd
<1>3. IsCall(n) => n.kind = "CallSource"
  BY DEF IsCall, CallSource
<1>4. IsReturn(n) => n.kind = "CallReturn"
  BY DEF IsReturn, CallReturn
<1>. QED BY <1>1, <1>2, <1>3, <1>4

LEMMA NodeFields ==
  ASSUME NEW b, NEW f
  PROVE  /\ BlkStart(b, f).blk = b /\ BlkStart(b, f).sub = f
         /\ BlkEnd(b, f).blk = b /\ BlkEnd(b, f).sub = f
         /\ CallSource(b, f).source = b /\ CallSource(b, f).target = f
         /\ CallReturn(b, f).call = b /\ CallReturn(b, f).return = f
         /\ CallSource(b, f).kind = "CallSource" /\ CallReturn(b, f).kind = "CallReturn"
         /\ b \in Blks /\ f \in Subs => IsStart(BlkStart(b, f)) /\ IsEnd(BlkEnd(b, f))
BY DEF BlkStart, BlkEnd, CallSource, CallReturn, IsStart, IsEnd

LEMMA EdgeFields ==
  ASSUME NEW a, NEW b, NEW kind, NEW jmp
  PROVE  /\ Edge(a, b, kind, jmp).from = a /\ Edge(a, b, kind, jmp).to = b
         /\ Edge(a, b, kind, jmp).kind = kind /\ Edge(a, b, kind, jmp).jmp = jmp
BY DEF Edge

(* Adding blocks keeps the graph in shape, and remembers the new blocks.   *)
LEMMA AddBlocksKeeps ==
  ASSUME program \in Programs, NEW g, GraphFits(g), NEW blocks, blocks \subseteq Blks \X Subs
  PROVE  LET h == AddBlocks(g, blocks) IN
           /\ GraphFits(h)
           /\ g.nodes \subseteq h.nodes /\ g.edges \subseteq h.edges
           /\ h.jump_targets = g.jump_targets \cup blocks
           /\ h.return_addresses = g.return_addresses
           /\ g.block_worklist \subseteq h.block_worklist
           /\ \A n \in h.block_worklist : n \in g.block_worklist \/ (IsEnd(n) /\ n \in h.nodes)
           /\ \A p \in h.jump_targets :
                p \in g.jump_targets \/ BlkEnd(p[1], p[2]) \in h.block_worklist
<1>. DEFINE new == blocks \ g.jump_targets
            h == AddBlocks(g, blocks)
<1>2. /\ h.nodes = g.nodes \cup {BlkStart(p[1], p[2]) : p \in new}
                           \cup {BlkEnd(p[1], p[2]) : p \in new}
      /\ h.edges = g.edges \cup
           {Edge(BlkStart(p[1], p[2]), BlkEnd(p[1], p[2]), "Block", 0) : p \in new}
      /\ h.jump_targets = g.jump_targets \cup new
      /\ h.block_worklist = g.block_worklist \cup {BlkEnd(p[1], p[2]) : p \in new}
      /\ h.return_addresses = g.return_addresses
      /\ IsBuilder(h)
  BY DEF AddBlocks, IsBuilder
<1>3. \A p \in new : p \in Blks \X Subs /\ p = <<p[1], p[2]>> /\ p[1] \in Blks /\ p[2] \in Subs
  OBVIOUS
<1>. HIDE DEF h, new
<1>4. BlocksKnown(h)
  BY <1>2, <1>3 DEF GraphFits, BlocksKnown
<1>5. NodesFit(h)
  <2>. SUFFICES ASSUME NEW n \in h.nodes
                PROVE  /\ IsStart(n) \/ IsEnd(n) \/ IsCall(n) \/ IsReturn(n)
                       /\ IsStart(n) \/ IsEnd(n) => <<n.blk, n.sub>> \in h.jump_targets
    BY DEF NodesFit
  <2>1. CASE n \in g.nodes
    BY <1>2, <2>1 DEF GraphFits, NodesFit
  <2>2. CASE n \notin g.nodes
    <3>1. PICK p \in new : n = BlkStart(p[1], p[2]) \/ n = BlkEnd(p[1], p[2])
      BY <1>2, <2>2
    <3>2. n.blk = p[1] /\ n.sub = p[2] /\ (IsStart(n) \/ IsEnd(n))
      BY <1>3, <3>1, NodeFields
    <3>. QED BY <1>2, <1>3, <3>2
  <2>. QED BY <2>1, <2>2
<1>6. EdgesFit(h)
  <2>. SUFFICES ASSUME NEW e \in h.edges
                PROVE  EdgeFits(e) /\ e.from \in h.nodes /\ e.to \in h.nodes
    BY DEF EdgesFit
  <2>1. CASE e \in g.edges
    BY <1>2, <2>1 DEF GraphFits, EdgesFit
  <2>2. CASE e \notin g.edges
    <3>1. PICK p \in new : e = Edge(BlkStart(p[1], p[2]), BlkEnd(p[1], p[2]), "Block", 0)
      BY <1>2, <2>2
    <3>2. /\ e.from = BlkStart(p[1], p[2]) /\ e.to = BlkEnd(p[1], p[2]) /\ e.kind = "Block"
      BY <3>1, EdgeFields
    <3>3. IsStart(e.from) /\ IsEnd(e.to) /\ e.to = BlkEnd(e.from.blk, e.from.sub)
      BY <1>3, <3>2, NodeFields
    <3>4. e.from \in h.nodes /\ e.to \in h.nodes
      BY <1>2, <3>2
    <3>. QED BY <3>2, <3>3, <3>4 DEF EdgeFits
  <2>. QED BY <2>1, <2>2
<1>7. AddressesFit(h)
  BY <1>2 DEF GraphFits, AddressesFit
<1>8. \A n \in h.block_worklist : n \in g.block_worklist \/ (IsEnd(n) /\ n \in h.nodes)
  BY <1>2, <1>3, NodeFields
<1>9. \A p \in h.jump_targets :
        p \in g.jump_targets \/ BlkEnd(p[1], p[2]) \in h.block_worklist
  BY <1>2
<1>10. h.jump_targets = g.jump_targets \cup blocks
  BY <1>2 DEF new
<1>. QED BY <1>2, <1>4, <1>5, <1>6, <1>7, <1>8, <1>9, <1>10 DEF GraphFits, h

LEMMA ExpandedGrows ==
  ASSUME NEW g, NEW h, NEW source, Expanded(g, source),
         g.nodes \subseteq h.nodes, g.edges \subseteq h.edges,
         \A f \in Subs : g.return_addresses[f] \subseteq h.return_addresses[f]
  PROVE  Expanded(h, source)
BY DEF Expanded

(* What a jump adds to the graph fits.                                     *)
LEMMA JumpEdgesFit ==
  ASSUME program \in Programs, NEW source, IsEnd(source),
         NEW jmp \in DOMAIN Jmps(source.blk), NEW e \in JumpEdges(source, jmp)
  PROVE  /\ EdgeFits(e)
         /\ e.from = source \/ e.from \in CallNodes(source)
         /\ \/ e.to \in CallNodes(source)
            \/ \E f \in DOMAIN call_targets : e.to = call_targets[f]
            \/ \E t \in NextBlocks(source.blk, jmp) : e.to = BlkStart(t, source.sub)
<1>. DEFINE j == Jmps(source.blk)[jmp]
<1>1. source.blk \in Blks /\ source.sub \in Subs
  BY DEF IsEnd
<1>2. \A t \in NextBlocks(source.blk, jmp) : IsStart(BlkStart(t, source.sub))
  BY <1>1, ProgramFacts, NodeFields
<1>3. ASSUME NEW kind \in {"Jump", "ExternCallStub"}, e \in EdgesTo(source, jmp, kind)
      PROVE  /\ EdgeFits(e) /\ e.from = source
             /\ \E t \in NextBlocks(source.blk, jmp) : e.to = BlkStart(t, source.sub)
  <2>1. PICK t \in NextBlocks(source.blk, jmp) : e = Edge(source, BlkStart(t, source.sub), kind, jmp)
    BY <1>3 DEF EdgesTo
  <2>2. e.from = source /\ e.to = BlkStart(t, source.sub) /\ e.kind = kind
    BY <2>1, EdgeFields
  <2>. QED BY <1>2, <2>2 DEF EdgeFits
<1>4. CASE j.kind \in {"Branch", "CBranch", "BranchInd"}
  <2>1. e \in EdgesTo(source, jmp, "Jump")
    BY <1>4 DEF JumpEdges, IsExternCall, IsInternalCall
  <2>. QED BY <1>3, <2>1
<1>5. CASE IsExternCall(j)
  <2>1. e \in EdgesTo(source, jmp, "ExternCallStub")
    BY <1>5 DEF JumpEdges, IsExternCall, IsInternalCall
  <2>. QED BY <1>3, <2>1
<1>6. CASE IsInternalCall(j)
  <2>. DEFINE c == CallNode(source, j)
  <2>1. e \in {Edge(source, c, "CallCombine", jmp), Edge(c, call_targets[j.target], "Call", jmp)}
    BY <1>6 DEF JumpEdges, IsInternalCall, IsExternCall
  <2>2. c \in CallNodes(source)
    BY <1>6 DEF CallNodes, InternalCalls
  <2>3. j.target \in DOMAIN call_targets
    BY <1>6 DEF IsInternalCall
  <2>4. /\ c = CallSource(source, call_targets[j.target]) /\ IsStart(call_targets[j.target])
    BY <2>3, ProgramFacts, NodeFields DEF CallNode
  <2>5. IsCall(c) /\ c.source = source
    BY <2>4, NodeFields DEF IsCall
  <2>6. CASE e = Edge(source, c, "CallCombine", jmp)
    BY <2>2, <2>5, <2>6, EdgeFields DEF EdgeFits
  <2>7. CASE e = Edge(c, call_targets[j.target], "Call", jmp)
    BY <2>2, <2>3, <2>4, <2>5, <2>7, EdgeFields DEF EdgeFits
  <2>. QED BY <2>1, <2>6, <2>7
<1>7. CASE ~ (j.kind \in {"Branch", "CBranch", "BranchInd"} \/ IsExternCall(j) \/ IsInternalCall(j))
  BY <1>7 DEF JumpEdges
<1>. QED BY <1>4, <1>5, <1>6, <1>7

LEMMA CallNodesFit ==
  ASSUME program \in Programs, NEW source, IsEnd(source), NEW c \in CallNodes(source)
  PROVE  IsCall(c) /\ c.source = source
<1>1. PICK jmp \in InternalCalls(source) : c = CallNode(source, Jmps(source.blk)[jmp])
  BY DEF CallNodes
<1>2. Jmps(source.blk)[jmp].target \in DOMAIN call_targets
  BY DEF InternalCalls, IsInternalCall
<1>3. /\ c = CallSource(source, call_targets[Jmps(source.blk)[jmp].target])
      /\ IsStart(call_targets[Jmps(source.blk)[jmp].target])
  BY <1>1, <1>2, ProgramFacts, NodeFields DEF CallNode
<1>. QED BY <1>3, NodeFields DEF IsCall

LEMMA ReturnAddressesFit ==
  ASSUME program \in Programs, NEW source, IsEnd(source), NEW f,
         NEW r \in ReturnAddresses(source, f)
  PROVE  /\ r[1] \in CallNodes(source)
         /\ \E jmp \in DOMAIN Jmps(source.blk) : \E t \in NextBlocks(source.blk, jmp) :
              r[2] = BlkStart(t, source.sub)
<1>1. PICK jmp \in InternalCalls(source) :
        /\ Jmps(source.blk)[jmp].return # None
        /\ r = <<CallNode(source, Jmps(source.blk)[jmp]),
                 BlkStart(Jmps(source.blk)[jmp].return, source.sub)>>
  BY DEF ReturnAddresses
<1>2. jmp \in DOMAIN Jmps(source.blk) /\ Jmps(source.blk)[jmp].kind = "Call"
  BY DEF InternalCalls, IsInternalCall
<1>3. Jmps(source.blk)[jmp].return \in NextBlocks(source.blk, jmp)
  BY <1>1, <1>2 DEF NextBlocks
<1>. QED BY <1>1, <1>2, <1>3 DEF CallNodes

(* One iteration of add_jump_and_call_edges keeps the graph in shape, and  *)
(* no block is forgotten.                                                  *)
LEMMA OutgoingKeeps ==
  ASSUME program \in Programs, NEW g, GraphInv(g), NEW source \in g.block_worklist
  PROVE  GraphInv(add_outgoing_edges([g EXCEPT !.block_worklist = @ \ {source}], source))
<1>. DEFINE popped == [g EXCEPT !.block_worklist = @ \ {source}]
            jmps == DOMAIN Jmps(source.blk)
            next == (UNION {NextBlocks(source.blk, jmp) : jmp \in jmps}) \X {source.sub}
            a == AddBlocks(popped, next)
            h == add_outgoing_edges(popped, source)
<1>1. IsEnd(source) /\ source \in g.nodes /\ source.blk \in Blks /\ source.sub \in Subs
  BY DEF GraphInv, WorkRemembered, IsEnd
<1>2. /\ popped.nodes = g.nodes /\ popped.edges = g.edges
      /\ popped.jump_targets = g.jump_targets
      /\ popped.return_addresses = g.return_addresses
      /\ popped.block_worklist = g.block_worklist \ {source}
      /\ IsBuilder(popped)
  BY DEF GraphInv, GraphFits, IsBuilder
<1>3. GraphFits(popped)
  BY <1>2 DEF GraphInv, GraphFits, BlocksKnown, NodesFit, EdgesFit, AddressesFit
<1>4. next \subseteq Blks \X Subs
  BY <1>1, ProgramFacts
<1>. HIDE DEF popped
<1>5. /\ GraphFits(a)
      /\ popped.nodes \subseteq a.nodes /\ popped.edges \subseteq a.edges
      /\ a.jump_targets = popped.jump_targets \cup next
      /\ a.return_addresses = popped.return_addresses
      /\ popped.block_worklist \subseteq a.block_worklist
      /\ \A n \in a.block_worklist : n \in popped.block_worklist \/ (IsEnd(n) /\ n \in a.nodes)
      /\ \A p \in a.jump_targets :
           p \in popped.jump_targets \/ BlkEnd(p[1], p[2]) \in a.block_worklist
  BY <1>3, <1>4, AddBlocksKeeps
<1>6. /\ h.nodes = a.nodes \cup CallNodes(source)
      /\ h.edges = a.edges \cup UNION {JumpEdges(source, jmp) : jmp \in jmps}
      /\ h.jump_targets = a.jump_targets
      /\ h.block_worklist = a.block_worklist
      /\ h.return_addresses = WithReturnAddresses(a.return_addresses, source)
      /\ IsBuilder(h)
  <2>1. h = [a EXCEPT
               !.nodes = @ \cup CallNodes(source),
               !.edges = @ \cup UNION {JumpEdges(source, jmp) : jmp \in jmps},
               !.return_addresses = WithReturnAddresses(@, source)]
    BY DEF add_outgoing_edges
  <2>2. IsBuilder(a)
    BY <1>5 DEF GraphFits
  <2>. HIDE DEF a, h, jmps
  <2>. QED BY <2>1, <2>2 DEF IsBuilder
<1>7. /\ \A jmp \in jmps : \A t \in NextBlocks(source.blk, jmp) :
           <<t, source.sub>> \in next /\ BlkStart(t, source.sub) \in h.nodes
  <2>. SUFFICES ASSUME NEW jmp \in jmps, NEW t \in NextBlocks(source.blk, jmp)
                PROVE  <<t, source.sub>> \in next /\ BlkStart(t, source.sub) \in h.nodes
    OBVIOUS
  <2>1. <<t, source.sub>> \in next
    OBVIOUS
  <2>2. BlkStart(t, source.sub) \in a.nodes
    BY <1>5, <2>1 DEF GraphFits, BlocksKnown
  <2>. QED BY <1>6, <2>1, <2>2
<1>8. \A f \in DOMAIN call_targets : call_targets[f] \in g.nodes
  BY ProgramFacts DEF GraphInv, CalleesKnown, GraphFits, BlocksKnown
<1>. HIDE DEF next, a, h
<1>9. /\ DOMAIN h.return_addresses = Subs
      /\ \A f \in Subs : h.return_addresses[f] = g.return_addresses[f] \cup ReturnAddresses(source, f)
  <2>1. DOMAIN g.return_addresses = Subs
    BY DEF GraphInv, GraphFits, AddressesFit
  <2>2. h.return_addresses = WithReturnAddresses(g.return_addresses, source)
    BY <1>2, <1>5, <1>6
  <2>. QED BY <2>1, <2>2 DEF WithReturnAddresses
<1>10. BlocksKnown(h)
  BY <1>5, <1>6 DEF GraphFits, BlocksKnown
<1>11. NodesFit(h)
  <2>. SUFFICES ASSUME NEW n \in h.nodes
                PROVE  /\ IsStart(n) \/ IsEnd(n) \/ IsCall(n) \/ IsReturn(n)
                       /\ IsStart(n) \/ IsEnd(n) => <<n.blk, n.sub>> \in h.jump_targets
    BY DEF NodesFit
  <2>1. CASE n \in a.nodes
    BY <1>5, <1>6, <2>1 DEF GraphFits, NodesFit
  <2>2. CASE n \in CallNodes(source)
    BY <1>1, <2>2, CallNodesFit, NodeKinds
  <2>. QED BY <1>6, <2>1, <2>2
<1>12. EdgesFit(h)
  <2>. SUFFICES ASSUME NEW e \in h.edges
                PROVE  EdgeFits(e) /\ e.from \in h.nodes /\ e.to \in h.nodes
    BY DEF EdgesFit
  <2>1. CASE e \in a.edges
    BY <1>5, <1>6, <2>1 DEF GraphFits, EdgesFit
  <2>2. CASE e \notin a.edges
    <3>1. PICK jmp \in jmps : e \in JumpEdges(source, jmp)
      BY <1>6, <2>2
    <3>2. /\ EdgeFits(e)
          /\ e.from = source \/ e.from \in CallNodes(source)
          /\ \/ e.to \in CallNodes(source)
             \/ \E f \in DOMAIN call_targets : e.to = call_targets[f]
             \/ \E t \in NextBlocks(source.blk, jmp) : e.to = BlkStart(t, source.sub)
      BY <1>1, <3>1, JumpEdgesFit
    <3>3. g.nodes \subseteq h.nodes /\ CallNodes(source) \subseteq h.nodes
      BY <1>2, <1>5, <1>6
    <3>. QED BY <1>1, <1>7, <1>8, <3>2, <3>3
  <2>. QED BY <2>1, <2>2
<1>13. AddressesFit(h)
  <2>. SUFFICES ASSUME NEW f \in Subs, NEW r \in h.return_addresses[f]
                PROVE  IsCall(r[1]) /\ r[1] \in h.nodes /\ IsStart(r[2]) /\ r[2] \in h.nodes
    BY <1>9 DEF AddressesFit
  <2>1. CASE r \in g.return_addresses[f]
    BY <1>2, <1>5, <1>6, <2>1 DEF GraphInv, GraphFits, AddressesFit
  <2>2. CASE r \in ReturnAddresses(source, f)
    <3>1. r[1] \in CallNodes(source)
      BY <1>1, <2>2, ReturnAddressesFit
    <3>2. PICK jmp \in jmps : \E t \in NextBlocks(source.blk, jmp) : r[2] = BlkStart(t, source.sub)
      BY <1>1, <2>2, ReturnAddressesFit
    <3>3. PICK t \in NextBlocks(source.blk, jmp) : r[2] = BlkStart(t, source.sub)
      BY <3>2
    <3>4. t \in Blks
      BY <1>1, ProgramFacts
    <3>5. IsStart(r[2])
      BY <1>1, <3>3, <3>4, NodeFields
    <3>6. r[2] \in h.nodes
      BY <1>7, <3>3
    <3>7. IsCall(r[1])
      BY <1>1, <3>1, CallNodesFit
    <3>. QED BY <1>6, <3>1, <3>5, <3>6, <3>7
  <2>. QED BY <1>9, <2>1, <2>2
<1>14. CalleesKnown(h)
  BY <1>2, <1>5, <1>6 DEF GraphInv, CalleesKnown
<1>15. Expanded(h, source)
  BY <1>6, <1>9 DEF Expanded
<1>16. WorkRemembered(h)
  <2>1. \A n \in h.block_worklist : IsEnd(n) /\ n \in h.nodes
    BY <1>2, <1>5, <1>6 DEF GraphInv, WorkRemembered
  <2>2. ASSUME NEW p \in h.jump_targets
        PROVE  BlkEnd(p[1], p[2]) \in h.block_worklist \/ Expanded(h, BlkEnd(p[1], p[2]))
    <3>1. CASE p \notin g.jump_targets
      BY <1>2, <1>5, <1>6, <3>1
    <3>2. CASE p \in g.jump_targets /\ BlkEnd(p[1], p[2]) \in g.block_worklist
      BY <1>2, <1>5, <1>6, <1>15, <3>2
    <3>3. CASE p \in g.jump_targets /\ Expanded(g, BlkEnd(p[1], p[2]))
      <4>1. /\ g.nodes \subseteq h.nodes /\ g.edges \subseteq h.edges
            /\ \A f \in Subs : g.return_addresses[f] \subseteq h.return_addresses[f]
        BY <1>2, <1>5, <1>6, <1>9
      <4>. QED BY <3>3, <4>1, ExpandedGrows
    <3>. QED BY <3>1, <3>2, <3>3 DEF GraphInv, WorkRemembered
  <2>. QED BY <2>1, <2>2 DEF WorkRemembered
<1>17. GraphInv(h)
  BY <1>6, <1>10, <1>11, <1>12, <1>13, <1>14, <1>16 DEF GraphInv, GraphFits
<1>. QED BY <1>17 DEF h, popped

(* add_program_blocks establishes the shape of the graph.                  *)
LEMMA ProgramBlocksFit ==
  ASSUME program \in Programs
  PROVE  GraphInv(add_program_blocks)
<1>. DEFINE g == EmptyBuilder
            blocks == UNION {{<<program.subs[f][i], f>> : i \in DOMAIN program.subs[f]} :
                               f \in DOMAIN program.subs}
            h == AddBlocks(g, blocks)
<1>1. /\ g.nodes = {} /\ g.edges = {} /\ g.jump_targets = {} /\ g.block_worklist = {}
      /\ g.return_addresses = [f \in Subs |-> {}] /\ IsBuilder(g)
  BY DEF EmptyBuilder, IsBuilder, Subs
<1>. HIDE DEF g
<1>2. GraphFits(g)
  BY <1>1 DEF GraphFits, BlocksKnown, NodesFit, EdgesFit, AddressesFit
<1>3. blocks \subseteq Blks \X Subs
  <2>. SUFFICES ASSUME NEW f \in Subs, NEW i \in DOMAIN program.subs[f]
                PROVE  <<program.subs[f][i], f>> \in Blks \X Subs
    BY DEF Subs
  <2>. QED BY ProgramFacts
<1>4. \A f \in DOMAIN call_targets : <<program.subs[f][1], f>> \in blocks
  <2>. SUFFICES ASSUME NEW f \in DOMAIN call_targets
                PROVE  <<program.subs[f][1], f>> \in blocks
    OBVIOUS
  <2>1. f \in Subs /\ 1 \in DOMAIN program.subs[f]
    BY ProgramFacts
  <2>. QED BY <2>1 DEF Subs
<1>. HIDE DEF blocks
<1>5. /\ GraphFits(h)
      /\ h.jump_targets = blocks
      /\ \A n \in h.block_worklist : IsEnd(n) /\ n \in h.nodes
      /\ \A p \in h.jump_targets : BlkEnd(p[1], p[2]) \in h.block_worklist
  <2>1. /\ GraphFits(h)
        /\ h.jump_targets = g.jump_targets \cup blocks
        /\ \A n \in h.block_worklist : n \in g.block_worklist \/ (IsEnd(n) /\ n \in h.nodes)
        /\ \A p \in h.jump_targets :
             p \in g.jump_targets \/ BlkEnd(p[1], p[2]) \in h.block_worklist
    BY <1>2, <1>3, AddBlocksKeeps
  <2>. HIDE DEF h
  <2>. QED BY <1>1, <2>1
<1>. HIDE DEF h
<1>6. GraphInv(h)
  BY <1>4, <1>5 DEF GraphInv, CalleesKnown, WorkRemembered
<1>. QED BY <1>6 DEF h, g, blocks, add_program_blocks

-----------------------------------------------------------------------------
(* No step changes the program: all that is defined from it stays.         *)
LEMMA SameProgram ==
  ASSUME program' = program
  PROVE  /\ Blks' = Blks /\ Subs' = Subs
         /\ call_targets' = call_targets
         /\ \A b : Jmps(b)' = Jmps(b)
         /\ \A j : IsInternalCall(j)' = IsInternalCall(j) /\ IsExternCall(j)' = IsExternCall(j)
         /\ \A b, jmp : NextBlocks(b, jmp)' = NextBlocks(b, jmp)
         /\ \A n, j : CallNode(n, j)' = CallNode(n, j)
         /\ \A n, jmp : JumpEdges(n, jmp)' = JumpEdges(n, jmp)
         /\ \A n : CallNodes(n)' = CallNodes(n)
         /\ \A n, f : ReturnAddresses(n, f)' = ReturnAddresses(n, f)
         /\ \A b : CallJmp(b)' = CallJmp(b) /\ HasReturn(b)' = HasReturn(b)
<1>1. Blks' = Blks /\ Subs' = Subs
  BY DEF Blks, Subs
<1>2. call_targets' = call_targets
  BY DEF call_targets
<1>3. \A b : Jmps(b)' = Jmps(b)
  BY DEF Jmps
<1>4. \A j : IsInternalCall(j)' = IsInternalCall(j)
  BY <1>2 DEF IsInternalCall
<1>5. \A j : IsExternCall(j)' = IsExternCall(j)
  BY DEF IsExternCall
<1>6. \A b, jmp : NextBlocks(b, jmp)' = NextBlocks(b, jmp)
  BY DEF NextBlocks, Jmps
<1>7. \A n, j : CallNode(n, j)' = CallNode(n, j)
  BY <1>2 DEF CallNode
<1>8. \A n, jmp, kind : EdgesTo(n, jmp, kind)' = EdgesTo(n, jmp, kind)
  BY <1>6 DEF EdgesTo
<1>9. \A n, jmp : JumpEdges(n, jmp)' = JumpEdges(n, jmp)
  BY <1>2, <1>3, <1>4, <1>5, <1>7, <1>8 DEF JumpEdges
<1>10. \A n : InternalCalls(n)' = InternalCalls(n)
  BY <1>3, <1>4 DEF InternalCalls
<1>11. \A n : CallNodes(n)' = CallNodes(n)
  BY <1>3, <1>7, <1>10 DEF CallNodes
<1>12. \A n, f : ReturnAddresses(n, f)' = ReturnAddresses(n, f)
  BY <1>3, <1>7, <1>10 DEF ReturnAddresses
<1>13. \A b : CallJmp(b)' = CallJmp(b) /\ HasReturn(b)' = HasReturn(b)
  BY <1>3 DEF CallJmp, HasReturn
<1>. QED BY <1>1, <1>2, <1>3, <1>4, <1>5, <1>6, <1>7, <1>9, <1>11, <1>12, <1>13

LEMMA SameNodeKinds ==
  ASSUME program' = program
  PROVE  /\ \A n : IsStart(n)' = IsStart(n) /\ IsEnd(n)' = IsEnd(n)
         /\ \A n : IsCall(n)' = IsCall(n) /\ IsReturn(n)' = IsReturn(n)
         /\ \A e : EdgeFits(e)' = EdgeFits(e)
<1>1. \A n : IsStart(n)' = IsStart(n) /\ IsEnd(n)' = IsEnd(n)
  BY SameProgram DEF IsStart, IsEnd
<1>2. \A n : IsCall(n)' = IsCall(n) /\ IsReturn(n)' = IsReturn(n)
  BY <1>1 DEF IsCall, IsReturn
<1>3. \A e : EdgeFits(e)' = EdgeFits(e)
  BY <1>1, <1>2 DEF EdgeFits
<1>. QED BY <1>1, <1>2, <1>3

(* The return edges: every return of a function is connected to every      *)
(* call of it that returns.                                                *)
Connected(g) ==
  \A n \in g.nodes : IsEnd(n) /\ HasReturn(n.blk) =>
    \A r \in g.return_addresses[n.sub] :
      LET c == CallReturn(r[1].source, n)
      IN  /\ Edge(r[1], c, "CrCallStub", 0) \in g.edges
          /\ Edge(n, c, "CrReturnStub", 0) \in g.edges
          /\ Edge(c, r[2], "ReturnCombine", CallJmp(c.call.blk)) \in g.edges

LEMMA GraphStays ==
  ASSUME program' = program
  PROVE  /\ GraphInv(builder') => GraphInv(builder)'
         /\ Connected(builder') => Connected(builder)'
<1>1. IsBuilder(builder') => IsBuilder(builder)'
  BY DEF IsBuilder
<1>2. BlocksKnown(builder') => BlocksKnown(builder)'
  BY SameProgram DEF BlocksKnown
<1>3. NodesFit(builder') => NodesFit(builder)'
  BY SameNodeKinds DEF NodesFit
<1>4. EdgesFit(builder') => EdgesFit(builder)'
  BY SameNodeKinds DEF EdgesFit
<1>5. AddressesFit(builder') => AddressesFit(builder)'
  BY SameNodeKinds, SameProgram DEF AddressesFit
<1>6. CalleesKnown(builder') => CalleesKnown(builder)'
  BY SameProgram DEF CalleesKnown
<1>7. \A n : Expanded(builder', n) => Expanded(builder, n)'
  BY SameProgram DEF Expanded
<1>8. WorkRemembered(builder') => WorkRemembered(builder)'
  BY <1>7, SameNodeKinds DEF WorkRemembered
<1>9. Connected(builder') => Connected(builder)'
  BY SameNodeKinds, SameProgram DEF Connected
<1>. QED BY <1>1, <1>2, <1>3, <1>4, <1>5, <1>6, <1>8, <1>9 DEF GraphInv, GraphFits

LEMMA ReturnEdgesKeep ==
  ASSUME program \in Programs, NEW g, GraphInv(g)
  PROVE  LET h == add_return_edges(g) IN
           GraphInv(h) /\ Connected(h) /\ h.block_worklist = g.block_worklist
<1>. DEFINE rs == Returns(g)
            h == add_return_edges(g)
<1>1. /\ h.nodes = g.nodes \cup {c.node : c \in rs}
      /\ h.edges = g.edges \cup {Edge(c.call, c.node, "CrCallStub", 0) : c \in rs}
                 \cup {Edge(c.node.return, c.node, "CrReturnStub", 0) : c \in rs}
                 \cup {Edge(c.node, c.to, "ReturnCombine", CallJmp(c.node.call.blk)) : c \in rs}
      /\ h.jump_targets = g.jump_targets
      /\ h.block_worklist = g.block_worklist
      /\ h.return_addresses = g.return_addresses
      /\ IsBuilder(h)
  <2>. HIDE DEF rs
  <2>1. h = [g EXCEPT
              !.nodes = @ \cup {c.node : c \in rs},
              !.edges = @ \cup {Edge(c.call, c.node, "CrCallStub", 0) : c \in rs}
                          \cup {Edge(c.node.return, c.node, "CrReturnStub", 0) : c \in rs}
                          \cup {Edge(c.node, c.to, "ReturnCombine", CallJmp(c.node.call.blk)) :
                                  c \in rs}]
    BY DEF add_return_edges, rs
  <2>2. IsBuilder(g)
    BY DEF GraphInv, GraphFits
  <2>. HIDE DEF h
  <2>. QED BY <2>1, <2>2 DEF IsBuilder
<1>2. ASSUME NEW n \in g.nodes, IsEnd(n), HasReturn(n.blk), NEW r \in g.return_addresses[n.sub]
      PROVE  [node |-> CallReturn(r[1].source, n), call |-> r[1], to |-> r[2]] \in rs
  <2>1. n.kind = "BlkEnd"
    BY <1>2, NodeKinds
  <2>. QED BY <1>2, <2>1 DEF Returns
<1>3. ASSUME NEW c \in rs
      PROVE  /\ IsCall(c.call) /\ c.call \in g.nodes
             /\ IsStart(c.to) /\ c.to \in g.nodes
             /\ IsReturn(c.node) /\ c.node.call = c.call.source
             /\ IsEnd(c.node.return) /\ c.node.return \in g.nodes
  <2>1. PICK n \in g.nodes :
          /\ n.kind = "BlkEnd"
          /\ \E r \in g.return_addresses[n.sub] :
               c = [node |-> CallReturn(r[1].source, n), call |-> r[1], to |-> r[2]]
    BY DEF Returns
  <2>2. PICK r \in g.return_addresses[n.sub] :
          c = [node |-> CallReturn(r[1].source, n), call |-> r[1], to |-> r[2]]
    BY <2>1
  <2>3. IsEnd(n) /\ n.sub \in Subs
    <3>1. IsStart(n) \/ IsEnd(n) \/ IsCall(n) \/ IsReturn(n)
      BY DEF GraphInv, GraphFits, NodesFit
    <3>2. IsEnd(n)
      BY <2>1, <3>1, NodeKinds
    <3>. QED BY <3>2 DEF IsEnd
  <2>4. IsCall(r[1]) /\ r[1] \in g.nodes /\ IsStart(r[2]) /\ r[2] \in g.nodes
    BY <2>2, <2>3 DEF GraphInv, GraphFits, AddressesFit
  <2>5. IsEnd(r[1].source)
    BY <2>4 DEF IsCall
  <2>6. c.call = r[1] /\ c.to = r[2] /\ c.node = CallReturn(r[1].source, n)
    BY <2>2
  <2>7. c.node.call = r[1].source /\ c.node.return = n /\ c.node.kind = "CallReturn"
    BY <2>6, NodeFields
  <2>. QED BY <2>3, <2>4, <2>5, <2>6, <2>7 DEF IsReturn
<1>. HIDE DEF rs, h
<1>4. BlocksKnown(h)
  BY <1>1 DEF GraphInv, GraphFits, BlocksKnown
<1>5. NodesFit(h)
  <2>. SUFFICES ASSUME NEW n \in h.nodes
                PROVE  /\ IsStart(n) \/ IsEnd(n) \/ IsCall(n) \/ IsReturn(n)
                       /\ IsStart(n) \/ IsEnd(n) => <<n.blk, n.sub>> \in h.jump_targets
    BY DEF NodesFit
  <2>1. CASE n \in g.nodes
    BY <1>1, <2>1 DEF GraphInv, GraphFits, NodesFit
  <2>2. CASE n \notin g.nodes
    <3>1. IsReturn(n)
      BY <1>1, <1>3, <2>2
    <3>. QED BY <3>1, NodeKinds
  <2>. QED BY <2>1, <2>2
<1>6. EdgesFit(h)
  <2>. SUFFICES ASSUME NEW e \in h.edges
                PROVE  EdgeFits(e) /\ e.from \in h.nodes /\ e.to \in h.nodes
    BY DEF EdgesFit
  <2>1. CASE e \in g.edges
    BY <1>1, <2>1 DEF GraphInv, GraphFits, EdgesFit
  <2>2. CASE e \notin g.edges
    <3>1. PICK c \in rs :
            \/ e = Edge(c.call, c.node, "CrCallStub", 0)
            \/ e = Edge(c.node.return, c.node, "CrReturnStub", 0)
            \/ e = Edge(c.node, c.to, "ReturnCombine", CallJmp(c.node.call.blk))
      BY <1>1, <2>2
    <3>2. c.node \in h.nodes /\ c.call \in h.nodes /\ c.to \in h.nodes /\ c.node.return \in h.nodes
      BY <1>1, <1>3
    <3>3. CASE e = Edge(c.call, c.node, "CrCallStub", 0)
      BY <1>3, <3>2, <3>3, EdgeFields DEF EdgeFits
    <3>4. CASE e = Edge(c.node.return, c.node, "CrReturnStub", 0)
      BY <1>3, <3>2, <3>4, EdgeFields DEF EdgeFits
    <3>5. CASE e = Edge(c.node, c.to, "ReturnCombine", CallJmp(c.node.call.blk))
      BY <1>3, <3>2, <3>5, EdgeFields DEF EdgeFits
    <3>. QED BY <3>1, <3>3, <3>4, <3>5
  <2>. QED BY <2>1, <2>2
<1>7. AddressesFit(h)
  BY <1>1 DEF GraphInv, GraphFits, AddressesFit
<1>8. CalleesKnown(h)
  BY <1>1 DEF GraphInv, CalleesKnown
<1>9. WorkRemembered(h)
  <2>1. \A n \in h.block_worklist : IsEnd(n) /\ n \in h.nodes
    BY <1>1 DEF GraphInv, WorkRemembered
  <2>2. g.nodes \subseteq h.nodes /\ g.edges \subseteq h.edges
    BY <1>1
  <2>3. \A n : Expanded(g, n) => Expanded(h, n)
    BY <1>1, <2>2, ExpandedGrows
  <2>. QED BY <1>1, <2>1, <2>3 DEF GraphInv, WorkRemembered
<1>10. Connected(h)
  <2>. SUFFICES ASSUME NEW n \in h.nodes, IsEnd(n), HasReturn(n.blk),
                       NEW r \in h.return_addresses[n.sub]
                PROVE  LET c == CallReturn(r[1].source, n)
                       IN  /\ Edge(r[1], c, "CrCallStub", 0) \in h.edges
                           /\ Edge(n, c, "CrReturnStub", 0) \in h.edges
                           /\ Edge(c, r[2], "ReturnCombine", CallJmp(c.call.blk)) \in h.edges
    BY DEF Connected
  <2>. DEFINE c == CallReturn(r[1].source, n)
              d == [node |-> c, call |-> r[1], to |-> r[2]]
  <2>1. n \in g.nodes
    BY <1>1, <1>3, NodeKinds
  <2>2. d \in rs
    BY <1>1, <1>2, <2>1
  <2>3. d.node = c /\ d.call = r[1] /\ d.to = r[2] /\ c.return = n
    BY NodeFields
  <2>. HIDE DEF d, c
  <2>4. /\ Edge(r[1], c, "CrCallStub", 0) \in h.edges
        /\ Edge(n, c, "CrReturnStub", 0) \in h.edges
        /\ Edge(c, r[2], "ReturnCombine", CallJmp(c.call.blk)) \in h.edges
    BY <1>1, <2>2, <2>3
  <2>. QED BY <2>4 DEF c
<1>. QED BY <1>1, <1>4, <1>5, <1>6, <1>7, <1>8, <1>9, <1>10 DEF GraphInv, GraphFits, h

-----------------------------------------------------------------------------
(* Values of nodes.  combined says whether a node holds a combinator.      *)

Options == (SUBSET States) \cup {None}

Fits(v, combined) ==
  v = None \/ (combined /\ v \in CombinatorValues) \/ (~ combined /\ v \in PlainValues)

OptionBelow(v, w) == v = None \/ (w # None /\ v \subseteq w)

Below(v, w) ==
  v # None =>
    /\ w # None
    /\ v \in PlainValues => w \in PlainValues /\ v.value \subseteq w.value
    /\ v \in CombinatorValues =>
         /\ w \in CombinatorValues
         /\ OptionBelow(v.call_stub, w.call_stub)
         /\ OptionBelow(v.interprocedural_flow, w.interprocedural_flow)

LEMMA ValueKinds ==
  /\ \A v \in PlainValues :
       v # None /\ v.kind = "Value" /\ v.value \in SUBSET States /\ v.value # None
  /\ \A v \in CombinatorValues :
       /\ v # None /\ v.kind = "CallFlowCombinator"
       /\ v.call_stub \in Options /\ v.interprocedural_flow \in Options
  /\ \A v \in SUBSET States : v # None /\ Value(v) \in PlainValues /\ Value(v).value = v
  /\ Value(None) = None
  /\ \A v, w \in Options :
       /\ CallFlowCombinator(v, w) \in CombinatorValues
       /\ CallFlowCombinator(v, w).call_stub = v
       /\ CallFlowCombinator(v, w).interprocedural_flow = w
<1>1. \A v \in PlainValues : v # None /\ v.kind = "Value" /\ v.value \in SUBSET States
  BY NoneAssumption DEF PlainValues
<1>2. \A v \in CombinatorValues :
       /\ v # None /\ v.kind = "CallFlowCombinator"
       /\ v.call_stub \in Options /\ v.interprocedural_flow \in Options
  BY NoneAssumption DEF CombinatorValues, Options
<1>3. \A v \in SUBSET States : v # None
  BY NoneAssumption
<1>4. \A v \in SUBSET States : Value(v) \in PlainValues /\ Value(v).value = v
  BY <1>3 DEF Value, PlainValues
<1>5. Value(None) = None
  BY DEF Value
<1>6. \A v, w \in Options :
       /\ CallFlowCombinator(v, w) \in CombinatorValues
       /\ CallFlowCombinator(v, w).call_stub = v
       /\ CallFlowCombinator(v, w).interprocedural_flow = w
  BY DEF CallFlowCombinator, CombinatorValues, Options
<1>. QED BY <1>1, <1>2, <1>3, <1>4, <1>5, <1>6

LEMMA MergeOptionUpper ==
  ASSUME NEW v \in Options, NEW w \in Options
  PROVE  /\ MergeOption(v, w) \in Options
         /\ OptionBelow(v, MergeOption(v, w)) /\ OptionBelow(w, MergeOption(v, w))
<1>1. CASE v # None /\ w # None
  <2>1. MergeOption(v, w) = v \cup w /\ v \cup w \in SUBSET States
    BY <1>1 DEF MergeOption, Options
  <2>. QED BY <2>1, ValueKinds DEF OptionBelow, Options
<1>2. CASE ~ (v # None /\ w # None)
  BY <1>2 DEF MergeOption, OptionBelow, Options
<1>. QED BY <1>1, <1>2

(* merge is an upper bound of its arguments.                               *)
LEMMA MergeUpper ==
  ASSUME NEW combined \in BOOLEAN, NEW v, NEW w, Fits(v, combined), Fits(w, combined)
  PROVE  Fits(merge(v, w), combined) /\ Below(v, merge(v, w)) /\ Below(w, merge(v, w))
<1>. DEFINE m == merge(v, w)
<1>1. CASE v = None \/ w = None
  <2>1. /\ v = None => m = w
        /\ v # None => m = v
    BY <1>1 DEF merge
  <2>. QED BY <1>1, <2>1, ValueKinds DEF Below, Fits, OptionBelow, Options
<1>2. CASE v # None /\ w # None /\ ~ combined
  <2>1. v \in PlainValues /\ w \in PlainValues
    BY <1>2 DEF Fits
  <2>2. m = Value(v.value \cup w.value) /\ v.value \cup w.value \in SUBSET States
    BY <1>2, <2>1, ValueKinds DEF merge
  <2>3. m \in PlainValues /\ m.value = v.value \cup w.value
    BY <2>2, ValueKinds
  <2>4. v \notin CombinatorValues /\ w \notin CombinatorValues
    BY <2>1, ValueKinds
  <2>. QED BY <1>2, <2>1, <2>3, <2>4, ValueKinds DEF Fits, Below
<1>3. CASE v # None /\ w # None /\ combined
  <2>1. v \in CombinatorValues /\ w \in CombinatorValues
    BY <1>3 DEF Fits
  <2>2. m = CallFlowCombinator(MergeOption(v.call_stub, w.call_stub),
                               MergeOption(v.interprocedural_flow, w.interprocedural_flow))
    BY <1>3, <2>1, ValueKinds DEF merge
  <2>3. /\ v.call_stub \in Options /\ w.call_stub \in Options
        /\ v.interprocedural_flow \in Options /\ w.interprocedural_flow \in Options
    BY <2>1, ValueKinds
  <2>4. /\ m \in CombinatorValues
        /\ m.call_stub = MergeOption(v.call_stub, w.call_stub)
        /\ m.interprocedural_flow = MergeOption(v.interprocedural_flow, w.interprocedural_flow)
    BY <2>2, <2>3, ValueKinds, MergeOptionUpper
  <2>5. v \notin PlainValues /\ w \notin PlainValues
    BY <2>1, ValueKinds
  <2>. QED BY <1>3, <2>3, <2>4, <2>5, ValueKinds, MergeOptionUpper DEF Fits, Below
<1>. QED BY <1>1, <1>2, <1>3

LEMMA StateFields ==
  /\ \A s \in States :
       /\ s.x \in Words /\ s.l \in Words /\ s = [x |-> s.x, l |-> s.l]
       /\ InCallee(s) \in States /\ InCallee(s) = [x |-> s.x, l |-> 0]
       /\ \A i \in Words : [s EXCEPT !.x = i] \in States /\ [s EXCEPT !.x = i] = [x |-> i, l |-> s.l]
  /\ \A x, l \in Words : [x |-> x, l |-> l] \in States
BY WordsAssumption DEF States, InCallee

(* The edge functions of the forward analysis map values to values.        *)
LEMMA ForwardEdgeFits ==
  ASSUME program \in Programs, NEW e, EdgeFits(e),
         NEW v, v # None, Fits(v, IsReturn(e.from))
  PROVE  Fits(update_edge(v, e), IsReturn(e.to))
<1>. DEFINE u == update_edge(v, e)
<1>1. SUFFICES
        /\ IsReturn(e.to) => u \in CombinatorValues
        /\ ~ IsReturn(e.to) => \E w \in Options : u = Value(w)
  BY ValueKinds DEF Fits, Options
<1>2. /\ IsReturn(e.from) => v \in CombinatorValues
      /\ ~ IsReturn(e.from) => v \in PlainValues /\ v.value \in SUBSET States
  BY ValueKinds DEF Fits
<1>3. \A w \in SUBSET States : w \in Options
  BY DEF Options
<1>4. CASE e.kind = "Block"
  <2>1. ~ IsReturn(e.from) /\ ~ IsReturn(e.to) /\ e.from.blk \in Blks
    <3>1. IsStart(e.from) /\ e.to = BlkEnd(e.from.blk, e.from.sub)
      BY <1>4 DEF EdgeFits
    <3>2. IsEnd(e.to) /\ e.from.blk \in Blks
      BY <3>1, NodeFields DEF IsStart
    <3>. QED BY <3>1, <3>2, NodeKinds
  <2>2. u = Value(update_def(v.value, program.blks[e.from.blk].def))
    BY <1>4 DEF update_edge
  <2>3. update_def(v.value, program.blks[e.from.blk].def) \in SUBSET States
    <3>1. program.blks[e.from.blk].def \in [States -> States]
      BY <2>1, ProgramFacts
    <3>. QED BY <1>2, <2>1, <3>1 DEF update_def
  <2>. QED BY <1>3, <2>1, <2>2, <2>3
<1>5. CASE e.kind = "Jump"
  <2>1. ~ IsReturn(e.from) /\ ~ IsReturn(e.to)
    BY <1>5, NodeKinds DEF EdgeFits
  <2>2. u = Value(ConditionalValue(v.value, e.from.blk, e.jmp))
    BY <1>5 DEF update_edge
  <2>3. \A c \in BOOLEAN : specialize_conditional(v.value, c) \in Options
    BY <1>2, <2>1 DEF specialize_conditional, Options
  <2>4. ConditionalValue(v.value, e.from.blk, e.jmp) \in Options
    BY <1>2, <1>3, <2>1, <2>3 DEF ConditionalValue
  <2>. QED BY <2>1, <2>2, <2>4
<1>6. CASE e.kind = "ExternCallStub"
  <2>1. ~ IsReturn(e.from) /\ ~ IsReturn(e.to)
    BY <1>6, NodeKinds DEF EdgeFits
  <2>2. u = Value(update_call_stub(v.value))
    BY <1>6 DEF update_edge
  <2>3. update_call_stub(v.value) \in SUBSET States
    BY <1>2, <2>1, StateFields DEF update_call_stub
  <2>. QED BY <1>3, <2>1, <2>2, <2>3
<1>7. CASE e.kind = "CallCombine"
  <2>1. ~ IsReturn(e.from) /\ ~ IsReturn(e.to)
    BY <1>7, NodeKinds DEF EdgeFits
  <2>2. u = v
    BY <1>7 DEF update_edge
  <2>3. v = Value(v.value)
    BY <1>2, <2>1, ValueKinds DEF Value, PlainValues
  <2>. QED BY <1>2, <1>3, <2>1, <2>2, <2>3
<1>8. CASE e.kind = "Call"
  <2>1. ~ IsReturn(e.from) /\ ~ IsReturn(e.to)
    BY <1>8, NodeKinds DEF EdgeFits
  <2>2. u = Value(update_call(v.value))
    BY <1>8 DEF update_edge
  <2>3. update_call(v.value) \in SUBSET States
    BY <1>2, <2>1, StateFields DEF update_call
  <2>. QED BY <1>3, <2>1, <2>2, <2>3
<1>9. CASE e.kind = "CrCallStub"
  <2>1. ~ IsReturn(e.from) /\ IsReturn(e.to)
    BY <1>9, NodeKinds DEF EdgeFits
  <2>2. u = CallFlowCombinator(v.value, None)
    BY <1>9 DEF update_edge, FromCallSite
  <2>. QED BY <1>2, <1>3, <2>1, <2>2, ValueKinds DEF Options
<1>10. CASE e.kind = "CrReturnStub"
  <2>1. ~ IsReturn(e.from) /\ IsReturn(e.to)
    BY <1>10, NodeKinds DEF EdgeFits
  <2>2. u = CallFlowCombinator(None, v.value)
    BY <1>10 DEF update_edge
  <2>. QED BY <1>2, <1>3, <2>1, <2>2, ValueKinds DEF Options
<1>11. CASE e.kind = "ReturnCombine"
  <2>1. IsReturn(e.from) /\ ~ IsReturn(e.to)
    BY <1>11, NodeKinds DEF EdgeFits
  <2>2. u = Value(update_return(v.interprocedural_flow, v.call_stub))
    BY <1>11 DEF update_edge, ReturnCombine
  <2>3. v.interprocedural_flow \in Options /\ v.call_stub \in Options
    BY <1>2, <2>1, ValueKinds
  <2>4. update_return(v.interprocedural_flow, v.call_stub) \in Options
    BY <2>3, StateFields DEF update_return, AfterReturn, Options
  <2>. QED BY <2>1, <2>2, <2>4
<1>. QED BY <1>4, <1>5, <1>6, <1>7, <1>8, <1>9, <1>10, <1>11 DEF EdgeFits

(* The same for the backward analysis, in which calls hold combinators.    *)
LEMMA BackwardEdgeFits ==
  ASSUME program \in Programs, NEW e, EdgeFits(e),
         NEW v, v # None, Fits(v, IsCall(e.to))
  PROVE  Fits(bw_update_edge(v, e), IsCall(e.from))
<1>. DEFINE u == bw_update_edge(v, e)
<1>1. SUFFICES
        /\ IsCall(e.from) => u \in CombinatorValues
        /\ ~ IsCall(e.from) => \E w \in Options : u = Value(w)
  BY ValueKinds DEF Fits, Options
<1>2. /\ IsCall(e.to) => v \in CombinatorValues
      /\ ~ IsCall(e.to) => v \in PlainValues /\ v.value \in SUBSET States
  BY ValueKinds DEF Fits
<1>3. \A w \in SUBSET States : w \in Options
  BY DEF Options
<1>4. ~ IsCall(e.to) => v = Value(v.value)
  BY <1>2, ValueKinds DEF Value, PlainValues
<1>5. CASE e.kind = "Block"
  <2>1. ~ IsCall(e.from) /\ ~ IsCall(e.to)
    <3>1. IsStart(e.from) /\ e.to = BlkEnd(e.from.blk, e.from.sub)
      BY <1>5 DEF EdgeFits
    <3>2. IsEnd(e.to)
      BY <3>1, NodeFields DEF IsStart
    <3>. QED BY <3>1, <3>2, NodeKinds
  <2>2. u = Value(bw_update_def(v.value, program.blks[e.to.blk].def))
    BY <1>5 DEF bw_update_edge
  <2>3. bw_update_def(v.value, program.blks[e.to.blk].def) \in SUBSET States
    BY DEF bw_update_def
  <2>. QED BY <1>3, <2>1, <2>2, <2>3
<1>6. CASE e.kind = "Jump"
  <2>1. ~ IsCall(e.from) /\ ~ IsCall(e.to)
    BY <1>6, NodeKinds DEF EdgeFits
  <2>2. u = v
    BY <1>6 DEF bw_update_edge
  <2>. QED BY <1>2, <1>3, <1>4, <2>1, <2>2
<1>7. CASE e.kind = "ExternCallStub"
  <2>1. ~ IsCall(e.from) /\ ~ IsCall(e.to)
    BY <1>7, NodeKinds DEF EdgeFits
  <2>2. u = Value(bw_update_call_stub(v.value))
    BY <1>7 DEF bw_update_edge
  <2>3. bw_update_call_stub(v.value) \in SUBSET States
    BY DEF bw_update_call_stub
  <2>. QED BY <1>3, <2>1, <2>2, <2>3
<1>8. CASE e.kind = "CallCombine"
  <2>1. ~ IsCall(e.from) /\ IsCall(e.to)
    BY <1>8, NodeKinds DEF EdgeFits
  <2>2. u = Value(update_callsite(v.interprocedural_flow, v.call_stub))
    BY <1>8 DEF bw_update_edge, CallCombine
  <2>3. update_callsite(v.interprocedural_flow, v.call_stub) \in Options
    BY DEF update_callsite, Options
  <2>. QED BY <2>1, <2>2, <2>3
<1>9. CASE e.kind = "Call"
  <2>1. IsCall(e.from) /\ ~ IsCall(e.to)
    BY <1>9, NodeKinds DEF EdgeFits
  <2>2. u = CallFlowCombinator(None, v.value)
    BY <1>9 DEF bw_update_edge
  <2>. QED BY <1>2, <1>3, <2>1, <2>2, ValueKinds DEF Options
<1>10. CASE e.kind = "CrCallStub"
  <2>1. IsCall(e.from) /\ ~ IsCall(e.to)
    BY <1>10, NodeKinds DEF EdgeFits
  <2>2. u = CallFlowCombinator(v.value, None)
    BY <1>10 DEF bw_update_edge, split_call_stub
  <2>. QED BY <1>2, <1>3, <2>1, <2>2, ValueKinds DEF Options
<1>11. CASE e.kind = "CrReturnStub"
  <2>1. ~ IsCall(e.from)
    BY <1>11, NodeKinds DEF EdgeFits
  <2>2. u = Value(split_return_stub(v.value))
    BY <1>11 DEF bw_update_edge
  <2>3. split_return_stub(v.value) \in SUBSET States
    BY DEF split_return_stub
  <2>. QED BY <1>3, <2>1, <2>2, <2>3
<1>12. CASE e.kind = "ReturnCombine"
  <2>1. ~ IsCall(e.from) /\ ~ IsCall(e.to)
    BY <1>12, NodeKinds DEF EdgeFits
  <2>2. u = v
    BY <1>12 DEF bw_update_edge
  <2>. QED BY <1>2, <1>3, <1>4, <2>1, <2>2
<1>. QED BY <1>5, <1>6, <1>7, <1>8, <1>9, <1>10, <1>11, <1>12 DEF EdgeFits

-----------------------------------------------------------------------------
(* The inductive invariant                                                 *)

ForwardTyped ==
  DOMAIN forward = builder.nodes /\ \A n \in builder.nodes : Fits(forward[n], IsReturn(n))
BackwardTyped ==
  DOMAIN backward = builder.nodes /\ \A n \in builder.nodes : Fits(backward[n], IsCall(n))

\* A state is part of the value of a node.
At(n, s) == n \in builder.nodes /\ forward[n] # None /\ s \in forward[n].value
BackwardAt(n, s) == n \in builder.nodes /\ backward[n] # None /\ s \in backward[n].value

ReturnNodes(f) == {n \in builder.nodes : IsEnd(n) /\ n.sub = f /\ HasReturn(n.blk)}

\* The analyses start with what they were given.
EntryCovered == \A s \in States : At(Entry, s)
GoalCovered == \A n \in ReturnNodes(program.entry), s \in Goal : BackwardAt(n, s)

\* Call nodes and call stubs hold states the caller had at the call.
CallsCopied ==
  /\ \A n \in builder.nodes : IsCall(n) => \A s \in States : At(n, s) => At(n.source, s)
  /\ \A n \in builder.nodes :
       IsReturn(n) /\ forward[n] # None /\ forward[n].call_stub # None =>
         \A s \in forward[n].call_stub : At(n.call, s)

\* The block is only reached by returns to the calls at the end of block call.
OnlyReturnsTo(to, call) ==
  /\ to # Entry
  /\ \A d \in builder.edges : d.to = to => d.kind = "ReturnCombine" /\ d.from.call = call

ReturnsKept ==
  \A e \in builder.edges :
    e.kind = "ReturnCombine" /\ OnlyReturnsTo(e.to, e.from.call) =>
      \A s \in States : At(e.to, s) => \E c \in States : At(e.from.call, c) /\ c.l = s.l

Frames == [sub : Subs, blk : Blks, l : Words]

\* A caller waits for function f to return.
Suspended(c, f) ==
  LET jmp == CallJmp(c.blk)
  IN  /\ BlkEnd(c.blk, c.sub) \in builder.nodes
      /\ jmp \in DOMAIN Jmps(c.blk)
      /\ IsInternalCall(Jmps(c.blk)[jmp]) /\ Jmps(c.blk)[jmp].target = f
      /\ \E s \in States :
           s.l = c.l /\ At(CallNode(BlkEnd(c.blk, c.sub), Jmps(c.blk)[jmp]), s)

CalleeOf(m, i) == IF i = 1 THEN m.sub ELSE m.callers[i - 1].sub
Outermost(m) == IF m.callers = <<>> THEN m.sub ELSE m.callers[Len(m.callers)].sub

MachineFits(m) ==
  /\ m.at \in {"start", "end"}
  /\ m.callers \in Seq(Frames)
  /\ \A i \in 1 .. Len(m.callers) : Suspended(m.callers[i], CalleeOf(m, i))
  /\ Outermost(m) = program.entry
  /\ At(NodeOf(m), StateOf(m))

\* What the backward analysis has to know about a caller.
CanResume(c, f) ==
  /\ ReturnNodes(f) # {}
  /\ ReturnOf(c) # None
  /\ \E s \in States : s.l = c.l /\ BackwardAt(BlkStart(ReturnOf(c), c.sub), s)

\* The machine can reach the goal as far as the backward analysis can tell.
Promising(m) ==
  /\ BackwardAt(NodeOf(m), StateOf(m))
  /\ \A i \in 1 .. Len(m.callers) : CanResume(m.callers[i], CalleeOf(m, i))

VisitedCovered == \A v \in visited : BackwardAt(v[1], v[2])

Solved == ForwardUnstable = {} /\ BackwardUnstable = {}

BuilderInv ==
  /\ program \in Programs
  /\ GraphInv(builder)
  /\ phase \in {"edges", "solve", "run", "exited"}
  /\ phase # "edges" => builder.block_worklist = {} /\ Connected(builder)

ForwardInv == phase # "edges" => ForwardTyped /\ EntryCovered /\ CallsCopied /\ ReturnsKept
BackwardInv == phase # "edges" => BackwardTyped /\ GoalCovered

RunInv ==
  /\ phase \in {"edges", "solve"} => visited = {}
  /\ phase \in {"run", "exited"} =>
       Solved /\ MachineFits(machine) /\ (Promising(machine) => VisitedCovered)
  /\ phase = "exited" =>
       machine.callers = <<>> /\ machine.at = "end" /\ HasReturn(machine.blk)

Inv == BuilderInv /\ ForwardInv /\ BackwardInv /\ RunInv

-----------------------------------------------------------------------------
(* Steps that build the graph                                              *)

LEMMA EntryIsNode ==
  ASSUME program \in Programs, NEW g, GraphInv(g)
  PROVE  Entry \in g.nodes /\ IsStart(Entry)
<1>1. program.entry \in DOMAIN call_targets
  BY ProgramFacts
<1>2. /\ Entry = BlkStart(program.subs[program.entry][1], program.entry)
      /\ <<program.subs[program.entry][1], program.entry>> \in g.jump_targets
  BY <1>1, ProgramFacts DEF Entry, GraphInv, CalleesKnown
<1>3. Entry \in g.nodes
  BY <1>2 DEF GraphInv, GraphFits, BlocksKnown
<1>4. program.entry \in Subs /\ program.subs[program.entry][1] \in Blks
  BY <1>1, ProgramFacts
<1>. QED BY <1>2, <1>3, <1>4, NodeFields

LEMMA PopBlockKeeps ==
  ASSUME Inv, PopBlock
  PROVE  Inv'
<1>. USE DEF PopBlock
<1>1. program \in Programs /\ GraphInv(builder) /\ program' = program /\ phase = "edges"
      /\ phase' = "edges"
  BY DEF Inv, BuilderInv
<1>2. PICK source \in builder.block_worklist :
        builder' = add_outgoing_edges([builder EXCEPT !.block_worklist = @ \ {source}], source)
  OBVIOUS
<1>3. GraphInv(builder')
  BY <1>1, <1>2, OutgoingKeeps
<1>4. GraphInv(builder)'
  BY <1>1, <1>3, GraphStays
<1>. QED BY <1>1, <1>4 DEF Inv, BuilderInv, ForwardInv, BackwardInv, RunInv

LEMMA InitEstablishes ==
  ASSUME Init
  PROVE  Inv
<1>1. program \in Programs /\ builder = add_program_blocks /\ phase = "edges"
  BY DEF Init
<1>2. GraphInv(builder)
  BY <1>1, ProgramBlocksFit
<1>. QED BY <1>1, <1>2 DEF Init, Inv, BuilderInv, ForwardInv, BackwardInv, RunInv

LEMMA StartAnalysesKeeps ==
  ASSUME Inv, StartAnalyses
  PROVE  Inv'
<1>1. /\ program \in Programs /\ GraphInv(builder) /\ program' = program
      /\ builder' = add_return_edges(builder)
      /\ builder.block_worklist = {} /\ phase' = "solve"
      /\ forward' = [n \in builder'.nodes |-> IF n = Entry THEN Value(States) ELSE None]
      /\ backward' = [n \in builder'.nodes |->
                        IF n.kind = "BlkEnd" /\ n.sub = program.entry /\ HasReturn(n.blk)
                        THEN Value(Goal) ELSE None]
  BY DEF Inv, BuilderInv, StartAnalyses
<1>2. GraphInv(builder') /\ Connected(builder') /\ builder'.block_worklist = {}
  BY <1>1, ReturnEdgesKeep
<1>3. GraphInv(builder)' /\ Connected(builder)'
  BY <1>1, <1>2, GraphStays
<1>4. BuilderInv'
  BY <1>1, <1>2, <1>3 DEF BuilderInv
<1>5. Entry \in builder'.nodes /\ IsStart(Entry) /\ Entry' = Entry
  BY <1>1, <1>2, EntryIsNode, SameProgram DEF Entry
<1>6. ~ IsReturn(Entry) /\ ~ IsCall(Entry)
  BY <1>5, NodeKinds
<1>7. Value(States) \in PlainValues /\ Value(States).value = States /\ Value(States) # None
  BY ValueKinds
<1>8. Value(Goal) \in PlainValues /\ Value(Goal).value = Goal /\ Value(Goal) # None
  BY ValueKinds DEF Goal
<1>9. ForwardTyped'
  <2>1. \A n \in builder'.nodes : Fits(forward'[n], IsReturn(n))
    BY <1>1, <1>6, <1>7 DEF Fits
  <2>. QED BY <1>1, <2>1, SameNodeKinds DEF ForwardTyped
<1>10. EntryCovered'
  BY <1>1, <1>5, <1>7 DEF EntryCovered, At
<1>11. \A n \in builder'.nodes : n # Entry => forward'[n] = None
  BY <1>1
<1>12. CallsCopied'
  <2>1. \A n, s : At(n, s)' => n = Entry
    BY <1>11 DEF At
  <2>. QED BY <1>1, <1>6, <1>11, <2>1, SameNodeKinds DEF CallsCopied
<1>13. ReturnsKept'
  BY <1>5, <1>11 DEF ReturnsKept, OnlyReturnsTo, At
<1>14. BackwardTyped'
  <2>1. ASSUME NEW n \in builder'.nodes
        PROVE  Fits(backward'[n], IsCall(n))
    <3>1. n.kind = "BlkEnd" => ~ IsCall(n)
      BY NodeKinds
    <3>. QED BY <1>1, <1>8, <3>1 DEF Fits
  <2>. QED BY <1>1, <2>1, SameNodeKinds DEF BackwardTyped
<1>15. GoalCovered'
  <2>. SUFFICES ASSUME NEW n \in ReturnNodes(program.entry)', NEW s \in Goal
                PROVE  BackwardAt(n, s)'
    BY DEF GoalCovered, Goal
  <2>1. n \in builder'.nodes /\ IsEnd(n) /\ n.sub = program.entry /\ HasReturn(n.blk)
    BY <1>1, SameNodeKinds, SameProgram DEF ReturnNodes
  <2>2. n.kind = "BlkEnd"
    BY <2>1, NodeKinds
  <2>3. backward'[n] = Value(Goal)
    BY <1>1, <2>1, <2>2
  <2>. QED BY <1>8, <2>1, <2>3 DEF BackwardAt
<1>16. RunInv'
  BY <1>1 DEF Inv, RunInv, StartAnalyses
<1>. QED BY <1>1, <1>4, <1>9, <1>10, <1>12, <1>13, <1>14, <1>15, <1>16
         DEF Inv, ForwardInv, BackwardInv

-----------------------------------------------------------------------------
(* Steps that solve the analyses                                           *)

LEMMA BuilderInvStays ==
  ASSUME BuilderInv, program' = program, builder' = builder,
         phase' \in {"solve", "run", "exited"}, phase # "edges"
  PROVE  BuilderInv'
<1>1. GraphInv(builder') /\ Connected(builder')
  BY DEF BuilderInv
<1>2. GraphInv(builder)' /\ Connected(builder)'
  BY <1>1, GraphStays
<1>. QED BY <1>2 DEF BuilderInv

LEMMA ForwardStays ==
  ASSUME program' = program, builder' = builder, forward' = forward
  PROVE  /\ ForwardTyped => ForwardTyped'
         /\ EntryCovered => EntryCovered'
         /\ CallsCopied => CallsCopied'
         /\ ReturnsKept => ReturnsKept'
         /\ \A n, s : At(n, s)' = At(n, s)
<1>1. ForwardTyped => ForwardTyped'
  BY SameNodeKinds DEF ForwardTyped
<1>2. \A n, s : At(n, s)' = At(n, s)
  BY DEF At
<1>3. Entry' = Entry
  BY SameProgram DEF Entry
<1>4. EntryCovered => EntryCovered'
  BY <1>3 DEF EntryCovered, At
<1>5. CallsCopied => CallsCopied'
  BY <1>2, SameNodeKinds DEF CallsCopied
<1>6. \A n, c : OnlyReturnsTo(n, c)' = OnlyReturnsTo(n, c)
  BY <1>3 DEF OnlyReturnsTo
<1>7. ReturnsKept => ReturnsKept'
  BY <1>2, <1>6 DEF ReturnsKept
<1>. QED BY <1>1, <1>2, <1>4, <1>5, <1>7

LEMMA BackwardStays ==
  ASSUME program' = program, builder' = builder, backward' = backward
  PROVE  /\ BackwardTyped => BackwardTyped'
         /\ GoalCovered => GoalCovered'
         /\ \A n, s : BackwardAt(n, s)' = BackwardAt(n, s)
<1>1. BackwardTyped => BackwardTyped'
  BY SameNodeKinds DEF BackwardTyped
<1>2. \A n, s : BackwardAt(n, s)' = BackwardAt(n, s)
  BY DEF BackwardAt
<1>3. ReturnNodes(program.entry)' = ReturnNodes(program.entry)
  BY SameNodeKinds, SameProgram DEF ReturnNodes
<1>4. GoalCovered => GoalCovered'
  BY <1>2, <1>3 DEF GoalCovered, Goal
<1>. QED BY <1>1, <1>2, <1>4

(* Applying an edge keeps the values in shape, and they only grow.         *)
LEMMA ForwardStep ==
  ASSUME program \in Programs, GraphInv(builder), ForwardTyped,
         NEW e \in builder.edges, forward[e.from] # None,
         forward' = [forward EXCEPT ![e.to] = ForwardUpdated(e)],
         program' = program, builder' = builder
  PROVE  /\ ForwardTyped'
         /\ forward'[e.to] = merge(forward[e.to], update_edge(forward[e.from], e))
         /\ \A n \in builder.nodes : n # e.to => forward'[n] = forward[n]
         /\ \A n \in builder.nodes : Below(forward[n], forward'[n])
         /\ \A n, s : At(n, s) /\ ~ IsReturn(n) => At(n, s)'
<1>1. EdgeFits(e) /\ e.from \in builder.nodes /\ e.to \in builder.nodes
  BY DEF GraphInv, GraphFits, EdgesFit
<1>2. IsReturn(e.to) \in BOOLEAN /\ DOMAIN forward = builder.nodes
  BY DEF IsReturn, ForwardTyped
<1>3. Fits(forward[e.to], IsReturn(e.to)) /\ Fits(update_edge(forward[e.from], e), IsReturn(e.to))
  BY <1>1, ForwardEdgeFits DEF ForwardTyped
<1>4. /\ Fits(ForwardUpdated(e), IsReturn(e.to))
      /\ Below(forward[e.to], ForwardUpdated(e))
  BY <1>2, <1>3, MergeUpper DEF ForwardUpdated
<1>5. /\ DOMAIN forward' = builder.nodes
      /\ forward'[e.to] = ForwardUpdated(e)
      /\ \A n \in builder.nodes : n # e.to => forward'[n] = forward[n]
  BY <1>1, <1>2
<1>6. ASSUME NEW n \in builder.nodes
      PROVE  Fits(forward'[n], IsReturn(n)) /\ Below(forward[n], forward'[n])
  <2>1. CASE n = e.to
    BY <1>4, <1>5, <2>1
  <2>2. CASE n # e.to
    <3>1. forward'[n] = forward[n] /\ Fits(forward[n], IsReturn(n))
      BY <1>5, <2>2 DEF ForwardTyped
    <3>. QED BY <3>1, ValueKinds DEF Below, OptionBelow, Options
  <2>. QED BY <2>1, <2>2
<1>7. ForwardTyped'
  BY <1>5, <1>6, SameNodeKinds DEF ForwardTyped
<1>8. ASSUME NEW n, NEW s, At(n, s), ~ IsReturn(n)
      PROVE  At(n, s)'
  <2>1. n \in builder.nodes /\ forward[n] # None /\ s \in forward[n].value
    BY <1>8 DEF At
  <2>2. forward[n] \in PlainValues
    BY <1>8, <2>1 DEF ForwardTyped, Fits
  <2>3. forward'[n] # None /\ forward[n].value \subseteq forward'[n].value
    BY <1>6, <2>1, <2>2 DEF Below
  <2>. QED BY <2>1, <2>3 DEF At
<1>. QED BY <1>5, <1>6, <1>7, <1>8 DEF ForwardUpdated

LEMMA BackwardStep ==
  ASSUME program \in Programs, GraphInv(builder), BackwardTyped,
         NEW e \in builder.edges, backward[e.to] # None,
         backward' = [backward EXCEPT ![e.from] = BackwardUpdated(e)],
         program' = program, builder' = builder
  PROVE  /\ BackwardTyped'
         /\ \A n, s : BackwardAt(n, s) /\ ~ IsCall(n) => BackwardAt(n, s)'
<1>1. EdgeFits(e) /\ e.from \in builder.nodes /\ e.to \in builder.nodes
  BY DEF GraphInv, GraphFits, EdgesFit
<1>2. IsCall(e.from) \in BOOLEAN /\ DOMAIN backward = builder.nodes
  BY DEF IsCall, BackwardTyped
<1>3. Fits(backward[e.from], IsCall(e.from)) /\ Fits(bw_update_edge(backward[e.to], e), IsCall(e.from))
  BY <1>1, BackwardEdgeFits DEF BackwardTyped
<1>4. /\ Fits(BackwardUpdated(e), IsCall(e.from))
      /\ Below(backward[e.from], BackwardUpdated(e))
  BY <1>2, <1>3, MergeUpper DEF BackwardUpdated
<1>5. /\ DOMAIN backward' = builder.nodes
      /\ backward'[e.from] = BackwardUpdated(e)
      /\ \A n \in builder.nodes : n # e.from => backward'[n] = backward[n]
  BY <1>1, <1>2
<1>6. ASSUME NEW n \in builder.nodes
      PROVE  Fits(backward'[n], IsCall(n))
  BY <1>4, <1>5 DEF BackwardTyped
<1>7. BackwardTyped'
  BY <1>5, <1>6, SameNodeKinds DEF BackwardTyped
<1>8. ASSUME NEW n, NEW s, BackwardAt(n, s), ~ IsCall(n)
      PROVE  BackwardAt(n, s)'
  <2>1. n \in builder.nodes /\ backward[n] # None /\ s \in backward[n].value
    BY <1>8 DEF BackwardAt
  <2>2. backward[n] \in PlainValues
    BY <1>8, <2>1 DEF BackwardTyped, Fits
  <2>3. backward'[n] # None /\ backward[n].value \subseteq backward'[n].value
    <3>1. CASE n = e.from
      BY <1>4, <1>5, <2>1, <2>2, <3>1 DEF Below
    <3>2. CASE n # e.from
      BY <1>5, <2>1, <3>2
    <3>. QED BY <3>1, <3>2
  <2>. QED BY <2>1, <2>3 DEF BackwardAt
<1>. QED BY <1>7, <1>8

(* merge adds nothing to its arguments.                                    *)
LEMMA MergeExact ==
  ASSUME NEW v, NEW w
  PROVE  /\ Fits(v, FALSE) /\ Fits(w, FALSE) /\ merge(v, w) # None =>
              \A s \in merge(v, w).value : (v # None /\ s \in v.value) \/ (w # None /\ s \in w.value)
         /\ Fits(v, TRUE) /\ Fits(w, TRUE) /\ merge(v, w) # None /\ merge(v, w).call_stub # None =>
              \A s \in merge(v, w).call_stub :
                \/ v # None /\ v.call_stub # None /\ s \in v.call_stub
                \/ w # None /\ w.call_stub # None /\ s \in w.call_stub
<1>. DEFINE m == merge(v, w)
<1>1. CASE v = None \/ w = None
  BY <1>1 DEF merge
<1>2. CASE v # None /\ w # None
  <2>1. ASSUME Fits(v, FALSE), Fits(w, FALSE)
        PROVE  m.value = v.value \cup w.value
    <3>1. v \in PlainValues /\ w \in PlainValues
      BY <1>2, <2>1 DEF Fits
    <3>2. m = Value(v.value \cup w.value) /\ v.value \cup w.value \in SUBSET States
      BY <1>2, <3>1, ValueKinds DEF merge
    <3>. QED BY <3>2, ValueKinds
  <2>2. ASSUME Fits(v, TRUE), Fits(w, TRUE)
        PROVE  m.call_stub = MergeOption(v.call_stub, w.call_stub)
    <3>1. v \in CombinatorValues /\ w \in CombinatorValues
      BY <1>2, <2>2 DEF Fits
    <3>2. m = CallFlowCombinator(MergeOption(v.call_stub, w.call_stub),
                                 MergeOption(v.interprocedural_flow, w.interprocedural_flow))
      BY <1>2, <3>1, ValueKinds DEF merge
    <3>. QED BY <3>2 DEF CallFlowCombinator
  <2>. QED BY <1>2, <2>1, <2>2 DEF MergeOption
<1>. QED BY <1>1, <1>2

LEMMA SolveForwardKeeps ==
  ASSUME Inv, SolveForward
  PROVE  Inv'
<1>0. PICK e \in ForwardUnstable : forward' = [forward EXCEPT ![e.to] = ForwardUpdated(e)]
  BY DEF SolveForward
<1>1. /\ phase = "solve" /\ phase' = phase
      /\ forward' = [forward EXCEPT ![e.to] = ForwardUpdated(e)]
      /\ program' = program /\ builder' = builder /\ backward' = backward
  BY <1>0 DEF SolveForward
<1>2. e \in builder.edges /\ forward[e.from] # None
  BY DEF ForwardUnstable
<1>3. /\ program \in Programs /\ GraphInv(builder) /\ BuilderInv
      /\ ForwardTyped /\ EntryCovered /\ CallsCopied /\ ReturnsKept
      /\ BackwardTyped /\ GoalCovered
  BY <1>1 DEF Inv, BuilderInv, ForwardInv, BackwardInv
<1>4. /\ EdgeFits(e) /\ e.from \in builder.nodes /\ e.to \in builder.nodes
      /\ Fits(forward[e.to], IsReturn(e.to)) /\ Fits(update_edge(forward[e.from], e), IsReturn(e.to))
  BY <1>2, <1>3, ForwardEdgeFits DEF GraphInv, GraphFits, EdgesFit, ForwardTyped
<1>. DEFINE u == update_edge(forward[e.from], e)
<1>5. /\ ForwardTyped'
      /\ forward'[e.to] = merge(forward[e.to], u)
      /\ \A n \in builder.nodes : n # e.to => forward'[n] = forward[n]
      /\ \A n, s : At(n, s) /\ ~ IsReturn(n) => At(n, s)'
  BY <1>1, <1>2, <1>3, ForwardStep
<1>. HIDE DEF u
<1>6. Entry' = Entry /\ IsStart(Entry)
  BY <1>1, <1>3, SameProgram, EntryIsNode DEF Entry
<1>7. EntryCovered'
  <2>1. \A s \in States : At(Entry, s)'
    BY <1>3, <1>5, <1>6, NodeKinds DEF EntryCovered
  <2>. QED BY <2>1 DEF EntryCovered
<1>8. \A n, s : At(n, s)' /\ n # e.to => At(n, s)
  BY <1>1, <1>5 DEF At
<1>9. ASSUME ~ IsReturn(e.to), NEW s, At(e.to, s)'
      PROVE  At(e.to, s) \/ (u # None /\ s \in u.value)
  <2>1. Fits(forward[e.to], FALSE) /\ Fits(u, FALSE)
    BY <1>4, <1>9 DEF Fits, u
  <2>2. forward'[e.to] # None /\ s \in forward'[e.to].value
    BY <1>9 DEF At
  <2>3. merge(forward[e.to], u) # None /\ s \in merge(forward[e.to], u).value
    BY <1>5, <2>2
  <2>4. (forward[e.to] # None /\ s \in forward[e.to].value) \/ (u # None /\ s \in u.value)
    BY <2>1, <2>3, MergeExact
  <2>. QED BY <1>4, <2>4 DEF At
<1>10. CallsCopied'
  <2>1. ASSUME NEW n \in builder.nodes, IsCall(n), NEW s, At(n, s)'
        PROVE  At(n.source, s)'
    <3>1. ~ IsReturn(n) /\ IsEnd(n.source) /\ ~ IsReturn(n.source)
      <4>1. IsEnd(n.source)
        BY <2>1 DEF IsCall
      <4>. QED BY <2>1, <4>1, NodeKinds
    <3>2. s \in States
      <4>1. forward'[n] \in PlainValues
        BY <1>1, <1>5, <2>1, <3>1, SameNodeKinds DEF At, ForwardTyped, Fits
      <4>. QED BY <2>1, <4>1, ValueKinds DEF At
    <3>3. CASE At(n, s)
      BY <1>3, <1>5, <2>1, <3>1, <3>2, <3>3 DEF CallsCopied
    <3>4. CASE n = e.to /\ u # None /\ s \in u.value
      <4>1. e.kind = "CallCombine" /\ e.from = n.source
        BY <1>4, <2>1, <3>4, NodeKinds DEF EdgeFits
      <4>2. u = forward[e.from]
        BY <4>1 DEF u, update_edge
      <4>3. At(n.source, s)
        BY <1>4, <3>4, <4>1, <4>2 DEF At
      <4>. QED BY <1>5, <3>1, <4>3
    <3>. QED BY <1>8, <1>9, <2>1, <3>1, <3>3, <3>4
  <2>2. ASSUME NEW n \in builder.nodes, IsReturn(n),
               forward'[n] # None, forward'[n].call_stub # None, NEW s \in forward'[n].call_stub
        PROVE  At(n.call, s)'
    <3>1. ~ IsReturn(n.call)
      <4>1. IsEnd(n.call)
        BY <2>2 DEF IsReturn
      <4>. QED BY <4>1, NodeKinds
    <3>2. CASE forward[n] # None /\ forward[n].call_stub # None /\ s \in forward[n].call_stub
      BY <1>3, <1>5, <2>2, <3>1, <3>2 DEF CallsCopied
    <3>3. CASE n = e.to /\ u # None /\ u.call_stub # None /\ s \in u.call_stub
      <4>1. \/ e.kind = "CrCallStub" /\ IsCall(e.from) /\ n.call = e.from.source
            \/ e.kind = "CrReturnStub"
        BY <1>4, <2>2, <3>3, NodeKinds DEF EdgeFits
      <4>2. CASE e.kind = "CrReturnStub"
        <5>1. u = CallFlowCombinator(None, forward[e.from].value)
          BY <4>2 DEF u, update_edge
        <5>2. u.call_stub = None
          BY <5>1 DEF CallFlowCombinator
        <5>. QED BY <3>3, <5>2
      <4>3. CASE e.kind = "CrCallStub" /\ IsCall(e.from) /\ n.call = e.from.source
        <5>1. u = CallFlowCombinator(forward[e.from].value, None)
          BY <4>3 DEF u, update_edge, FromCallSite
        <5>2. s \in forward[e.from].value
          BY <3>3, <5>1 DEF CallFlowCombinator
        <5>3. forward[e.from] \in PlainValues
          BY <1>2, <1>3, <1>4, <4>3, NodeKinds DEF ForwardTyped, Fits
        <5>4. At(e.from, s) /\ s \in States
          BY <1>2, <1>4, <5>2, <5>3, ValueKinds DEF At
        <5>5. At(n.call, s)
          BY <1>3, <1>4, <4>3, <5>4 DEF CallsCopied
        <5>. QED BY <1>5, <3>1, <5>5
      <4>. QED BY <4>1, <4>2, <4>3
    <3>4. CASE n # e.to
      BY <1>5, <2>2, <3>2, <3>4
    <3>5. CASE n = e.to
      <4>1. Fits(forward[e.to], TRUE) /\ Fits(u, TRUE)
        BY <1>4, <2>2, <3>5 DEF Fits, u
      <4>2. /\ merge(forward[e.to], u) # None /\ merge(forward[e.to], u).call_stub # None
            /\ s \in merge(forward[e.to], u).call_stub
        BY <1>5, <2>2, <3>5
      <4>3. \/ forward[e.to] # None /\ forward[e.to].call_stub # None /\ s \in forward[e.to].call_stub
            \/ u # None /\ u.call_stub # None /\ s \in u.call_stub
        BY <4>1, <4>2, MergeExact
      <4>. QED BY <3>2, <3>3, <3>5, <4>3
    <3>. QED BY <3>4, <3>5
  <2>. QED BY <1>1, <2>1, <2>2, SameNodeKinds DEF CallsCopied
<1>11. ReturnsKept'
  <2>. SUFFICES ASSUME NEW d \in builder.edges, d.kind = "ReturnCombine",
                       OnlyReturnsTo(d.to, d.from.call)', NEW s \in States, At(d.to, s)'
                PROVE  \E c \in States : At(d.from.call, c)' /\ c.l = s.l
    BY <1>1 DEF ReturnsKept
  <2>1. OnlyReturnsTo(d.to, d.from.call)
    BY <1>1, <1>6 DEF OnlyReturnsTo
  <2>2. IsReturn(d.from) /\ IsStart(d.to) /\ ~ IsReturn(d.to) /\ ~ IsReturn(d.from.call)
    <3>1. IsReturn(d.from) /\ IsStart(d.to)
      BY <1>3 DEF GraphInv, GraphFits, EdgesFit, EdgeFits
    <3>2. IsEnd(d.from.call)
      BY <3>1 DEF IsReturn
    <3>. QED BY <3>1, <3>2, NodeKinds
  <2>3. CASE At(d.to, s)
    <3>1. PICK c \in States : At(d.from.call, c) /\ c.l = s.l
      BY <1>3, <2>1, <2>3 DEF ReturnsKept
    <3>. QED BY <1>5, <2>2, <3>1
  <2>4. CASE d.to = e.to /\ u # None /\ s \in u.value
    <3>1. e.kind = "ReturnCombine" /\ e.from.call = d.from.call
      BY <1>2, <2>1, <2>4 DEF OnlyReturnsTo
    <3>2. IsReturn(e.from)
      BY <1>4, <3>1 DEF EdgeFits
    <3>. DEFINE flow == forward[e.from].interprocedural_flow
                stub == forward[e.from].call_stub
    <3>3. forward[e.from] \in CombinatorValues
      BY <1>2, <1>3, <1>4, <3>2 DEF ForwardTyped, Fits
    <3>4. flow \in Options /\ stub \in Options
      BY <3>3, ValueKinds
    <3>5. u = Value(update_return(flow, stub))
      BY <3>1 DEF u, update_edge, ReturnCombine
    <3>6. flow # None /\ stub # None
      BY <2>4, <3>5, ValueKinds DEF update_return
    <3>7. u.value = {AfterReturn(a, c) : a \in flow, c \in stub}
      <4>1. {AfterReturn(a, c) : a \in flow, c \in stub} \in SUBSET States
        BY <3>4, <3>6, StateFields DEF AfterReturn, Options
      <4>. QED BY <3>5, <3>6, <4>1, ValueKinds DEF update_return
    <3>8. PICK a \in flow, c \in stub : s = AfterReturn(a, c)
      BY <2>4, <3>7
    <3>9. c \in States /\ c.l = s.l
      BY <3>4, <3>6, <3>8 DEF AfterReturn, Options
    <3>10. At(d.from.call, c)
      BY <1>2, <1>3, <1>4, <3>1, <3>2, <3>6, <3>8 DEF CallsCopied
    <3>. QED BY <1>5, <2>2, <3>9, <3>10
  <2>. QED BY <1>8, <1>9, <2>2, <2>3, <2>4
<1>12. BackwardTyped' /\ GoalCovered'
  BY <1>1, <1>3, BackwardStays
<1>13. BuilderInv'
  BY <1>1, <1>3, BuilderInvStays
<1>14. RunInv'
  BY <1>1 DEF Inv, RunInv, SolveForward
<1>. QED BY <1>1, <1>5, <1>7, <1>10, <1>11, <1>12, <1>13, <1>14
         DEF Inv, ForwardInv, BackwardInv

LEMMA SolveBackwardKeeps ==
  ASSUME Inv, SolveBackward
  PROVE  Inv'
<1>0. PICK e \in BackwardUnstable : backward' = [backward EXCEPT ![e.from] = BackwardUpdated(e)]
  BY DEF SolveBackward
<1>1. /\ phase = "solve" /\ phase' = phase
      /\ backward' = [backward EXCEPT ![e.from] = BackwardUpdated(e)]
      /\ program' = program /\ builder' = builder /\ forward' = forward
  BY <1>0 DEF SolveBackward
<1>2. e \in builder.edges /\ backward[e.to] # None
  BY DEF BackwardUnstable
<1>3. /\ program \in Programs /\ GraphInv(builder) /\ BuilderInv
      /\ ForwardTyped /\ EntryCovered /\ CallsCopied /\ ReturnsKept
      /\ BackwardTyped /\ GoalCovered
  BY <1>1 DEF Inv, BuilderInv, ForwardInv, BackwardInv
<1>4. /\ BackwardTyped'
      /\ \A n, s : BackwardAt(n, s) /\ ~ IsCall(n) => BackwardAt(n, s)'
  BY <1>1, <1>2, <1>3, BackwardStep
<1>5. ReturnNodes(program.entry)' = ReturnNodes(program.entry)
  BY <1>1, SameNodeKinds, SameProgram DEF ReturnNodes
<1>6. \A n \in ReturnNodes(program.entry), s \in Goal : BackwardAt(n, s)'
  BY <1>3, <1>4, NodeKinds DEF GoalCovered, ReturnNodes
<1>7. GoalCovered'
  BY <1>5, <1>6 DEF GoalCovered, Goal
<1>8. ForwardTyped' /\ EntryCovered' /\ CallsCopied' /\ ReturnsKept'
  BY <1>1, <1>3, ForwardStays
<1>9. BuilderInv'
  BY <1>1, <1>3, BuilderInvStays
<1>10. RunInv'
  BY <1>1 DEF Inv, RunInv, SolveBackward
<1>. QED BY <1>1, <1>4, <1>7, <1>8, <1>9, <1>10 DEF Inv, ForwardInv, BackwardInv

-----------------------------------------------------------------------------
(* A solved analysis follows the edges of the graph                        *)

Complete ==
  /\ program \in Programs
  /\ GraphInv(builder) /\ builder.block_worklist = {} /\ Connected(builder)
  /\ ForwardTyped /\ BackwardTyped
  /\ Solved

LEMMA ForwardFlow ==
  ASSUME Complete, NEW e \in builder.edges, forward[e.from] # None
  PROVE  /\ Below(update_edge(forward[e.from], e), forward[e.to])
         /\ \A w \in SUBSET States :
              update_edge(forward[e.from], e) = Value(w) => \A s \in w : At(e.to, s)
<1>1. EdgeFits(e) /\ e.from \in builder.nodes /\ e.to \in builder.nodes
  BY DEF Complete, GraphInv, GraphFits, EdgesFit
<1>2. Fits(forward[e.to], IsReturn(e.to)) /\ Fits(update_edge(forward[e.from], e), IsReturn(e.to))
  BY <1>1, ForwardEdgeFits DEF Complete, ForwardTyped
<1>3. merge(forward[e.to], update_edge(forward[e.from], e)) = forward[e.to]
  BY DEF Complete, Solved, ForwardUnstable, ForwardUpdated
<1>4. IsReturn(e.to) \in BOOLEAN
  BY DEF IsReturn
<1>5. Below(update_edge(forward[e.from], e), forward[e.to])
  BY <1>2, <1>3, <1>4, MergeUpper
<1>6. ASSUME NEW w \in SUBSET States, update_edge(forward[e.from], e) = Value(w), NEW s \in w
      PROVE  At(e.to, s)
  <2>1. Value(w) \in PlainValues /\ Value(w) # None /\ Value(w).value = w
    BY ValueKinds
  <2>. QED BY <1>1, <1>5, <1>6, <2>1 DEF Below, At
<1>. QED BY <1>5, <1>6

LEMMA BackwardFlow ==
  ASSUME Complete, NEW e \in builder.edges, backward[e.to] # None
  PROVE  /\ Below(bw_update_edge(backward[e.to], e), backward[e.from])
         /\ \A w \in SUBSET States :
              bw_update_edge(backward[e.to], e) = Value(w) => \A s \in w : BackwardAt(e.from, s)
<1>1. EdgeFits(e) /\ e.from \in builder.nodes /\ e.to \in builder.nodes
  BY DEF Complete, GraphInv, GraphFits, EdgesFit
<1>2. Fits(backward[e.from], IsCall(e.from)) /\ Fits(bw_update_edge(backward[e.to], e), IsCall(e.from))
  BY <1>1, BackwardEdgeFits DEF Complete, BackwardTyped
<1>3. merge(backward[e.from], bw_update_edge(backward[e.to], e)) = backward[e.from]
  BY DEF Complete, Solved, BackwardUnstable, BackwardUpdated
<1>4. IsCall(e.from) \in BOOLEAN
  BY DEF IsCall
<1>5. Below(bw_update_edge(backward[e.to], e), backward[e.from])
  BY <1>2, <1>3, <1>4, MergeUpper
<1>6. ASSUME NEW w \in SUBSET States, bw_update_edge(backward[e.to], e) = Value(w), NEW s \in w
      PROVE  BackwardAt(e.from, s)
  <2>1. Value(w) \in PlainValues /\ Value(w) # None /\ Value(w).value = w
    BY ValueKinds
  <2>. QED BY <1>1, <1>5, <1>6, <2>1 DEF Below, BackwardAt
<1>. QED BY <1>5, <1>6

(* What a plain node holds.                                                *)
LEMMA AtPlain ==
  ASSUME Complete, NEW n, NEW s
  PROVE  /\ At(n, s) /\ ~ IsReturn(n) =>
              /\ forward[n] \in PlainValues /\ forward[n] = Value(forward[n].value)
              /\ forward[n].value \in SUBSET States /\ s \in States
         /\ BackwardAt(n, s) /\ ~ IsCall(n) =>
              /\ backward[n] \in PlainValues /\ backward[n] = Value(backward[n].value)
              /\ backward[n].value \in SUBSET States /\ s \in States
<1>1. \A v \in PlainValues : v = Value(v.value)
  BY ValueKinds DEF Value, PlainValues
<1>2. ASSUME At(n, s), ~ IsReturn(n)
      PROVE  forward[n] \in PlainValues /\ s \in forward[n].value
  BY <1>2 DEF At, Complete, ForwardTyped, Fits
<1>3. ASSUME BackwardAt(n, s), ~ IsCall(n)
      PROVE  backward[n] \in PlainValues /\ s \in backward[n].value
  BY <1>3 DEF BackwardAt, Complete, BackwardTyped, Fits
<1>. QED BY <1>1, <1>2, <1>3, ValueKinds

(* A block that occurs in the graph has all its edges.                     *)
LEMMA KnownBlock ==
  ASSUME Complete, NEW b, NEW f,
         BlkStart(b, f) \in builder.nodes \/ BlkEnd(b, f) \in builder.nodes
  PROVE  /\ b \in Blks /\ f \in Subs
         /\ IsStart(BlkStart(b, f)) /\ IsEnd(BlkEnd(b, f))
         /\ BlkStart(b, f) \in builder.nodes /\ BlkEnd(b, f) \in builder.nodes
         /\ Edge(BlkStart(b, f), BlkEnd(b, f), "Block", 0) \in builder.edges
         /\ Expanded(builder, BlkEnd(b, f))
<1>1. ASSUME NEW n \in builder.nodes, n = BlkStart(b, f) \/ n = BlkEnd(b, f)
      PROVE  <<b, f>> \in builder.jump_targets
  <2>1. n.blk = b /\ n.sub = f
    BY <1>1, NodeFields
  <2>2. n.kind \in {"BlkStart", "BlkEnd"}
    BY <1>1 DEF BlkStart, BlkEnd
  <2>3. IsStart(n) \/ IsEnd(n)
    BY <2>2, NodeKinds DEF Complete, GraphInv, GraphFits, NodesFit
  <2>. QED BY <2>1, <2>3 DEF Complete, GraphInv, GraphFits, NodesFit
<1>2. <<b, f>> \in builder.jump_targets
  BY <1>1
<1>3. /\ <<b, f>> \in Blks \X Subs
      /\ BlkStart(b, f) \in builder.nodes /\ BlkEnd(b, f) \in builder.nodes
      /\ Edge(BlkStart(b, f), BlkEnd(b, f), "Block", 0) \in builder.edges
  BY <1>2 DEF Complete, GraphInv, GraphFits, BlocksKnown
<1>4. Expanded(builder, BlkEnd(b, f))
  BY <1>2 DEF Complete, GraphInv, WorkRemembered
<1>. QED BY <1>3, <1>4, NodeFields

LEMMA DefsFlow ==
  ASSUME Complete, NEW b, NEW f, BlkStart(b, f) \in builder.nodes, NEW s \in States
  PROVE  LET t == program.blks[b].def[s] IN
           /\ At(BlkStart(b, f), s) => At(BlkEnd(b, f), t)
           /\ BackwardAt(BlkEnd(b, f), t) => BackwardAt(BlkStart(b, f), s)
<1>. DEFINE e == Edge(BlkStart(b, f), BlkEnd(b, f), "Block", 0)
            def == program.blks[b].def
<1>1. /\ b \in Blks /\ IsStart(BlkStart(b, f)) /\ IsEnd(BlkEnd(b, f)) /\ e \in builder.edges
      /\ BlkStart(b, f) \in builder.nodes
  BY KnownBlock
<1>2. /\ e.from = BlkStart(b, f) /\ e.to = BlkEnd(b, f) /\ e.kind = "Block"
      /\ e.from.blk = b /\ e.to.blk = b
  BY EdgeFields, NodeFields
<1>3. def \in [States -> States]
  BY <1>1, ProgramFacts DEF Complete
<1>. HIDE DEF e
<1>4. ASSUME At(BlkStart(b, f), s)
      PROVE  At(BlkEnd(b, f), def[s])
  <2>. DEFINE v == forward[e.from]
  <2>1. v \in PlainValues /\ v.value \in SUBSET States /\ s \in v.value /\ v # None
    BY <1>1, <1>2, <1>4, AtPlain, NodeKinds DEF At
  <2>2. update_edge(v, e) = Value(update_def(v.value, def))
    BY <1>2 DEF update_edge
  <2>3. update_def(v.value, def) \in SUBSET States /\ def[s] \in update_def(v.value, def)
    BY <1>3, <2>1 DEF update_def
  <2>. QED BY <1>1, <1>2, <2>1, <2>2, <2>3, ForwardFlow
<1>5. ASSUME BackwardAt(BlkEnd(b, f), def[s])
      PROVE  BackwardAt(BlkStart(b, f), s)
  <2>. DEFINE v == backward[e.to]
  <2>1. def[s] \in v.value /\ v # None
    BY <1>2, <1>5 DEF BackwardAt
  <2>2. bw_update_edge(v, e) = Value(bw_update_def(v.value, def))
    BY <1>2 DEF bw_update_edge
  <2>3. bw_update_def(v.value, def) \in SUBSET States /\ s \in bw_update_def(v.value, def)
    BY <2>1 DEF bw_update_def
  <2>. QED BY <1>1, <1>2, <2>1, <2>2, <2>3, BackwardFlow
<1>. QED BY <1>4, <1>5

LEMMA JumpFlow ==
  ASSUME Complete, NEW b, NEW f, BlkEnd(b, f) \in builder.nodes, NEW s \in States,
         NEW jmp \in DOMAIN Jmps(b), Jmps(b)[jmp].kind \in {"Branch", "CBranch", "BranchInd"},
         NEW t \in NextBlocks(b, jmp)
  PROVE  /\ /\ At(BlkEnd(b, f), s)
            /\ Jmps(b)[jmp].kind = "CBranch" => s.x # 0
            /\ jmp > 1 => s.x = 0
            => At(BlkStart(t, f), s)
         /\ BackwardAt(BlkStart(t, f), s) => BackwardAt(BlkEnd(b, f), s)
<1>. DEFINE e == Edge(BlkEnd(b, f), BlkStart(t, f), "Jump", jmp)
<1>1. BlkEnd(b, f).blk = b /\ BlkEnd(b, f).sub = f
  BY NodeFields
<1>2. JumpEdges(BlkEnd(b, f), jmp) \subseteq builder.edges
  BY <1>1, KnownBlock DEF Expanded
<1>3. JumpEdges(BlkEnd(b, f), jmp) = EdgesTo(BlkEnd(b, f), jmp, "Jump")
  BY <1>1 DEF JumpEdges, IsExternCall, IsInternalCall
<1>4. e \in builder.edges
  BY <1>1, <1>2, <1>3 DEF EdgesTo
<1>5. /\ e.from = BlkEnd(b, f) /\ e.to = BlkStart(t, f) /\ e.kind = "Jump" /\ e.jmp = jmp
      /\ e.from.blk = b
  BY <1>1, EdgeFields
<1>6. IsEnd(e.from) /\ e.from \in builder.nodes /\ IsStart(e.to)
  BY <1>4, <1>5 DEF Complete, GraphInv, GraphFits, EdgesFit, EdgeFits
<1>. HIDE DEF e
<1>7. ASSUME At(BlkEnd(b, f), s), Jmps(b)[jmp].kind = "CBranch" => s.x # 0, jmp > 1 => s.x = 0
      PROVE  At(BlkStart(t, f), s)
  <2>. DEFINE v == forward[e.from]
              w == ConditionalValue(v.value, b, jmp)
  <2>1. v \in PlainValues /\ v.value \in SUBSET States /\ s \in v.value /\ v # None
    BY <1>5, <1>6, <1>7, AtPlain, NodeKinds DEF At
  <2>2. update_edge(v, e) = Value(w)
    BY <1>5 DEF update_edge
  <2>3. ASSUME NEW c \in BOOLEAN, (s.x # 0) = c
        PROVE  /\ specialize_conditional(v.value, c) \in SUBSET States
               /\ s \in specialize_conditional(v.value, c)
    <3>1. s \in {r \in v.value : (r.x # 0) = c}
      BY <2>1, <2>3
    <3>. QED BY <2>1, <3>1 DEF specialize_conditional
  <2>4. w \in SUBSET States /\ s \in w
    <3>1. CASE Jmps(b)[jmp].kind = "CBranch"
      BY <1>7, <2>3, <3>1 DEF ConditionalValue
    <3>2. CASE Jmps(b)[jmp].kind # "CBranch" /\ jmp > 1
      BY <1>7, <2>3, <3>2 DEF ConditionalValue
    <3>3. CASE Jmps(b)[jmp].kind # "CBranch" /\ ~ (jmp > 1)
      BY <2>1, <3>3 DEF ConditionalValue
    <3>. QED BY <3>1, <3>2, <3>3
  <2>. QED BY <1>4, <1>5, <2>1, <2>2, <2>4, ForwardFlow
<1>8. ASSUME BackwardAt(BlkStart(t, f), s)
      PROVE  BackwardAt(BlkEnd(b, f), s)
  <2>. DEFINE v == backward[e.to]
  <2>1. v = Value(v.value) /\ v.value \in SUBSET States /\ s \in v.value /\ v # None
    BY <1>5, <1>6, <1>8, AtPlain, NodeKinds DEF BackwardAt
  <2>2. bw_update_edge(v, e) = v
    BY <1>5 DEF bw_update_edge
  <2>. QED BY <1>4, <1>5, <2>1, <2>2, BackwardFlow
<1>. QED BY <1>7, <1>8

LEMMA ExternCallFlow ==
  ASSUME Complete, NEW b, NEW f, BlkEnd(b, f) \in builder.nodes, NEW s \in States,
         NEW jmp \in DOMAIN Jmps(b), IsExternCall(Jmps(b)[jmp]),
         NEW t \in NextBlocks(b, jmp), NEW i \in Words
  PROVE  LET r == [s EXCEPT !.x = i] IN
           /\ At(BlkEnd(b, f), s) => At(BlkStart(t, f), r)
           /\ BackwardAt(BlkStart(t, f), r) => BackwardAt(BlkEnd(b, f), s)
<1>. DEFINE e == Edge(BlkEnd(b, f), BlkStart(t, f), "ExternCallStub", jmp)
            r == [s EXCEPT !.x = i]
<1>1. BlkEnd(b, f).blk = b /\ BlkEnd(b, f).sub = f
  BY NodeFields
<1>2. JumpEdges(BlkEnd(b, f), jmp) \subseteq builder.edges
  BY <1>1, KnownBlock DEF Expanded
<1>3. JumpEdges(BlkEnd(b, f), jmp) = EdgesTo(BlkEnd(b, f), jmp, "ExternCallStub")
  BY <1>1 DEF JumpEdges, IsExternCall, IsInternalCall
<1>4. e \in builder.edges
  BY <1>1, <1>2, <1>3 DEF EdgesTo
<1>5. /\ e.from = BlkEnd(b, f) /\ e.to = BlkStart(t, f) /\ e.kind = "ExternCallStub"
  BY EdgeFields
<1>6. IsEnd(e.from) /\ e.from \in builder.nodes /\ IsStart(e.to)
  BY <1>4, <1>5 DEF Complete, GraphInv, GraphFits, EdgesFit, EdgeFits
<1>. HIDE DEF e
<1>7. ASSUME At(BlkEnd(b, f), s)
      PROVE  At(BlkStart(t, f), r)
  <2>. DEFINE v == forward[e.from]
  <2>1. v \in PlainValues /\ v.value \in SUBSET States /\ s \in v.value /\ v # None
    BY <1>5, <1>6, <1>7, AtPlain, NodeKinds DEF At
  <2>2. update_edge(v, e) = Value(update_call_stub(v.value))
    BY <1>5 DEF update_edge
  <2>3. update_call_stub(v.value) \in SUBSET States /\ r \in update_call_stub(v.value)
    BY <2>1, StateFields DEF update_call_stub
  <2>. QED BY <1>4, <1>5, <2>1, <2>2, <2>3, ForwardFlow
<1>8. ASSUME BackwardAt(BlkStart(t, f), r)
      PROVE  BackwardAt(BlkEnd(b, f), s)
  <2>. DEFINE v == backward[e.to]
  <2>1. r \in v.value /\ v # None
    BY <1>5, <1>8 DEF BackwardAt
  <2>2. bw_update_edge(v, e) = Value(bw_update_call_stub(v.value))
    BY <1>5 DEF bw_update_edge
  <2>3. bw_update_call_stub(v.value) \in SUBSET States /\ s \in bw_update_call_stub(v.value)
    BY <2>1 DEF bw_update_call_stub
  <2>. QED BY <1>4, <1>5, <2>1, <2>2, <2>3, BackwardFlow
<1>. QED BY <1>7, <1>8

(* An internal call: its node and its edges.                               *)
LEMMA CallEdges ==
  ASSUME Complete, NEW b, NEW f, BlkEnd(b, f) \in builder.nodes,
         NEW jmp \in DOMAIN Jmps(b), IsInternalCall(Jmps(b)[jmp])
  PROVE  LET j == Jmps(b)[jmp]
             c == CallNode(BlkEnd(b, f), j)
         IN  /\ IsCall(c) /\ c.source = BlkEnd(b, f)
             /\ IsStart(call_targets[j.target])
             /\ call_targets[j.target].sub = j.target
             /\ Edge(BlkEnd(b, f), c, "CallCombine", jmp) \in builder.edges
             /\ Edge(c, call_targets[j.target], "Call", jmp) \in builder.edges
             /\ j.return # None =>
                  <<c, BlkStart(j.return, f)>> \in builder.return_addresses[j.target]
<1>. DEFINE j == Jmps(b)[jmp]
            c == CallNode(BlkEnd(b, f), j)
<1>1. BlkEnd(b, f).blk = b /\ BlkEnd(b, f).sub = f
  BY NodeFields
<1>2. IsEnd(BlkEnd(b, f)) /\ Expanded(builder, BlkEnd(b, f))
  BY KnownBlock
<1>3. jmp \in InternalCalls(BlkEnd(b, f))
  BY <1>1 DEF InternalCalls
<1>4. c \in CallNodes(BlkEnd(b, f))
  BY <1>1, <1>3 DEF CallNodes
<1>5. IsCall(c) /\ c.source = BlkEnd(b, f)
  BY <1>2, <1>4, CallNodesFit DEF Complete
<1>6. j.target \in DOMAIN call_targets
  BY DEF IsInternalCall
<1>7. /\ j.target \in Subs
      /\ IsStart(call_targets[j.target]) /\ call_targets[j.target].sub = j.target
  BY <1>6, ProgramFacts, NodeFields DEF Complete
<1>8. JumpEdges(BlkEnd(b, f), jmp) =
        {Edge(BlkEnd(b, f), c, "CallCombine", jmp), Edge(c, call_targets[j.target], "Call", jmp)}
  BY <1>1 DEF JumpEdges, IsExternCall, IsInternalCall
<1>9. JumpEdges(BlkEnd(b, f), jmp) \subseteq builder.edges
  BY <1>1, <1>2 DEF Expanded
<1>10. ASSUME j.return # None
       PROVE  <<c, BlkStart(j.return, f)>> \in builder.return_addresses[j.target]
  <2>1. <<c, BlkStart(j.return, f)>> \in ReturnAddresses(BlkEnd(b, f), j.target)
    BY <1>1, <1>3, <1>10 DEF ReturnAddresses
  <2>. QED BY <1>2, <1>7, <2>1 DEF Expanded
<1>. QED BY <1>5, <1>7, <1>8, <1>9, <1>10

LEMMA CallFlow ==
  ASSUME Complete, NEW b, NEW f, BlkEnd(b, f) \in builder.nodes, NEW s \in States,
         NEW jmp \in DOMAIN Jmps(b), IsInternalCall(Jmps(b)[jmp]), At(BlkEnd(b, f), s)
  PROVE  /\ At(CallNode(BlkEnd(b, f), Jmps(b)[jmp]), s)
         /\ At(call_targets[Jmps(b)[jmp].target], InCallee(s))
<1>. DEFINE j == Jmps(b)[jmp]
            c == CallNode(BlkEnd(b, f), j)
            target == call_targets[j.target]
            d == Edge(BlkEnd(b, f), c, "CallCombine", jmp)
            e == Edge(c, target, "Call", jmp)
<1>1. IsCall(c) /\ IsEnd(BlkEnd(b, f)) /\ d \in builder.edges /\ e \in builder.edges
  BY CallEdges, KnownBlock
<1>2. /\ d.from = BlkEnd(b, f) /\ d.to = c /\ d.kind = "CallCombine"
      /\ e.from = c /\ e.to = target /\ e.kind = "Call"
  BY EdgeFields
<1>. HIDE DEF c, target, d, e
<1>3. At(c, s)
  <2>. DEFINE v == forward[d.from]
  <2>1. v = Value(v.value) /\ v.value \in SUBSET States /\ s \in v.value /\ v # None
    BY <1>1, <1>2, AtPlain, NodeKinds DEF At
  <2>2. update_edge(v, d) = v
    BY <1>2 DEF update_edge
  <2>. QED BY <1>1, <1>2, <2>1, <2>2, ForwardFlow
<1>4. At(target, InCallee(s))
  <2>. DEFINE v == forward[e.from]
  <2>1. v.value \in SUBSET States /\ s \in v.value /\ v # None
    BY <1>1, <1>2, <1>3, AtPlain, NodeKinds DEF At
  <2>2. update_edge(v, e) = Value(update_call(v.value))
    BY <1>2 DEF update_edge
  <2>3. update_call(v.value) \in SUBSET States /\ InCallee(s) \in update_call(v.value)
    BY <2>1, StateFields DEF update_call
  <2>. QED BY <1>1, <1>2, <2>1, <2>2, <2>3, ForwardFlow
<1>. QED BY <1>3, <1>4 DEF c, target

(* Returns: the edges of a call that returns to node to.                   *)
LEMMA ReturnEdges ==
  ASSUME Complete, NEW f, NEW n \in ReturnNodes(f),
         NEW c, NEW to, <<c, to>> \in builder.return_addresses[f]
  PROVE  LET cr == CallReturn(c.source, n)
         IN  /\ IsEnd(n) /\ IsCall(c) /\ IsStart(to) /\ IsReturn(cr)
             /\ Edge(c, cr, "CrCallStub", 0) \in builder.edges
             /\ Edge(n, cr, "CrReturnStub", 0) \in builder.edges
             /\ Edge(cr, to, "ReturnCombine", CallJmp(cr.call.blk)) \in builder.edges
<1>. DEFINE cr == CallReturn(c.source, n)
            r == <<c, to>>
<1>1. n \in builder.nodes /\ IsEnd(n) /\ n.sub = f /\ HasReturn(n.blk)
  BY DEF ReturnNodes
<1>2. r[1] = c /\ r[2] = to /\ r \in builder.return_addresses[n.sub]
  BY <1>1
<1>3. f \in Subs
  BY <1>1 DEF IsEnd
<1>4. IsCall(c) /\ IsStart(to)
  BY <1>2, <1>3 DEF Complete, GraphInv, GraphFits, AddressesFit
<1>. HIDE DEF r
<1>5. /\ Edge(c, cr, "CrCallStub", 0) \in builder.edges
      /\ Edge(n, cr, "CrReturnStub", 0) \in builder.edges
      /\ Edge(cr, to, "ReturnCombine", CallJmp(cr.call.blk)) \in builder.edges
  BY <1>1, <1>2 DEF Complete, Connected
<1>6. IsEnd(c.source)
  BY <1>4 DEF IsCall
<1>7. IsReturn(cr)
  BY <1>1, <1>6, NodeFields DEF IsReturn
<1>. QED BY <1>1, <1>4, <1>5, <1>7

LEMMA ReturnFlow ==
  ASSUME Complete, NEW f, NEW n \in ReturnNodes(f),
         NEW c, NEW to, <<c, to>> \in builder.return_addresses[f],
         NEW s, At(n, s), NEW before, At(c, before)
  PROVE  At(to, AfterReturn(s, before))
<1>. DEFINE cr == CallReturn(c.source, n)
            call == Edge(c, cr, "CrCallStub", 0)
            return == Edge(n, cr, "CrReturnStub", 0)
            combine == Edge(cr, to, "ReturnCombine", CallJmp(cr.call.blk))
<1>1. /\ IsEnd(n) /\ IsCall(c) /\ IsReturn(cr)
      /\ call \in builder.edges /\ return \in builder.edges /\ combine \in builder.edges
  BY ReturnEdges
<1>2. /\ call.from = c /\ call.to = cr /\ call.kind = "CrCallStub"
      /\ return.from = n /\ return.to = cr /\ return.kind = "CrReturnStub"
      /\ combine.from = cr /\ combine.to = to /\ combine.kind = "ReturnCombine"
  BY EdgeFields
<1>. HIDE DEF cr, call, return, combine
<1>3. /\ forward[c] # None /\ forward[c].value \in SUBSET States /\ before \in forward[c].value
      /\ forward[n] # None /\ forward[n].value \in SUBSET States /\ s \in forward[n].value
  BY <1>1, AtPlain, NodeKinds DEF At
<1>. DEFINE v == forward[cr]
<1>4. /\ v # None /\ v \in CombinatorValues
      /\ v.call_stub # None /\ before \in v.call_stub
  <2>1. update_edge(forward[c], call) = CallFlowCombinator(forward[c].value, None)
    BY <1>2 DEF update_edge, FromCallSite
  <2>2. Below(CallFlowCombinator(forward[c].value, None), v)
    BY <1>1, <1>2, <1>3, <2>1, ForwardFlow
  <2>3. forward[c].value \in Options /\ None \in Options
    BY <1>3 DEF Options
  <2>4. /\ CallFlowCombinator(forward[c].value, None) \in CombinatorValues
        /\ CallFlowCombinator(forward[c].value, None).call_stub = forward[c].value
        /\ CallFlowCombinator(forward[c].value, None) # None
    BY <2>3, ValueKinds
  <2>5. forward[c].value # None
    BY <1>3, ValueKinds
  <2>. QED BY <1>3, <2>2, <2>4, <2>5 DEF Below, OptionBelow
<1>5. v.interprocedural_flow # None /\ s \in v.interprocedural_flow
  <2>1. update_edge(forward[n], return) = CallFlowCombinator(None, forward[n].value)
    BY <1>2 DEF update_edge
  <2>2. Below(CallFlowCombinator(None, forward[n].value), v)
    BY <1>1, <1>2, <1>3, <2>1, ForwardFlow
  <2>3. forward[n].value \in Options /\ None \in Options
    BY <1>3 DEF Options
  <2>4. /\ CallFlowCombinator(None, forward[n].value) \in CombinatorValues
        /\ CallFlowCombinator(None, forward[n].value).interprocedural_flow = forward[n].value
        /\ CallFlowCombinator(None, forward[n].value) # None
    BY <2>3, ValueKinds
  <2>5. forward[n].value # None
    BY <1>3, ValueKinds
  <2>. QED BY <1>3, <2>2, <2>4, <2>5 DEF Below, OptionBelow
<1>. DEFINE w == {AfterReturn(a, b) : a \in v.interprocedural_flow, b \in v.call_stub}
<1>6. v.interprocedural_flow \in SUBSET States /\ v.call_stub \in SUBSET States
  BY <1>4, <1>5, ValueKinds DEF Options
<1>7. w \in SUBSET States /\ AfterReturn(s, before) \in w
  BY <1>4, <1>5, <1>6, StateFields DEF AfterReturn
<1>8. update_edge(v, combine) = Value(w)
  BY <1>2, <1>4, <1>5 DEF update_edge, ReturnCombine, update_return
<1>. QED BY <1>1, <1>2, <1>4, <1>7, <1>8, ForwardFlow

(* Backwards over a return: into the callee and to the call.               *)
LEMMA BackwardReturn ==
  ASSUME Complete, NEW f, NEW n \in ReturnNodes(f),
         NEW c, NEW to, <<c, to>> \in builder.return_addresses[f],
         NEW q, BackwardAt(to, q)
  PROVE  /\ \A s \in States : s.x = q.x => BackwardAt(n, s)
         /\ backward[c] # None /\ backward[c] \in CombinatorValues
         /\ backward[c].call_stub # None /\ q \in backward[c].call_stub
<1>. DEFINE cr == CallReturn(c.source, n)
            call == Edge(c, cr, "CrCallStub", 0)
            return == Edge(n, cr, "CrReturnStub", 0)
            combine == Edge(cr, to, "ReturnCombine", CallJmp(cr.call.blk))
<1>1. /\ IsStart(to) /\ IsReturn(cr)
      /\ call \in builder.edges /\ return \in builder.edges /\ combine \in builder.edges
  BY ReturnEdges
<1>2. /\ call.from = c /\ call.to = cr /\ call.kind = "CrCallStub"
      /\ return.from = n /\ return.to = cr /\ return.kind = "CrReturnStub"
      /\ combine.from = cr /\ combine.to = to /\ combine.kind = "ReturnCombine"
  BY EdgeFields
<1>. HIDE DEF cr, call, return, combine
<1>3. BackwardAt(cr, q)
  <2>. DEFINE v == backward[combine.to]
  <2>1. v = Value(v.value) /\ v.value \in SUBSET States /\ q \in v.value /\ v # None
    BY <1>1, <1>2, AtPlain, NodeKinds DEF BackwardAt
  <2>2. bw_update_edge(v, combine) = v
    BY <1>2 DEF bw_update_edge
  <2>. QED BY <1>1, <1>2, <2>1, <2>2, BackwardFlow
<1>. DEFINE v == backward[cr]
<1>4. v.value \in SUBSET States /\ q \in v.value /\ v # None
  BY <1>1, <1>3, AtPlain, NodeKinds DEF BackwardAt
<1>5. ASSUME NEW s \in States, s.x = q.x
      PROVE  BackwardAt(n, s)
  <2>1. bw_update_edge(v, return) = Value(split_return_stub(v.value))
    BY <1>2 DEF bw_update_edge
  <2>2. split_return_stub(v.value) \in SUBSET States /\ s \in split_return_stub(v.value)
    BY <1>4, <1>5 DEF split_return_stub
  <2>. QED BY <1>1, <1>2, <1>4, <2>1, <2>2, BackwardFlow
<1>6. /\ backward[c] # None /\ backward[c] \in CombinatorValues
      /\ backward[c].call_stub # None /\ q \in backward[c].call_stub
  <2>1. bw_update_edge(v, call) = CallFlowCombinator(v.value, None)
    BY <1>2 DEF bw_update_edge, split_call_stub
  <2>2. Below(CallFlowCombinator(v.value, None), backward[c])
    BY <1>1, <1>2, <1>4, <2>1, BackwardFlow
  <2>3. v.value \in Options /\ None \in Options
    BY <1>4 DEF Options
  <2>4. /\ CallFlowCombinator(v.value, None) \in CombinatorValues
        /\ CallFlowCombinator(v.value, None).call_stub = v.value
        /\ CallFlowCombinator(v.value, None) # None
    BY <2>3, ValueKinds
  <2>5. v.value # None
    BY <1>4, ValueKinds
  <2>. QED BY <1>4, <2>2, <2>4, <2>5 DEF Below, OptionBelow
<1>. QED BY <1>5, <1>6

(* Backwards over a call that returns.                                     *)
LEMMA BackwardCall ==
  ASSUME Complete, NEW b, NEW f, BlkEnd(b, f) \in builder.nodes, NEW s \in States,
         NEW jmp \in DOMAIN Jmps(b), IsInternalCall(Jmps(b)[jmp]),
         ReturnNodes(Jmps(b)[jmp].target) # {}, Jmps(b)[jmp].return # None,
         BackwardAt(call_targets[Jmps(b)[jmp].target], InCallee(s)),
         NEW q, q.l = s.l, BackwardAt(BlkStart(Jmps(b)[jmp].return, f), q)
  PROVE  BackwardAt(BlkEnd(b, f), s)
<1>. DEFINE j == Jmps(b)[jmp]
            c == CallNode(BlkEnd(b, f), j)
            target == call_targets[j.target]
            d == Edge(BlkEnd(b, f), c, "CallCombine", jmp)
            e == Edge(c, target, "Call", jmp)
<1>1. /\ IsCall(c) /\ d \in builder.edges /\ e \in builder.edges /\ IsStart(target)
      /\ <<c, BlkStart(j.return, f)>> \in builder.return_addresses[j.target]
  BY CallEdges
<1>2. /\ d.from = BlkEnd(b, f) /\ d.to = c /\ d.kind = "CallCombine"
      /\ e.from = c /\ e.to = target /\ e.kind = "Call"
  BY EdgeFields
<1>. HIDE DEF c, target, d, e
<1>3. PICK n \in ReturnNodes(j.target) : TRUE
  OBVIOUS
<1>. DEFINE v == backward[c]
<1>4. /\ v # None /\ v \in CombinatorValues
      /\ v.call_stub # None /\ q \in v.call_stub
  BY <1>1, <1>3, BackwardReturn
<1>5. v.interprocedural_flow # None /\ InCallee(s) \in v.interprocedural_flow
  <2>. DEFINE t == backward[target]
  <2>1. t.value \in SUBSET States /\ InCallee(s) \in t.value /\ t # None
    BY <1>1, AtPlain, NodeKinds DEF BackwardAt, target
  <2>2. bw_update_edge(t, e) = CallFlowCombinator(None, t.value)
    BY <1>2 DEF bw_update_edge
  <2>3. Below(CallFlowCombinator(None, t.value), v)
    BY <1>1, <1>2, <2>1, <2>2, BackwardFlow
  <2>4. t.value \in Options /\ None \in Options
    BY <2>1 DEF Options
  <2>5. /\ CallFlowCombinator(None, t.value) \in CombinatorValues
        /\ CallFlowCombinator(None, t.value).interprocedural_flow = t.value
        /\ CallFlowCombinator(None, t.value) # None
    BY <2>4, ValueKinds
  <2>6. t.value # None
    BY <2>1, ValueKinds
  <2>. QED BY <2>1, <2>3, <2>5, <2>6 DEF Below, OptionBelow
<1>. DEFINE w == {r \in States : InCallee(r) \in v.interprocedural_flow
                                   /\ \E p \in v.call_stub : p.l = r.l}
<1>6. bw_update_edge(v, d) = Value(w)
  BY <1>2, <1>4, <1>5 DEF bw_update_edge, CallCombine, update_callsite
<1>7. w \in SUBSET States /\ s \in w
  BY <1>4, <1>5
<1>. QED BY <1>1, <1>2, <1>4, <1>6, <1>7, BackwardFlow

-----------------------------------------------------------------------------
(* The execution                                                           *)

(* Nothing but the machine moves: what is known about it stays.            *)
LEMMA MachineStays ==
  ASSUME program' = program, builder' = builder, forward' = forward, backward' = backward
  PROVE  /\ Solved => Solved'
         /\ MachineFits(machine') => MachineFits(machine)'
         /\ Promising(machine)' => Promising(machine')
<1>1. \A v, b, jmp : ConditionalValue(v, b, jmp)' = ConditionalValue(v, b, jmp)
  BY DEF ConditionalValue, specialize_conditional, Jmps
<1>2. \A v, e : update_edge(v, e)' = update_edge(v, e)
  BY <1>1 DEF update_edge
<1>3. \A v, e : bw_update_edge(v, e)' = bw_update_edge(v, e)
  BY DEF bw_update_edge
<1>4. ForwardUnstable' = ForwardUnstable
  BY <1>2 DEF ForwardUnstable, ForwardUpdated
<1>5. BackwardUnstable' = BackwardUnstable
  BY <1>3 DEF BackwardUnstable, BackwardUpdated
<1>6. \A n, s : At(n, s)' = At(n, s) /\ BackwardAt(n, s)' = BackwardAt(n, s)
  BY DEF At, BackwardAt
<1>7. \A c, f : Suspended(c, f)' = Suspended(c, f)
  BY <1>6, SameProgram DEF Suspended
<1>8. Frames' = Frames
  BY SameProgram DEF Frames
<1>9. MachineFits(machine') => MachineFits(machine)'
  BY <1>6, <1>7, <1>8 DEF MachineFits, CalleeOf, Outermost, NodeOf, StateOf
<1>10. \A f : ReturnNodes(f)' = ReturnNodes(f)
  BY SameNodeKinds, SameProgram DEF ReturnNodes
<1>11. \A c : ReturnOf(c)' = ReturnOf(c)
  BY SameProgram DEF ReturnOf
<1>12. \A c, f : CanResume(c, f)' = CanResume(c, f)
  BY <1>6, <1>10, <1>11 DEF CanResume
<1>13. Promising(machine)' => Promising(machine')
  BY <1>6, <1>12 DEF Promising, CalleeOf, NodeOf, StateOf
<1>. QED BY <1>4, <1>5, <1>9, <1>13 DEF Solved

(* A step of the machine keeps the invariant if it stays in the values of  *)
(* the forward analysis, and the backward analysis follows it back.        *)
LEMMA MoveKeeps ==
  ASSUME Inv, phase \in {"solve", "run"}, phase' = "run", Solved, NEW m, machine' = m,
         visited' = visited \cup {<<NodeOf(m), StateOf(m)>>},
         program' = program, builder' = builder, forward' = forward, backward' = backward,
         MachineFits(m), Promising(m) => VisitedCovered
  PROVE  Inv'
<1>1. BuilderInv'
  BY BuilderInvStays DEF Inv
<1>2. ForwardTyped /\ EntryCovered /\ CallsCopied /\ ReturnsKept /\ BackwardTyped /\ GoalCovered
  BY DEF Inv, ForwardInv, BackwardInv
<1>3. ForwardInv' /\ BackwardInv'
  BY <1>2, ForwardStays, BackwardStays DEF ForwardInv, BackwardInv
<1>4. Solved' /\ MachineFits(machine)'
  BY MachineStays
<1>5. ASSUME Promising(machine)'
      PROVE  VisitedCovered'
  <2>1. Promising(m)
    BY <1>5, MachineStays
  <2>2. BackwardAt(NodeOf(m), StateOf(m)) /\ VisitedCovered
    BY <2>1 DEF Promising
  <2>3. \A v \in visited' : BackwardAt(v[1], v[2])
    BY <2>2 DEF VisitedCovered
  <2>. QED BY <2>3, BackwardStays DEF VisitedCovered
<1>. QED BY <1>1, <1>3, <1>4, <1>5 DEF Inv, RunInv

LEMMA RunFacts ==
  ASSUME Inv, phase = "run"
  PROVE  Complete /\ MachineFits(machine) /\ Solved /\ (Promising(machine) => VisitedCovered)
BY DEF Inv, BuilderInv, ForwardInv, BackwardInv, RunInv, Complete

LEMMA MachineFields ==
  ASSUME NEW f, NEW b, NEW at, NEW s \in States, NEW callers
  PROVE  LET m == Machine(f, b, at, s, callers) IN
           /\ m.sub = f /\ m.blk = b /\ m.at = at /\ m.callers = callers
           /\ StateOf(m) = s
           /\ at = "start" => NodeOf(m) = BlkStart(b, f)
           /\ at = "end" => NodeOf(m) = BlkEnd(b, f)
BY StateFields DEF Machine, StateOf, NodeOf

(* Where the machine is.                                                   *)
LEMMA MachineIsAt ==
  ASSUME Complete, MachineFits(machine)
  PROVE  /\ StateOf(machine) \in States /\ At(NodeOf(machine), StateOf(machine))
         /\ StateOf(machine).x = machine.x /\ StateOf(machine).l = machine.l
         /\ machine.blk \in Blks /\ machine.sub \in Subs
         /\ BlkStart(machine.blk, machine.sub) \in builder.nodes
         /\ BlkEnd(machine.blk, machine.sub) \in builder.nodes
         /\ machine.at = "start" => NodeOf(machine) = BlkStart(machine.blk, machine.sub)
         /\ machine.at = "end" => NodeOf(machine) = BlkEnd(machine.blk, machine.sub)
<1>1. At(NodeOf(machine), StateOf(machine))
  BY DEF MachineFits
<1>2. NodeOf(machine) \in builder.nodes
  BY <1>1 DEF At
<1>3. /\ machine.at = "start" => NodeOf(machine) = BlkStart(machine.blk, machine.sub)
      /\ machine.at = "end" => NodeOf(machine) = BlkEnd(machine.blk, machine.sub)
      /\ machine.at \in {"start", "end"}
  BY DEF NodeOf, MachineFits
<1>4. /\ machine.blk \in Blks /\ machine.sub \in Subs
      /\ IsStart(BlkStart(machine.blk, machine.sub)) /\ IsEnd(BlkEnd(machine.blk, machine.sub))
      /\ BlkStart(machine.blk, machine.sub) \in builder.nodes
      /\ BlkEnd(machine.blk, machine.sub) \in builder.nodes
  BY <1>2, <1>3, KnownBlock
<1>5. ~ IsReturn(NodeOf(machine))
  BY <1>3, <1>4, NodeKinds
<1>6. StateOf(machine) \in States
  BY <1>1, <1>5, AtPlain
<1>7. StateOf(machine).x = machine.x /\ StateOf(machine).l = machine.l
  BY DEF StateOf
<1>. QED BY <1>1, <1>3, <1>4, <1>6, <1>7

(* Steps within a function.                                                *)
LEMMA MoveInFunction ==
  ASSUME Complete, MachineFits(machine), Promising(machine) => VisitedCovered,
         NEW b, NEW at \in {"start", "end"}, NEW s \in States,
         NEW n, at = "start" => n = BlkStart(b, machine.sub), at = "end" => n = BlkEnd(b, machine.sub),
         At(n, s), BackwardAt(n, s) => BackwardAt(NodeOf(machine), StateOf(machine)),
         NEW m, m = Machine(machine.sub, b, at, s, machine.callers)
  PROVE  MachineFits(m) /\ (Promising(m) => VisitedCovered)
<1>1. /\ m.sub = machine.sub /\ m.at = at /\ m.callers = machine.callers
      /\ StateOf(m) = s /\ NodeOf(m) = n
  BY MachineFields
<1>2. \A i : CalleeOf(m, i) = CalleeOf(machine, i)
  BY <1>1 DEF CalleeOf
<1>3. Outermost(m) = Outermost(machine)
  BY <1>1 DEF Outermost
<1>4. MachineFits(m)
  BY <1>1, <1>2, <1>3 DEF MachineFits
<1>5. Promising(m) => Promising(machine)
  BY <1>1, <1>2 DEF Promising
<1>. QED BY <1>4, <1>5

LEMMA StartExecutionKeeps ==
  ASSUME Inv, StartExecution
  PROVE  Inv'
<1>1. phase = "solve" /\ phase' = "run" /\ Solved
  BY DEF StartExecution, Solved
<1>2. PICK s \in States : MoveTo(Machine(Entry.sub, Entry.blk, "start", s, <<>>))
  BY DEF StartExecution
<1>3. PICK m : m = Machine(Entry.sub, Entry.blk, "start", s, <<>>)
  OBVIOUS
<1>4. /\ machine' = m /\ visited' = visited \cup {<<NodeOf(m), StateOf(m)>>}
      /\ program' = program /\ builder' = builder /\ forward' = forward /\ backward' = backward
  BY <1>2, <1>3 DEF MoveTo
<1>5. program \in Programs /\ GraphInv(builder) /\ EntryCovered
  BY <1>1 DEF Inv, BuilderInv, ForwardInv
<1>6. /\ m.sub = Entry.sub /\ m.at = "start" /\ m.callers = <<>>
      /\ StateOf(m) = s /\ NodeOf(m) = BlkStart(Entry.blk, Entry.sub)
  BY <1>3, MachineFields
<1>7. Entry = BlkStart(Entry.blk, Entry.sub)
  BY <1>5, EntryIsNode DEF IsStart
<1>8. Entry.sub = program.entry
  BY <1>5, ProgramFacts, NodeFields DEF Entry
<1>9. MachineFits(m)
  BY <1>5, <1>6, <1>7, <1>8 DEF MachineFits, Outermost, EntryCovered
<1>10. Promising(m) => VisitedCovered
  BY <1>1 DEF Inv, RunInv, VisitedCovered
<1>. QED BY <1>1, <1>4, <1>9, <1>10, MoveKeeps

LEMMA ExecuteDefsKeeps ==
  ASSUME Inv, ExecuteDefs
  PROVE  Inv'
<1>. DEFINE t == program.blks[machine.blk].def[StateOf(machine)]
<1>1. phase = "run" /\ phase' = "run" /\ machine.at = "start"
  BY DEF ExecuteDefs
<1>2. PICK m : m = Machine(machine.sub, machine.blk, "end", t, machine.callers)
  OBVIOUS
<1>3. /\ machine' = m /\ visited' = visited \cup {<<NodeOf(m), StateOf(m)>>}
      /\ program' = program /\ builder' = builder /\ forward' = forward /\ backward' = backward
  BY <1>2 DEF ExecuteDefs, MoveTo
<1>4. Complete /\ MachineFits(machine) /\ Solved /\ (Promising(machine) => VisitedCovered)
  BY <1>1, RunFacts
<1>5. /\ StateOf(machine) \in States /\ machine.blk \in Blks
      /\ BlkStart(machine.blk, machine.sub) \in builder.nodes
      /\ NodeOf(machine) = BlkStart(machine.blk, machine.sub)
      /\ At(BlkStart(machine.blk, machine.sub), StateOf(machine))
  BY <1>1, <1>4, MachineIsAt
<1>6. t \in States
  <2>1. program.blks[machine.blk].def \in [States -> States]
    BY <1>4, <1>5, ProgramFacts DEF Complete
  <2>. QED BY <1>5, <2>1
<1>. HIDE DEF t
<1>7. /\ At(BlkEnd(machine.blk, machine.sub), t)
      /\ BackwardAt(BlkEnd(machine.blk, machine.sub), t) => BackwardAt(NodeOf(machine), StateOf(machine))
  BY <1>4, <1>5, DefsFlow DEF t
<1>8. MachineFits(m) /\ (Promising(m) => VisitedCovered)
  BY <1>2, <1>4, <1>6, <1>7, MoveInFunction
<1>. QED BY <1>1, <1>3, <1>4, <1>8, MoveKeeps

(* A jump that is taken to a block of the function.                        *)
LEMMA ContinueKeeps ==
  ASSUME Inv, phase = "run", phase' = "run", NEW b, NEW s \in States, ContinueAt(b, s),
         At(BlkStart(b, machine.sub), s),
         BackwardAt(BlkStart(b, machine.sub), s) => BackwardAt(NodeOf(machine), StateOf(machine))
  PROVE  Inv'
<1>1. PICK m : m = Machine(machine.sub, b, "start", s, machine.callers)
  OBVIOUS
<1>2. /\ machine' = m /\ visited' = visited \cup {<<NodeOf(m), StateOf(m)>>}
      /\ program' = program /\ builder' = builder /\ forward' = forward /\ backward' = backward
  BY <1>1 DEF ContinueAt, MoveTo
<1>3. Complete /\ MachineFits(machine) /\ Solved /\ (Promising(machine) => VisitedCovered)
  BY RunFacts
<1>4. MachineFits(m) /\ (Promising(m) => VisitedCovered)
  BY <1>1, <1>3, MoveInFunction
<1>. QED BY <1>2, <1>3, <1>4, MoveKeeps

LEMMA ExecuteBranchKeeps ==
  ASSUME Inv, NEW jmp, ExecuteBranch(jmp)
  PROVE  Inv'
<1>1. /\ phase = "run" /\ phase' = "run" /\ machine.at = "end"
      /\ jmp \in DOMAIN Jmps(machine.blk)
      /\ Jmps(machine.blk)[jmp].kind = "CBranch" => machine.x # 0
      /\ jmp > 1 => machine.x = 0
      /\ Jmps(machine.blk)[jmp].kind \in {"Branch", "CBranch", "BranchInd"}
  BY DEF ExecuteBranch, IsTaken
<1>2. PICK t \in NextBlocks(machine.blk, jmp) : ContinueAt(t, StateOf(machine))
  BY DEF ExecuteBranch
<1>3. Complete /\ MachineFits(machine)
  BY <1>1, RunFacts
<1>4. /\ StateOf(machine) \in States /\ StateOf(machine).x = machine.x
      /\ BlkEnd(machine.blk, machine.sub) \in builder.nodes
      /\ NodeOf(machine) = BlkEnd(machine.blk, machine.sub)
      /\ At(BlkEnd(machine.blk, machine.sub), StateOf(machine))
  BY <1>1, <1>3, MachineIsAt
<1>5. /\ At(BlkStart(t, machine.sub), StateOf(machine))
      /\ BackwardAt(BlkStart(t, machine.sub), StateOf(machine)) =>
           BackwardAt(NodeOf(machine), StateOf(machine))
  BY <1>1, <1>3, <1>4, JumpFlow
<1>. QED BY <1>1, <1>2, <1>4, <1>5, ContinueKeeps

LEMMA ExecuteExternCallKeeps ==
  ASSUME Inv, NEW jmp, ExecuteExternCall(jmp)
  PROVE  Inv'
<1>1. /\ phase = "run" /\ phase' = "run" /\ machine.at = "end"
      /\ jmp \in DOMAIN Jmps(machine.blk)
      /\ IsExternCall(Jmps(machine.blk)[jmp])
  BY DEF ExecuteExternCall, IsTaken
<1>2. PICK t \in NextBlocks(machine.blk, jmp), i \in Words :
        ContinueAt(t, [StateOf(machine) EXCEPT !.x = i])
  BY DEF ExecuteExternCall
<1>3. Complete /\ MachineFits(machine)
  BY <1>1, RunFacts
<1>4. /\ StateOf(machine) \in States
      /\ BlkEnd(machine.blk, machine.sub) \in builder.nodes
      /\ NodeOf(machine) = BlkEnd(machine.blk, machine.sub)
      /\ At(BlkEnd(machine.blk, machine.sub), StateOf(machine))
  BY <1>1, <1>3, MachineIsAt
<1>. DEFINE r == [StateOf(machine) EXCEPT !.x = i]
<1>5. r \in States
  BY <1>4, StateFields
<1>6. /\ At(BlkStart(t, machine.sub), r)
      /\ BackwardAt(BlkStart(t, machine.sub), r) => BackwardAt(NodeOf(machine), StateOf(machine))
  BY <1>1, <1>3, <1>4, ExternCallFlow
<1>. QED BY <1>1, <1>2, <1>5, <1>6, ContinueKeeps

(* A block has one call at most.                                           *)
LEMMA CallJmpIs ==
  ASSUME Complete, NEW b \in Blks, NEW jmp \in DOMAIN Jmps(b), Jmps(b)[jmp].kind = "Call"
  PROVE  CallJmp(b) = jmp
<1>1. ASSUME NEW k \in DOMAIN Jmps(b), Jmps(b)[k].kind = "Call"
      PROVE  k = jmp
  <2>1. /\ DOMAIN Jmps(b) \subseteq {1, 2}
        /\ 2 \in DOMAIN Jmps(b) => Jmps(b)[1].kind = "CBranch"
    BY ProgramFacts DEF Complete
  <2>. QED BY <1>1, <2>1
<1>. QED BY <1>1 DEF CallJmp

LEMMA PushFacts ==
  ASSUME NEW S, NEW s \in Seq(S), NEW c \in S
  PROVE  LET p == <<c>> \o s IN
           /\ p \in Seq(S) /\ Len(p) = Len(s) + 1 /\ p # <<>>
           /\ p[1] = c
           /\ \A i \in 2 .. Len(p) : i - 1 \in 1 .. Len(s) /\ p[i] = s[i - 1]
<1>1. <<c>> \in Seq(S) /\ Len(<<c>>) = 1 /\ <<c>>[1] = c
  OBVIOUS
<1>2. Len(s) \in Nat
  OBVIOUS
<1>. QED BY <1>1, <1>2

LEMMA ExecuteCallKeeps ==
  ASSUME Inv, NEW jmp, ExecuteCall(jmp)
  PROVE  Inv'
<1>. DEFINE j == Jmps(machine.blk)[jmp]
            target == call_targets[j.target]
            s == StateOf(machine)
<1>1. /\ phase = "run" /\ phase' = "run" /\ machine.at = "end"
      /\ jmp \in DOMAIN Jmps(machine.blk) /\ IsInternalCall(j)
  BY DEF ExecuteCall, IsTaken
<1>2. PICK caller : caller = [sub |-> machine.sub, blk |-> machine.blk, l |-> machine.l]
  OBVIOUS
<1>3. PICK m : m = Machine(target.sub, target.blk, "start", InCallee(s), <<caller>> \o machine.callers)
  OBVIOUS
<1>4. /\ machine' = m /\ visited' = visited \cup {<<NodeOf(m), StateOf(m)>>}
      /\ program' = program /\ builder' = builder /\ forward' = forward /\ backward' = backward
  BY <1>2, <1>3 DEF ExecuteCall, MoveTo
<1>5. Complete /\ MachineFits(machine) /\ Solved /\ (Promising(machine) => VisitedCovered)
  BY <1>1, RunFacts
<1>6. /\ s \in States /\ s.l = machine.l /\ machine.blk \in Blks /\ machine.sub \in Subs
      /\ BlkEnd(machine.blk, machine.sub) \in builder.nodes
      /\ NodeOf(machine) = BlkEnd(machine.blk, machine.sub)
      /\ At(BlkEnd(machine.blk, machine.sub), s)
  BY <1>1, <1>5, MachineIsAt
<1>7. caller \in Frames /\ caller.sub = machine.sub /\ caller.blk = machine.blk /\ caller.l = s.l
  BY <1>2, <1>6, StateFields DEF Frames
<1>8. CallJmp(caller.blk) = jmp
  BY <1>1, <1>5, <1>6, <1>7, CallJmpIs DEF IsInternalCall
<1>9. IsStart(target) /\ target.sub = j.target
  BY <1>1, <1>5, <1>6, CallEdges
<1>10. At(CallNode(BlkEnd(machine.blk, machine.sub), j), s) /\ At(target, InCallee(s))
  BY <1>1, <1>5, <1>6, CallFlow
<1>11. InCallee(s) \in States
  BY <1>6, StateFields
<1>12. /\ m.sub = j.target /\ m.at = "start" /\ m.callers = <<caller>> \o machine.callers
       /\ StateOf(m) = InCallee(s) /\ NodeOf(m) = target
  <2>1. target = BlkStart(target.blk, target.sub)
    BY <1>9 DEF IsStart
  <2>. DEFINE callers == <<caller>> \o machine.callers
              t == InCallee(s)
  <2>2. m = Machine(target.sub, target.blk, "start", t, callers)
    BY <1>3
  <2>. HIDE DEF target, s, j, callers, t
  <2>3. /\ m.sub = target.sub /\ m.at = "start" /\ m.callers = callers
        /\ StateOf(m) = t /\ NodeOf(m) = BlkStart(target.blk, target.sub)
    BY <1>11, <2>2, MachineFields DEF t
  <2>. QED BY <1>9, <2>1, <2>3 DEF callers, t
<1>. HIDE DEF target, s, j
<1>13. machine.callers \in Seq(Frames) /\ Len(machine.callers) \in Nat
  BY <1>5 DEF MachineFits
<1>14. /\ m.callers \in Seq(Frames) /\ Len(m.callers) = Len(machine.callers) + 1
       /\ m.callers # <<>> /\ m.callers[1] = caller
       /\ \A i \in 2 .. Len(m.callers) :
            i - 1 \in 1 .. Len(machine.callers) /\ m.callers[i] = machine.callers[i - 1]
  BY <1>7, <1>12, <1>13, PushFacts
<1>15. CalleeOf(m, 1) = j.target
  BY <1>12 DEF CalleeOf
<1>16. \A i \in 2 .. Len(m.callers) : CalleeOf(m, i) = CalleeOf(machine, i - 1)
  <2>. SUFFICES ASSUME NEW i \in 2 .. Len(m.callers)
                PROVE  m.callers[i - 1].sub = CalleeOf(machine, i - 1)
    BY DEF CalleeOf
  <2>1. CASE i = 2
    BY <1>7, <1>14, <2>1 DEF CalleeOf
  <2>2. CASE i # 2
    <3>1. i - 1 \in 2 .. Len(m.callers)
      BY <1>13, <1>14, <2>2
    <3>. QED BY <1>14, <2>2, <3>1 DEF CalleeOf
  <2>. QED BY <2>1, <2>2
<1>17. Suspended(caller, j.target)
  <2>1. jmp \in DOMAIN Jmps(caller.blk) /\ j = Jmps(caller.blk)[jmp]
    BY <1>1, <1>7 DEF j
  <2>. QED BY <1>1, <1>6, <1>7, <1>8, <1>10, <2>1 DEF Suspended
<1>18. \A i \in 1 .. Len(m.callers) : Suspended(m.callers[i], CalleeOf(m, i))
  <2>. SUFFICES ASSUME NEW i \in 1 .. Len(m.callers)
                PROVE  Suspended(m.callers[i], CalleeOf(m, i))
    OBVIOUS
  <2>1. CASE i = 1
    BY <1>14, <1>15, <1>17, <2>1
  <2>2. CASE i # 1
    <3>1. i \in 2 .. Len(m.callers)
      BY <1>13, <1>14, <2>2
    <3>. QED BY <1>5, <1>14, <1>16, <3>1 DEF MachineFits
  <2>. QED BY <2>1, <2>2
<1>19. Outermost(m) = program.entry
  <2>1. Outermost(m) = m.callers[Len(m.callers)].sub
    BY <1>14 DEF Outermost
  <2>2. CASE machine.callers = <<>>
    <3>1. Len(m.callers) = 1 /\ Outermost(machine) = machine.sub
      BY <1>14, <2>2 DEF Outermost
    <3>. QED BY <1>5, <1>7, <1>14, <2>1, <3>1 DEF MachineFits
  <2>3. CASE machine.callers # <<>>
    <3>1. Len(machine.callers) > 0
      BY <1>13, <2>3, EmptySeq
    <3>2. Len(m.callers) \in 2 .. Len(m.callers) /\ Len(m.callers) - 1 = Len(machine.callers)
      BY <1>13, <1>14, <3>1
    <3>3. Outermost(machine) = machine.callers[Len(machine.callers)].sub
      BY <2>3 DEF Outermost
    <3>. QED BY <1>5, <1>14, <2>1, <3>2, <3>3 DEF MachineFits
  <2>. QED BY <2>2, <2>3
<1>20. MachineFits(m)
  BY <1>10, <1>12, <1>14, <1>18, <1>19 DEF MachineFits
<1>21. ASSUME Promising(m)
       PROVE  Promising(machine)
  <2>1. BackwardAt(target, InCallee(s))
    BY <1>12, <1>21 DEF Promising
  <2>2. \A i \in 1 .. Len(m.callers) : CanResume(m.callers[i], CalleeOf(m, i))
    BY <1>21 DEF Promising
  <2>3. CanResume(caller, j.target)
    <3>1. 1 \in 1 .. Len(m.callers)
      BY <1>13, <1>14
    <3>. QED BY <1>14, <1>15, <2>2, <3>1
  <2>4. ReturnOf(caller) = j.return
    BY <1>7, <1>8 DEF ReturnOf, j
  <2>5. PICK q \in States : q.l = caller.l /\ BackwardAt(BlkStart(j.return, machine.sub), q)
    BY <1>7, <2>3, <2>4 DEF CanResume
  <2>6. BackwardAt(BlkEnd(machine.blk, machine.sub), s)
    <3>1. j.return # None /\ ReturnNodes(j.target) # {}
      BY <2>3, <2>4 DEF CanResume
    <3>. QED BY <1>1, <1>5, <1>6, <1>7, <2>1, <2>5, <3>1, BackwardCall DEF j, target
  <2>7. ASSUME NEW i \in 1 .. Len(machine.callers)
        PROVE  CanResume(machine.callers[i], CalleeOf(machine, i))
    <3>1. i + 1 \in 2 .. Len(m.callers) /\ (i + 1) - 1 = i /\ i + 1 \in 1 .. Len(m.callers)
      BY <1>13, <1>14
    <3>. QED BY <1>14, <1>16, <2>2, <3>1
  <2>. QED BY <1>6, <2>6, <2>7 DEF Promising, s
<1>. QED BY <1>1, <1>4, <1>5, <1>20, <1>21, MoveKeeps

LEMMA ExecuteReturnKeeps ==
  ASSUME Inv, NEW jmp, ExecuteReturn(jmp)
  PROVE  Inv'
<1>. DEFINE s == StateOf(machine)
<1>1. /\ phase = "run" /\ phase' = "run" /\ machine.at = "end"
      /\ jmp \in DOMAIN Jmps(machine.blk) /\ Jmps(machine.blk)[jmp].kind = "Return"
      /\ machine.callers # <<>>
  BY DEF ExecuteReturn, IsTaken
<1>2. PICK caller : caller = Head(machine.callers)
  OBVIOUS
<1>3. PICK m : m = Machine(caller.sub, ReturnOf(caller), "start", AfterReturn(s, caller),
                           Tail(machine.callers))
  OBVIOUS
<1>4. /\ machine' = m /\ visited' = visited \cup {<<NodeOf(m), StateOf(m)>>}
      /\ program' = program /\ builder' = builder /\ forward' = forward /\ backward' = backward
      /\ ReturnOf(caller) # None
  BY <1>2, <1>3 DEF ExecuteReturn, MoveTo
<1>5. Complete /\ MachineFits(machine) /\ Solved /\ (Promising(machine) => VisitedCovered)
  BY <1>1, RunFacts
<1>6. /\ s \in States /\ machine.blk \in Blks /\ machine.sub \in Subs
      /\ BlkEnd(machine.blk, machine.sub) \in builder.nodes
      /\ NodeOf(machine) = BlkEnd(machine.blk, machine.sub)
      /\ At(BlkEnd(machine.blk, machine.sub), s)
  BY <1>1, <1>5, MachineIsAt
<1>7. machine.callers \in Seq(Frames)
  BY <1>5 DEF MachineFits
<1>8. /\ Len(machine.callers) \in Nat \ {0}
      /\ caller = machine.callers[1] /\ caller \in Frames
      /\ Tail(machine.callers) \in Seq(Frames)
      /\ Len(Tail(machine.callers)) = Len(machine.callers) - 1
      /\ \A i \in 1 .. Len(Tail(machine.callers)) : Tail(machine.callers)[i] = machine.callers[i + 1]
  BY <1>1, <1>2, <1>7, EmptySeq, HeadTailProperties, ElementOfSeq
<1>. DEFINE n == BlkEnd(machine.blk, machine.sub)
            k == CallJmp(caller.blk)
            j == Jmps(caller.blk)[k]
            c == CallNode(BlkEnd(caller.blk, caller.sub), j)
            to == BlkStart(j.return, caller.sub)
<1>9. Suspended(caller, machine.sub)
  <2>1. 1 \in 1 .. Len(machine.callers) /\ CalleeOf(machine, 1) = machine.sub
    BY <1>8 DEF CalleeOf
  <2>. QED BY <1>5, <1>8, <2>1 DEF MachineFits
<1>10. /\ BlkEnd(caller.blk, caller.sub) \in builder.nodes
       /\ k \in DOMAIN Jmps(caller.blk) /\ IsInternalCall(j) /\ j.target = machine.sub
  BY <1>9 DEF Suspended
<1>11. PICK before \in States : before.l = caller.l /\ At(c, before)
  BY <1>9 DEF Suspended
<1>12. ReturnOf(caller) = j.return
  BY DEF ReturnOf
<1>13. n \in ReturnNodes(machine.sub)
  <2>1. IsEnd(n) /\ n \in builder.nodes
    BY <1>5, <1>6, KnownBlock
  <2>2. n.sub = machine.sub /\ n.blk = machine.blk
    BY NodeFields
  <2>3. HasReturn(machine.blk)
    BY <1>1 DEF HasReturn
  <2>. QED BY <2>1, <2>2, <2>3 DEF ReturnNodes
<1>. HIDE DEF k, j, c, to, n, s
<1>14. <<c, to>> \in builder.return_addresses[machine.sub]
  <2>1. j.return # None
    BY <1>4, <1>12
  <2>. QED BY <1>5, <1>10, <2>1, CallEdges DEF c, to, j
<1>. DEFINE r == AfterReturn(s, caller)
<1>15. r = AfterReturn(s, before) /\ r \in States /\ r.x = s.x /\ r.l = caller.l
  BY <1>6, <1>11, StateFields DEF AfterReturn
<1>. HIDE DEF r
<1>16. At(to, r)
  <2>1. At(n, s)
    BY <1>6 DEF n
  <2>2. At(to, AfterReturn(s, before))
    BY <1>5, <1>11, <1>13, <1>14, <2>1, ReturnFlow
  <2>. QED BY <1>15, <2>2
<1>17. /\ m.sub = caller.sub /\ m.at = "start" /\ m.callers = Tail(machine.callers)
       /\ StateOf(m) = r /\ NodeOf(m) = to
  <2>1. m = Machine(caller.sub, j.return, "start", r, Tail(machine.callers))
    BY <1>3, <1>12 DEF r
  <2>. QED BY <1>15, <2>1, MachineFields DEF to
<1>18. \A i \in 1 .. Len(m.callers) :
         /\ i + 1 \in 1 .. Len(machine.callers)
         /\ m.callers[i] = machine.callers[i + 1] /\ CalleeOf(m, i) = CalleeOf(machine, i + 1)
  <2>. SUFFICES ASSUME NEW i \in 1 .. Len(m.callers)
                PROVE  /\ i + 1 \in 1 .. Len(machine.callers)
                       /\ m.callers[i] = machine.callers[i + 1]
                       /\ CalleeOf(m, i) = CalleeOf(machine, i + 1)
    OBVIOUS
  <2>1. /\ i \in Nat /\ i >= 1 /\ i + 1 \in 1 .. Len(machine.callers)
        /\ m.callers[i] = machine.callers[i + 1]
    BY <1>8, <1>17
  <2>2. CalleeOf(machine, i + 1) = machine.callers[i].sub
    BY <2>1 DEF CalleeOf
  <2>3. CASE i = 1
    BY <1>8, <1>17, <2>1, <2>2, <2>3 DEF CalleeOf
  <2>4. CASE i # 1
    <3>1. i - 1 \in 1 .. Len(Tail(machine.callers)) /\ (i - 1) + 1 = i
      BY <1>17, <2>1, <2>4
    <3>2. m.callers[i - 1] = machine.callers[i]
      BY <1>8, <1>17, <3>1
    <3>. QED BY <2>1, <2>2, <2>4, <3>2 DEF CalleeOf
  <2>. QED BY <2>1, <2>3, <2>4
<1>19. Outermost(m) = program.entry
  <2>1. Outermost(machine) = machine.callers[Len(machine.callers)].sub
    BY <1>1 DEF Outermost
  <2>2. CASE Tail(machine.callers) = <<>>
    <3>1. Len(Tail(machine.callers)) = 0
      BY <1>8, <2>2, EmptySeq
    <3>2. Len(machine.callers) = 1
      BY <1>8, <3>1
    <3>. QED BY <1>5, <1>8, <1>17, <2>1, <2>2, <3>2 DEF MachineFits, Outermost
  <2>3. CASE Tail(machine.callers) # <<>>
    <3>1. Len(Tail(machine.callers)) \in Nat /\ Len(Tail(machine.callers)) > 0
      BY <1>8, <2>3, EmptySeq
    <3>2. m.callers[Len(m.callers)] = machine.callers[Len(machine.callers)]
      BY <1>8, <1>17, <3>1
    <3>. QED BY <1>5, <1>17, <2>1, <2>3, <3>2 DEF MachineFits, Outermost
  <2>. QED BY <2>2, <2>3
<1>20. MachineFits(m)
  BY <1>5, <1>8, <1>16, <1>17, <1>18, <1>19 DEF MachineFits
<1>21. ASSUME Promising(m)
       PROVE  Promising(machine)
  <2>1. BackwardAt(to, r)
    BY <1>17, <1>21 DEF Promising
  <2>2. BackwardAt(n, s)
    BY <1>5, <1>6, <1>13, <1>14, <1>15, <2>1, BackwardReturn
  <2>3. CanResume(caller, machine.sub)
    BY <1>4, <1>12, <1>13, <1>15, <2>1 DEF CanResume, to
  <2>4. ASSUME NEW i \in 1 .. Len(machine.callers)
        PROVE  CanResume(machine.callers[i], CalleeOf(machine, i))
    <3>1. CASE i = 1
      BY <1>8, <2>3, <3>1 DEF CalleeOf
    <3>2. CASE i # 1
      <4>1. i - 1 \in 1 .. Len(m.callers) /\ (i - 1) + 1 = i
        BY <1>8, <1>17, <3>2
      <4>. QED BY <1>18, <1>21, <4>1 DEF Promising
    <3>. QED BY <3>1, <3>2
  <2>. QED BY <1>6, <2>2, <2>4 DEF Promising, n, s
<1>. QED BY <1>1, <1>4, <1>5, <1>20, <1>21, MoveKeeps

LEMMA ExitKeeps ==
  ASSUME Inv, NEW jmp, Exit(jmp)
  PROVE  Inv'
<1>1. /\ phase = "run" /\ phase' = "exited" /\ machine.at = "end" /\ machine.callers = <<>>
      /\ jmp \in DOMAIN Jmps(machine.blk) /\ Jmps(machine.blk)[jmp].kind = "Return"
      /\ machine' = machine /\ visited' = visited
      /\ program' = program /\ builder' = builder /\ forward' = forward /\ backward' = backward
  BY DEF Exit, IsTaken
<1>2. Complete /\ MachineFits(machine) /\ Solved /\ (Promising(machine) => VisitedCovered)
  BY <1>1, RunFacts
<1>3. BuilderInv'
  BY <1>1, BuilderInvStays DEF Inv
<1>4. ForwardTyped /\ EntryCovered /\ CallsCopied /\ ReturnsKept /\ BackwardTyped /\ GoalCovered
  BY <1>1 DEF Inv, ForwardInv, BackwardInv
<1>5. ForwardInv' /\ BackwardInv'
  BY <1>1, <1>4, ForwardStays, BackwardStays DEF ForwardInv, BackwardInv
<1>6. Solved' /\ MachineFits(machine)' /\ (Promising(machine)' => Promising(machine))
  BY <1>1, <1>2, MachineStays
<1>7. VisitedCovered => VisitedCovered'
  BY <1>1, BackwardStays DEF VisitedCovered
<1>8. HasReturn(machine.blk)'
  <2>1. HasReturn(machine.blk)
    BY <1>1 DEF HasReturn
  <2>. QED BY <1>1, <2>1 DEF HasReturn, Jmps
<1>. QED BY <1>1, <1>2, <1>3, <1>5, <1>6, <1>7, <1>8 DEF Inv, RunInv

LEMMA StutterKeeps ==
  ASSUME Inv, UNCHANGED vars
  PROVE  Inv'
<1>1. /\ program' = program /\ builder' = builder /\ phase' = phase /\ forward' = forward
      /\ backward' = backward /\ machine' = machine /\ visited' = visited
  BY DEF vars
<1>2. BuilderInv'
  <2>1. GraphInv(builder)'
    BY <1>1, GraphStays DEF Inv, BuilderInv
  <2>2. Connected(builder) => Connected(builder)'
    BY <1>1, GraphStays
  <2>. QED BY <1>1, <2>1, <2>2 DEF Inv, BuilderInv
<1>3. ForwardInv' /\ BackwardInv'
  BY <1>1, ForwardStays, BackwardStays DEF Inv, ForwardInv, BackwardInv
<1>4. /\ Solved => Solved'
      /\ MachineFits(machine) => MachineFits(machine)'
      /\ Promising(machine)' => Promising(machine)
  BY <1>1, MachineStays
<1>5. VisitedCovered => VisitedCovered'
  BY <1>1, BackwardStays DEF VisitedCovered
<1>6. HasReturn(machine.blk)' = HasReturn(machine.blk)
  BY <1>1 DEF HasReturn, Jmps
<1>7. RunInv'
  BY <1>1, <1>4, <1>5, <1>6 DEF Inv, RunInv
<1>. QED BY <1>2, <1>3, <1>7 DEF Inv

(* The invariant of the graph construction, the two analyses and the       *)
(* execution holds for all programs.                                       *)
THEOREM Invariance == Spec => []Inv
<1>1. Init => Inv
  BY InitEstablishes
<1>2. Inv /\ [Next]_vars => Inv'
  <2>. SUFFICES ASSUME Inv, [Next]_vars
                PROVE  Inv'
    OBVIOUS
  <2>1. CASE UNCHANGED vars
    BY <2>1, StutterKeeps
  <2>2. CASE Next
    <3>1. ASSUME NEW jmp \in 1 .. 2,
                 ExecuteBranch(jmp) \/ ExecuteExternCall(jmp) \/ ExecuteCall(jmp)
                   \/ ExecuteReturn(jmp) \/ Exit(jmp)
          PROVE  Inv'
      BY <3>1, ExecuteBranchKeeps, ExecuteExternCallKeeps, ExecuteCallKeeps,
         ExecuteReturnKeeps, ExitKeeps
    <3>. QED BY <2>2, <3>1, PopBlockKeeps, StartAnalysesKeeps, SolveForwardKeeps,
                SolveBackwardKeeps, StartExecutionKeeps, ExecuteDefsKeeps DEF Next
  <2>. QED BY <2>1, <2>2
<1>. QED BY <1>1, <1>2, PTL DEF Spec

(* The forward analysis misses no execution: the nodes and edges that      *)
(* graph.rs builds and the edge functions of the forward context cover     *)
(* every step of every program, calls, returns and recursion included.     *)
THEOREM ForwardCorrect == Spec => []ForwardCoversExecution
<1>1. Inv => ForwardCoversExecution
  BY DEF Inv, RunInv, MachineFits, At, ForwardCoversExecution
<1>. QED BY <1>1, Invariance, PTL

(* The backward analysis misses no execution that reaches the goal: every  *)
(* state on the way is in the value of its node, in callees too.           *)
THEOREM BackwardCorrect == Spec => []BackwardCoversExecution
<1>1. ASSUME Inv, phase = "exited", StateOf(machine) \in Goal
      PROVE  VisitedCovered
  <2>1. /\ MachineFits(machine) /\ (Promising(machine) => VisitedCovered)
        /\ machine.callers = <<>> /\ machine.at = "end" /\ HasReturn(machine.blk)
        /\ GoalCovered
    BY <1>1 DEF Inv, RunInv, BackwardInv
  <2>2. Complete
    BY <1>1 DEF Inv, BuilderInv, ForwardInv, BackwardInv, RunInv, Complete
  <2>. DEFINE n == BlkEnd(machine.blk, machine.sub)
  <2>3. NodeOf(machine) = n /\ n \in builder.nodes
    BY <2>1, <2>2, MachineIsAt
  <2>4. machine.sub = program.entry
    BY <2>1 DEF MachineFits, Outermost
  <2>5. IsEnd(n) /\ n.blk = machine.blk /\ n.sub = machine.sub
    BY <2>2, <2>3, KnownBlock, NodeFields
  <2>6. n \in ReturnNodes(program.entry)
    BY <2>1, <2>3, <2>4, <2>5 DEF ReturnNodes
  <2>7. BackwardAt(NodeOf(machine), StateOf(machine))
    BY <1>1, <2>1, <2>3, <2>6 DEF GoalCovered
  <2>8. Promising(machine)
    BY <2>1, <2>7 DEF Promising
  <2>. QED BY <2>1, <2>8
<1>2. Inv => BackwardCoversExecution
  BY <1>1 DEF BackwardCoversExecution, VisitedCovered, BackwardAt
<1>. QED BY <1>2, Invariance, PTL

(* The CallReturn nodes keep callers apart: the local state after a return *)
(* is one the same caller had at the call.                                 *)
THEOREM CallersKeptApart == Spec => []ReturnKeepsCallerState
<1>1. ASSUME Inv, phase = "run", NEW e \in builder.edges,
             e.kind = "ReturnCombine", e.to # Entry, forward[e.to] # None,
             \A d \in builder.edges :
               d.to = e.to => d.kind = "ReturnCombine" /\ d.from.call = e.from.call,
             NEW s \in forward[e.to].value
      PROVE  \E c \in forward[e.from.call].value : c.l = s.l
  <2>1. Complete /\ ReturnsKept
    BY <1>1, RunFacts DEF Inv, ForwardInv
  <2>2. IsStart(e.to) /\ e.to \in builder.nodes
    BY <1>1, <2>1 DEF Complete, GraphInv, GraphFits, EdgesFit, EdgeFits
  <2>3. At(e.to, s) /\ s \in States
    BY <1>1, <2>1, <2>2, AtPlain, NodeKinds DEF At
  <2>4. PICK c \in States : At(e.from.call, c) /\ c.l = s.l
    BY <1>1, <2>1, <2>3 DEF ReturnsKept, OnlyReturnsTo
  <2>. QED BY <2>4 DEF At
<1>2. Inv => ReturnKeepsCallerState
  BY <1>1 DEF ReturnKeepsCallerState
<1>. QED BY <1>2, Invariance, PTL
=============================================================================
