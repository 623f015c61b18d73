-------------------------- MODULE MCInterprocedural --------------------------
(***************************************************************************)
(* Programs for Interprocedural: a function f with three blocks that calls *)
(* g, which may call itself, f or an external function, and shares blocks  *)
(* with f.                                                                 *)
(***************************************************************************)
EXTENDS Interprocedural

Jmp(kind, target, return) == [kind |-> kind, target |-> target, return |-> return]
Blk(def, jmps, ind) == [def |-> def, jmps |-> jmps, ind |-> ind]

Branch(t) == Jmp("Branch", t, None)
CBranch(t) == Jmp("CBranch", t, None)
Call(f, return) == Jmp("Call", f, return)
Return == Jmp("Return", None, None)

\* The effects of blocks.
Nop == [s \in States |-> s]
SetX(i) == [s \in States |-> [s EXCEPT !.x = i]]
XtoL == [s \in States |-> [s EXCEPT !.l = s.x]]
LtoX == [s \in States |-> [s EXCEPT !.x = s.l]]

F1 == {<<Call("g", "f2")>>, <<CBranch("f2"), Branch("f3")>>, <<Call("x", "f2")>>}
F2 == {<<Call("g", "f3")>>, <<Call("g", "f1")>>, <<Branch("g2")>>, <<Jmp("BranchInd", None, None)>>,
       <<Jmp("CallInd", None, "g2")>>}
G1 == {<<CBranch("g2"), Branch("f3")>>, <<Call("g", "g2")>>, <<Call("f", "g2")>>,
       <<Call("x", None)>>, <<Jmp("CallOther", None, "g2")>>}
G2 == {<<Return>>, <<CBranch("g1"), Branch("f3")>>, <<Call("e", "f3")>>}

ProgramWith(a, b, c, d, da, dc) ==
  [subs |-> [f |-> <<"f1", "f2", "f3">>, g |-> <<"g1", "g2">>, e |-> <<>>],
   blks |-> [f1 |-> Blk(da, a, {}), f2 |-> Blk(LtoX, b, {"f3", "g1"}),
             f3 |-> Blk(Nop, <<Return>>, {}),
             g1 |-> Blk(dc, c, {}), g2 |-> Blk(XtoL, d, {})],
   extern_symbols |-> {"x"},
   entry |-> "f"]

MCPrograms ==
  {ProgramWith(a, b, c, d, da, dc) :
     a \in F1, b \in F2, c \in G1, d \in G2, da \in {XtoL, Nop}, dc \in {SetX(0), SetX(1)}}
=============================================================================
