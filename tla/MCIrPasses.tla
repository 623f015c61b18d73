----------------------------- MODULE MCIrPasses -----------------------------
(***************************************************************************)
(* Programs for IrPasses: a function f with two blocks, functions g and h  *)
(* with one, a function e without code and the stub s of an external       *)
(* function x.  The ends of the blocks of f, g and h vary over jumps and   *)
(* calls to all of them and to the missing block or function m.            *)
(***************************************************************************)
EXTENDS IrPasses

End(jmps, ind) == [jmps |-> jmps, ind |-> ind]
Jmp(kind, target, return) == [kind |-> kind, target |-> target, return |-> return]

Return == Jmp("Return", None, None)
Goto(t) == End(<<Branch(t)>>, NoTargets)
GotoIf(t, u) == End(<<Jmp("CBranch", t, None), Branch(u)>>, NoTargets)
GotoInd(targets) == End(<<Jmp("BranchInd", None, None)>>, [kind |-> "Jump", targets |-> targets])
Calling(g, return) == End(<<Call(g, return)>>, NoTargets)
CallingInd(targets, return) ==
  End(<<Jmp("CallInd", None, return)>>, [kind |-> "Call", targets |-> targets])
CallingOther(return) == End(<<Jmp("CallOther", None, return)>>, NoTargets)

Blk(tid, end) == [tid |-> tid, jmps |-> end.jmps, ind |-> end.ind]

f1 == <<"f">>
f2 == <<"f2">>
g1 == <<"g">>
h1 == <<"h">>
s1 == <<"s">>
m1 == <<"m">>

MCAddresses == {"f", "f2", "g", "h", "e", "s", "m", "x"}

StartEnds ==
  {Goto(f2), Goto(s1), GotoIf(f2, g1), GotoInd(<<g1, m1>>), CallingOther(g1),
   Calling("g", f2), Calling("e", f2), Calling("s", f2), Calling("m", g1),
   CallingInd(<<"s">>, f2), CallingInd(<<"g", "s">>, g1), CallingInd(<<"e", "g">>, f2)}

SecondEnds ==
  {End(<<Return>>, NoTargets), Goto(f1), Goto(g1), GotoIf(m1, f1), GotoInd(<<g1>>),
   Calling("s", g1), Calling("x", None), Calling("e", m1), CallingInd(<<>>, None),
   CallingInd(<<"e">>, g1)}

OtherEnds ==
  {End(<<>>, NoTargets), Goto(h1), GotoIf(f2, m1), GotoInd(<<f1, s1>>),
   Calling("s", f2), Calling("f", g1), CallingInd(<<"s">>, f2)}

LastEnds == {End(<<Return>>, NoTargets), Goto(f2), Calling("s", g1)}

ProgramWith(blocks, c, d, noreturn) ==
  [subs |-> [f |-> blocks, g |-> <<Blk(g1, c)>>, h |-> <<Blk(h1, d)>>, e |-> <<>>,
             s |-> <<Blk(s1, End(<<Return>>, NoTargets))>>],
   stubs |-> [s |-> "x"],
   extern_symbols |-> {"x"},
   noreturn |-> noreturn,
   entry_points |-> {"f", "e", "s", "m"}]

MCPrograms ==
  {ProgramWith(blocks, c, d, noreturn) :
     blocks \in UNION {{<<Blk(f1, a), Blk(f2, b)>>, <<Blk(f2, b), Blk(f1, a)>>} :
                         a \in StartEnds, b \in SecondEnds},
     c \in OtherEnds, d \in LastEnds, noreturn \in {{}, {"x"}}}
=============================================================================
