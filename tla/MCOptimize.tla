----------------------------- MODULE MCOptimize -----------------------------
(***************************************************************************)
(* Programs for Optimize, in three families: one block that stores the     *)
(* value of an expression, one block of four definitions, and functions of *)
(* four blocks.                                                            *)
(***************************************************************************)
EXTENDS Optimize

\* Bytes are three bits wide.  x, y, sp and the flag are physical registers, the
\* others temporaries; w has two bytes.
MCSizeOf == [x |-> 1, y |-> 1, sp |-> 1, flag |-> 1, u |-> 1, w |-> 2]
MCPhysical == {"x", "y", "sp", "flag"}

Regs(xs, ys, sps, flags) ==
  {[x |-> i, y |-> j, sp |-> s, flag |-> f, u |-> 0, w |-> 8 * j + i] :
     i \in xs, j \in ys, s \in sps, f \in flags}

x == Var("x")
y == Var("y")
u == Var("u")
w == Var("w")
sp == Var("sp")
flag == Var("flag")
C(v) == Const(v, 1)

Block(tid, defs, jmps) == [tid |-> tid, defs |-> defs, jmps |-> jmps]
Return == <<Jmp("Return", C(0), None)>>
Goto(t) == <<Jmp("Branch", None, t)>>
If(c, t, e) == <<Jmp("CBranch", c, t), Jmp("Branch", None, e)>>
CallTo(t) == <<Jmp("Call", None, t)>>
CallIndTo(e, t) == <<Jmp("CallInd", e, t)>>

-----------------------------------------------------------------------------
(* Expressions: all rules have to meet the trees they match.               *)

Comparisons ==
  {"IntEqual", "IntNotEqual", "IntLess", "IntSLess", "IntLessEqual", "IntSLessEqual"}

Compared ==
  {BinOp(op, p[1], p[2]) : op \in Comparisons \cup {"IntSBorrow"}, p \in {<<x, y>>, <<y, x>>, <<x, C(1)>>}}
  \cup {BinOp(op, BinOp("IntSub", x, y), C(0)) : op \in {"IntSLess", "IntEqual"}}
Booleans == {flag, C(0), C(1)} \cup Compared

Ints ==
  {x, C(0), C(1), C(-1)}
  \cup {BinOp(op, p[1], p[2]) :
          op \in {"IntAdd", "IntSub"},
          p \in {<<x, y>>, <<x, C(1)>>, <<C(3), x>>, <<C(3), C(1)>>}}

Wide ==
  {w} \cup {Cast(op, 2, x) : op \in {"IntZExt", "IntSExt"}}
  \cup {BinOp("Piece", x, y), Cast("PopCount", 2, x)}
  \cup {Cast("IntZExt", 2, Cast(op, 1, x)) : op \in {"IntZExt", "IntSExt"}}

MCExprs ==
  {BinOp(op, a, b) : op \in {"BoolAnd", "BoolOr", "BoolXOr", "IntEqual", "IntNotEqual"},
                     a \in Booleans, b \in Booleans}
  \cup {BinOp(op, a, b) : op \in {"IntAdd", "IntSub", "IntAnd", "IntOr", "IntXOr", "IntLeft", "IntSLessEqual"},
                          a \in Ints, b \in Ints}
  \cup {UnOp("BoolNegate", a) : a \in Booleans \cup {UnOp("BoolNegate", flag)}}
  \cup {UnOp(op, UnOp(q, x)) : op \in {"IntNegate", "Int2Comp"}, q \in {"IntNegate", "Int2Comp"}}
  \cup {Subpiece(low, 1, a) : low \in {0, 1}, a \in Wide}
  \cup {Subpiece(0, 1, Subpiece(1, 1, BinOp("Piece", y, w))), Subpiece(1, 1, Subpiece(1, 2, BinOp("Piece", w, x)))}

\* The rule for a difference that is compared with one is not an equivalence.
ComparesWithOne(e) ==
  /\ e.kind = "BinOp" /\ e.op \in {"IntEqual", "IntNotEqual"}
  /\ \E p \in {<<e.lhs, e.rhs>>, <<e.rhs, e.lhs>>} :
       IsConst(p[1]) /\ p[1].value = 1 /\ IsBinOp(p[2], "IntSub")

ExprPrograms ==
  {<<Block("a", <<Store(C(0), e)>>, Return)>> : e \in {e \in MCExprs : ~ComparesWithOne(e)}}

-----------------------------------------------------------------------------
(* Definitions: propagation and dead variables within a block.             *)

MCDefs ==
  {Assign("u", BinOp("IntAdd", x, C(1))), Assign("x", BinOp("IntSub", u, y)),
   Assign("u", BinOp("IntXOr", u, u)), Assign("y", BinOp("IntAdd", y, x)),
   Assign("x", C(1)), Load("u", y), Load("y", BinOp("IntAdd", u, x)),
   Store(u, x), Store(x, BinOp("IntSub", u, C(1)))}
SpDefs ==
  {Assign("sp", BinOp("IntSub", sp, C(1))), Assign("sp", BinOp("IntAdd", C(3), sp)), Store(sp, y)}
Align == Assign("sp", BinOp("IntAnd", sp, C(-4)))

Ends == {Return, <<Jmp("BranchInd", u, None)>>, CallIndTo(u, None)}

DefPrograms ==
  {<<Block("a", <<d1, d2, d3>>, j), Block("b", <<Store(u, x)>>, Return)>> :
     d1 \in MCDefs, d2 \in MCDefs, d3 \in MCDefs, j \in Ends \cup {CallTo("b"), Goto("b")}}
  \cup {<<Block("a", <<d1, Store(C(0), x), d2, Align, Store(sp, x)>>, Return)>> :
          d1 \in SpDefs, d2 \in SpDefs}

-----------------------------------------------------------------------------
(* Control flow: four blocks, the later ones often empty.                  *)

Conditions == {flag, UnOp("BoolNegate", flag)}
Bodies == {<<>>, <<Assign("x", u)>>, <<Load("flag", x)>>}

StartJmps == {If(c, "b", "c") : c \in Conditions} \cup {CallTo("b"), Goto("b")}
MiddleJmps == {If(flag, "c", "d"), If(UnOp("BoolNegate", flag), "d", "b"), Goto("c"), CallTo("c"), Goto("b"), CallIndTo(u, "d")}
LaterJmps == {If(flag, "b", "d"), Goto("d"), If(BinOp("IntEqual", x, y), "d", "b"), CallTo("b")}

FlowPrograms ==
  {<<Block("a", <<Assign("u", BinOp("IntAdd", x, y))>>, j1), Block("b", b2, j2),
     Block("c", b3, j3), Block("d", <<Store(u, x)>>, Return)>> :
     j1 \in StartJmps, b2 \in Bodies, j2 \in MiddleJmps, b3 \in Bodies, j3 \in LaterJmps}

MCPrograms ==
  {[blocks |-> p, called |-> FALSE, regs |-> Regs({-4, -1, 0, 1, 3}, {-4, 0, 1}, {0}, {0, 1})] :
     p \in ExprPrograms}
  \cup {[blocks |-> p, called |-> FALSE, regs |-> Regs({0, 3}, {1}, {0, -4}, {0})] :
          p \in DefPrograms}
  \cup {[blocks |-> p, called |-> TRUE, regs |-> Regs({0, 3}, {0}, {0}, {0, 1})] :
          p \in FlowPrograms}
=============================================================================
