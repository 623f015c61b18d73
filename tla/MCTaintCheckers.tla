--------------------------- MODULE MCTaintCheckers ---------------------------
(***************************************************************************)
(* Small programs for both checkers.  The registers are a (return value),  *)
(* p (parameter) and s (callee-saved); the object m is the stack frame of  *)
(* main, o an object that the callee got from it.                          *)
(***************************************************************************)
EXTENDS TaintCheckers

CConv == [params |-> {"p"}, callee_saved |-> {"s"}, return_registers |-> {"a"}]
Offsets == [m |-> {0, 1}, o |-> {0}]

Assign(var, inputs) == [kind |-> "Assign", var |-> var, inputs |-> inputs]
Load(var, address, at) ==
  [kind |-> "Load", var |-> var, address |-> address, at |-> at, inputs |-> {}]
Store(address, at, inputs) ==
  [kind |-> "Store", address |-> address, at |-> at, inputs |-> inputs]

Reg(inputs, points) == [kind |-> "Register", inputs |-> inputs, points |-> points]
Stack(at) == [kind |-> "Stack", at |-> at, points |-> None]
Points == [a |-> None, p |-> {<<"m", 0>>}]

Branch(t) == [kind |-> "Branch", target |-> t]
CBranch(t, c) == [kind |-> "CBranch", target |-> t, condition |-> c]
Return == [kind |-> "Return", points |-> Points]
CallInd(t) == [kind |-> "CallInd", return |-> t, points |-> Points]
CallTo(f, t, renaming) ==
  [kind |-> "Call", target |-> f, return |-> t, points |-> [Points EXCEPT !.p = None],
   renaming |-> renaming]
Extern(t, args, symbol) ==
  [kind |-> "ExternCall", return |-> t, args |-> args, symbol |-> symbol, return_values |-> {}]
Symbol(configured, no_return, noop) ==
  [configured |-> configured, no_return |-> no_return, noop |-> noop]
Source(t, results) ==
  [Extern(t, {}, Symbol(TRUE, FALSE, FALSE)) EXCEPT !.return_values = results]

Blk(f, defs, jmps) == [sub |-> f, defs |-> defs, jmps |-> jmps]

\* A source call, a loop or a branch, and the end of the function.
First == {Assign("s", {"a"}), Store({}, {<<"m", 0>>}, {"a"}), Store({}, {<<"m", 0>>, <<"o", 0>>}, {"a"}),
          Assign("a", {})}
Second == {Assign("s", {}), Load("s", {}, {<<"m", 0>>}), Load("s", {"s"}, None),
           Store({}, {<<"m", 0>>}, {}), Store({}, None, {}), Load("p", {}, {<<"o", 0>>, <<"m", 1>>})}
Third == {Store({"a"}, None, {}), Load("p", {}, {<<"m", AnyOffset>>}),
          Store({}, {<<"m", 0>>, <<"m", AnyOffset>>}, {"s"}), Assign("a", {"s"})}
Free == Extern("b4", {Reg({"p"}, {<<"m", 0>>})}, Symbol(FALSE, FALSE, FALSE))
Endings ==
  {<<Return>>, <<Free>>, <<Extern("b4", {Stack({<<"m", 1>>})}, Symbol(FALSE, FALSE, FALSE))>>,
   <<Extern("b4", {}, Symbol(FALSE, FALSE, TRUE))>>, <<Extern("b4", {}, Symbol(FALSE, TRUE, FALSE))>>,
   <<CallInd("b4")>>, <<Source("b1", {Reg({"a"}, None)})>>}

OneFunction(d1, d2, d3, cond, back, ending) ==
  [b0 |-> Blk("f", <<>>, <<Source("b1", {Reg({"a"}, None)})>>),
   b1 |-> Blk("f", <<d1>>, <<CBranch("b2", cond), Branch("b3")>>),
   b2 |-> Blk("f", <<d2>>, <<Branch(back)>>),
   b3 |-> Blk("f", <<d3>>, ending),
   b4 |-> Blk("f", <<>>, <<Return>>)]

Intraprocedural ==
  {OneFunction(d1, d2, d3, cond, back, ending) :
     d1 \in First, d2 \in Second, d3 \in Third, cond \in {{"a"}, {"s"}, {}},
     back \in {"b1", "b3"}, ending \in Endings}

\* The source is in a function g that main calls twice.
Callee == {<<>>, <<Assign("s", {"a"}), Assign("a", {})>>, <<Store({}, {<<"o", 0>>}, {"a"}), Assign("a", {})>>}
Results == {{}, {Reg({"a"}, None)}, {Stack({<<"o", 0>>})}}
Renamings == {None, <<>>, [o |-> {<<"m", 1>>}], [o |-> {<<"m", AnyOffset>>}]}
Caller == {<<>>, <<Assign("s", {"a"})>>, <<Load("s", {}, {<<"m", 1>>})>>, <<Assign("p", {"a"})>>}

TwoFunctions(results, dg, renaming, dm, cond) ==
  [g0 |-> Blk("g", <<>>, <<Source("g1", results)>>),
   g1 |-> Blk("g", dg, <<Return>>),
   m0 |-> Blk("main", <<>>, <<CallTo("g", "m1", renaming)>>),
   m1 |-> Blk("main", dm, <<CBranch("m3", cond), Branch("m2")>>),
   m2 |-> Blk("main", <<>>, <<CallTo("g", "m3", renaming)>>),
   m3 |-> Blk("main", <<>>, <<Return>>)]

Interprocedural ==
  {TwoFunctions(results, dg, renaming, dm, cond) :
     results \in Results, dg \in Callee, renaming \in Renamings, dm \in Caller, cond \in {{"a"}, {"s"}, {}}}

Input(checker, blocks, convention) ==
  [checker |-> checker, blks |-> blocks, cconv |-> convention, offsets |-> Offsets]

MCInputs ==
  {Input(c, b, CConv) : c \in {"CWE252", "CWE476"}, b \in Intraprocedural}
    \cup {Input(c, b, cc) : c \in {"CWE252", "CWE476"}, b \in Interprocedural, cc \in {CConv, None}}

==============================================================================
