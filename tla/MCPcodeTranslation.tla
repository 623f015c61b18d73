------------------------- MODULE MCPcodeTranslation -------------------------
(***************************************************************************)
(* Functions for PcodeTranslation: three operations on overlapping         *)
(* registers in every order, and four instructions with jumps between and  *)
(* inside them.  Bytes are two bits wide.                                  *)
(***************************************************************************)
EXTENDS PcodeTranslation

\* R contains E, which consists of L and H; S stands alone.  In a big endian
\* processor the low bytes have the high addresses.
MCRegisters(big) ==
  [R |-> [base |-> "R", offset |-> 0, size |-> 3],
   E |-> [base |-> "R", offset |-> IF big THEN 1 ELSE 0, size |-> 2],
   L |-> [base |-> "R", offset |-> IF big THEN 2 ELSE 0, size |-> 1],
   H |-> [base |-> "R", offset |-> 1, size |-> 1],
   S |-> [base |-> "S", offset |-> 3, size |-> 1]]

\* 1, 2, 3, 0 and 3, 0, 1, 1 and 0, 1, 2, 3.
MCInitialFiles == {1 + 2 * 4 + 3 * 16, 3 + 16 + 64, 4 + 2 * 16 + 3 * 64}

Reg(big, name) == Varnode("register", MCRegisters(big)[name].offset, MCRegisters(big)[name].size, name)
\* The middle byte has a name, the highest has none, and the low bytes of E are
\* given the name of R.
Top(big) == Varnode("register", IF big THEN 0 ELSE 2, 1, None)
LowOfR(big) == Varnode("register", IF big THEN 1 ELSE 0, 2, "R")
Tmp(name, size) == Varnode("unique", name, size, None)
C(v, size) == Varnode("const", v, size, None)
Ram(a, size) == Varnode("ram", a, size, None)

MCVariables ==
  {<<"reg", "R", 3>>, <<"reg", "E", 2>>, <<"reg", "L", 1>>, <<"reg", "H", 1>>, <<"reg", "S", 1>>,
   <<"reg", "R", 2>>}
  \cup {<<"subreg", k, size>> : k \in 0..2, size \in 1..2}
  \cup {<<kind, k, size>> : kind \in {"unique", "load_temp", "loaded_value"}, k \in 0..3, size \in 1..3}
MCSizeOf == [v \in MCVariables |-> v[3]]

Ret == Term("RETURN", <<C(0, 1)>>, None)

DataTerms(big) ==
  LET R == Reg(big, "R")
      E == Reg(big, "E")
      L == Reg(big, "L")
      H == Reg(big, "H")
      S == Reg(big, "S")
  IN  {Term("COPY", <<H>>, L), Term("INT_ADD", <<L, S>>, H), Term("INT_ZEXT", <<E>>, R),
       Term("INT_SEXT", <<L>>, R), Term("INT_ADD", <<E, LowOfR(big)>>, E), Term("COPY", <<L>>, Top(big)),
       Term("PIECE", <<Top(big), E>>, R), Term("SUBPIECE", <<R, C(1, 1)>>, LowOfR(big)),
       Term("LOAD", <<C(0, 1), S>>, L), Term("LOAD", <<C(0, 1), H>>, E),
       Term("STORE", <<C(0, 1), L, E>>, None), Term("INT_ADD", <<Ram(1, 1), Ram(2, 1)>>, Ram(1, 1)),
       Term("COPY", <<R>>, Tmp(0, 3)), Term("SUBPIECE", <<Tmp(0, 3), C(2, 1)>>, S),
       Term("INT_2COMP", <<Top(big)>>, C(0, 1)), Term("UNIMPLEMENTED", <<>>, None)}

Instr(address, terms, fall_through) ==
  [address |-> address, terms |-> terms, fall_through |-> fall_through,
   potential_targets |-> IF \E t \in Range(terms) : t.op = "BRANCHIND" THEN {12} ELSE {},
   delay_slot |-> FALSE]

Function(blks, big) ==
  [blocks |-> blks, big_endian |-> big]
MCRegisterProperties == [big \in BOOLEAN |-> MCRegisters(big)]
MCStackPointer == [big \in BOOLEAN |-> Reg(big, "S")]
MCParameters == [big \in BOOLEAN |-> <<Reg(big, "H"), Varnode("stack", 1, 1, None), LowOfR(big)>>]

DataInputs ==
  UNION {{Function(<<<<Instr(10, <<t1, t2, t3, Ret>>, 11)>>>>, big) :
            t1 \in DataTerms(big), t2 \in DataTerms(big),
            t3 \in {t \in DataTerms(big) : t.op \in {"INT_ZEXT", "INT_SEXT", "PIECE", "STORE", "INT_ADD"}}} :
         big \in BOOLEAN}

-----------------------------------------------------------------------------

L0 == Reg(FALSE, "L")
S0 == Reg(FALSE, "S")
Flag == Reg(FALSE, "H")
Inc == Term("INT_ADD", <<L0, C(1, 1)>>, L0)
Toggle == Term("INT_EQUAL", <<Flag, C(0, 1)>>, Flag)
Sto == Term("STORE", <<C(0, 1), L0, S0>>, None)
Branch(a) == Term("BRANCH", <<Ram(a, 1)>>, None)
CBranch(vn, cond) == Term("CBRANCH", <<vn, cond>>, None)

\* Jumps within an instruction, to its end, out of it and to other instructions,
\* from the middle and from the end of the instruction.
FlowTerms ==
  {<<>>, <<Inc>>, <<CBranch(C(2, 1), Flag), Inc, Sto>>, <<Inc, CBranch(C(2, 1), Flag), Sto>>,
   <<Toggle, Sto, CBranch(C(-1, 1), Flag)>>, <<Branch(11)>>, <<Toggle, CBranch(Ram(10, 1), Flag)>>,
   <<CBranch(Ram(13, 1), Ram(2, 1)), Inc>>, <<Term("CALL", <<Ram(12, 1)>>, None), Sto>>,
   <<Term("CALLIND", <<Ram(1, 1)>>, None)>>, <<Inc, Term("CALLOTHER", <<C(1, 1)>>, None)>>,
   <<Ret, Inc>>, <<Term("BRANCHIND", <<L0>>, None)>>, <<Inc, Sto>>}

\* One Ghidra block, or two.
Grouped(i, split) ==
  IF split = 0 THEN <<i>> ELSE <<SubSeq(i, 1, split), SubSeq(i, split + 1, Len(i))>>

FlowInputs ==
  {Function(Grouped(<<Instr(10, a, 11), Instr(11, b, 12), Instr(12, c, 13), Instr(13, <<Sto, Ret>>, 14)>>, split),
            FALSE) :
     a \in FlowTerms, b \in FlowTerms, c \in {t \in FlowTerms : Len(t) # 1}, split \in {0, 2}}

\* A jump whose delay slot holds the instruction behind it.
DelaySlotInputs ==
  {Function(<<<<Instr(10, <<Inc, jump>>, 12), [Instr(11, <<Inc>>, 12) EXCEPT !.delay_slot = TRUE]>>,
              <<Instr(12, <<Sto>>, 13)>>, <<Instr(13, <<Ret>>, 14)>>>>, FALSE) :
     jump \in {Branch(13), CBranch(Ram(13, 1), Flag), Term("CALL", <<Ram(99, 1)>>, None)}}

MCInputs == DataInputs \cup FlowInputs \cup DelaySlotInputs
=============================================================================
