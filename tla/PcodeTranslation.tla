-------------------------- MODULE PcodeTranslation --------------------------
(***************************************************************************)
(* The translation of the P-Code of one function to IR blocks              *)
(* (ghidra_pcode/block, term, pcode_operation, varnode), followed by       *)
(* SubregisterSubstitutionPass, which leaves only base registers in them.  *)
(*                                                                         *)
(* The steps are those of OpIterator: a block is opened, takes             *)
(* definitions, moves on to the next instruction and is closed by a jump.  *)
(* A machine executes P-Code and IR on a register file of bytes, in which  *)
(* sub-registers overlap as they do in the processor.                      *)
(***************************************************************************)
EXTENDS Expressions

CONSTANTS
  Inputs,       \* functions: their Ghidra blocks and the byte order
  RegisterProperties,  \* for both byte orders: the place and the base of every register,
  StackPointer,        \* the varnode of the stack pointer,
  Parameters,          \* and the parameters of the functions that are called
  PointerSize,  \* Varnode::pointer_size
  FileSize,     \* the bytes of the register space
  InitialFiles, \* what it may contain at the start
  MaxSteps      \* how many jumps the machines execute

VARIABLES
  input,      \* the function that is translated
  ghidra_blk, \* the index of the Ghidra block whose instructions are taken
  instr,      \* OpIterator: how many instructions were taken from it,
  term,       \* and how many terms of the last of them
  current,    \* the IR block under construction, or None
  blocks,     \* the finished IR blocks
  params,     \* the parameters of external functions
  substituted \* how many blocks SubregisterSubstitutionPass has processed

Registers == RegisterProperties[input.big_endian]
Params == Parameters[input.big_endian]

vars == <<input, ghidra_blk, instr, term, current, blocks, params, substituted>>

-----------------------------------------------------------------------------
(* P-Code.                                                                 *)

\* register: the name Ghidra gave to a varnode in the register space, or None.
Varnode(space, offset, size, register) ==
  [space |-> space, offset |-> offset, size |-> size, register |-> register]
\* in: the input varnodes; out: the output varnode or None.
Term(op, in, out) == [op |-> op, in |-> in, out |-> out]

JmpOpcodes == {"BRANCH", "CBRANCH", "BRANCHIND", "CALL", "CALLIND", "CALLOTHER", "RETURN"}
is_jump(t) == t.op \in JmpOpcodes

try_to_ir_unop ==
  [INT_NEGATE |-> "IntNegate", INT_2COMP |-> "Int2Comp", BOOL_NEGATE |-> "BoolNegate",
   FLOAT_NEG |-> "FloatNegate", FLOAT_ABS |-> "FloatAbs", FLOAT_SQRT |-> "FloatSqrt",
   FLOAT_CEIL |-> "FloatCeil", FLOAT_FLOOR |-> "FloatFloor", FLOAT_ROUND |-> "FloatRound",
   FLOAT_NAN |-> "FloatNaN"]
try_to_ir_biop ==
  [PIECE |-> "Piece", INT_EQUAL |-> "IntEqual", INT_NOTEQUAL |-> "IntNotEqual",
   INT_LESS |-> "IntLess", INT_SLESS |-> "IntSLess", INT_LESSEQUAL |-> "IntLessEqual",
   INT_SLESSEQUAL |-> "IntSLessEqual", INT_ADD |-> "IntAdd", INT_SUB |-> "IntSub",
   INT_CARRY |-> "IntCarry", INT_SCARRY |-> "IntSCarry", INT_SBORROW |-> "IntSBorrow",
   INT_XOR |-> "IntXOr", INT_AND |-> "IntAnd", INT_OR |-> "IntOr", INT_LEFT |-> "IntLeft",
   INT_RIGHT |-> "IntRight", INT_SRIGHT |-> "IntSRight", INT_MULT |-> "IntMult",
   INT_DIV |-> "IntDiv", INT_REM |-> "IntRem", INT_SDIV |-> "IntSDiv", INT_SREM |-> "IntSRem",
   BOOL_XOR |-> "BoolXOr", BOOL_AND |-> "BoolAnd", BOOL_OR |-> "BoolOr",
   FLOAT_EQUAL |-> "FloatEqual", FLOAT_NOTEQUAL |-> "FloatNotEqual", FLOAT_LESS |-> "FloatLess",
   FLOAT_LESSEQUAL |-> "FloatLessEqual", FLOAT_ADD |-> "FloatAdd", FLOAT_SUB |-> "FloatSub",
   FLOAT_MULT |-> "FloatMult", FLOAT_DIV |-> "FloatDiv"]
try_to_ir_cast ==
  [INT_ZEXT |-> "IntZExt", INT_SEXT |-> "IntSExt", INT2FLOAT |-> "Int2Float",
   FLOAT2FLOAT |-> "Float2Float", TRUNC |-> "Trunc", POPCOUNT |-> "PopCount", LZCOUNT |-> "LzCount"]

-----------------------------------------------------------------------------
(* Varnodes become variables <<kind, name, size>>; the kinds "reg" and     *)
(* "subreg" are physical registers, the others temporaries.                *)

\* Ghidra gives the low bytes of a register the name of the whole register.
to_ir_var(vn) ==
  LET named == vn.register # None /\ Registers[vn.register].size = vn.size
  IN  CASE vn.space # "register"           -> <<vn.space, vn.offset, vn.size>>
        [] vn.space = "register" /\ named  -> <<"reg", vn.register, vn.size>>
        [] vn.space = "register" /\ ~named -> <<"subreg", vn.offset, vn.size>>

is_physical_register(v) == v[1] \in {"reg", "subreg"}

to_const(vn) == Const(Wrap(vn.offset, vn.size), vn.size)
to_ir_expr(vn) == IF vn.space = "const" THEN to_const(vn) ELSE Var(to_ir_var(vn))
get_ram_address(vn) == Const(Wrap(vn.offset, PointerSize), PointerSize)
is_in_ram(vn) == vn.space = "ram"

\* A parameter: a register, or the address of a place on the stack.
to_ir_arg(vn) ==
  IF vn.space = "stack"
  THEN BinOp("IntAdd", Var(to_ir_var(StackPointer[input.big_endian])), Const(vn.offset, PointerSize))
  ELSE Var(to_ir_var(vn))

-----------------------------------------------------------------------------
(* Terms.                                                                  *)

Assign(var, value) == [kind |-> "Assign", var |-> var, value |-> value]
Load(var, address) == [kind |-> "Load", var |-> var, address |-> address]
Store(address, value) == [kind |-> "Store", address |-> address, value |-> value]
Jmp(kind, expr, target) == [kind |-> kind, expr |-> expr, target |-> target]
HasExpr(j) == j.expr # None

\* The temporary for an input that is in memory.
LoadTemp(k, vn) == <<"load_temp", k, vn.size>>
TempVarnode(k, vn) == Varnode("load_temp", k, vn.size, None)

\* The loads for the inputs whose index is in a set, and the term that uses them.
RamInputs(t, indices) == {k \in indices \cap DOMAIN t.in : is_in_ram(t.in[k])}
make_inputs_explicitly_loaded(t, indices) ==
  LET ram == RamInputs(t, indices)
  IN  [loads |-> [i \in 1..Cardinality(ram) |->
                    LET k == SetToSortSeq(ram, <)[i]
                    IN  Load(LoadTemp(k, t.in[k]), get_ram_address(t.in[k]))],
       term |-> [t EXCEPT !.in = [k \in DOMAIN @ |->
                    IF k \in ram THEN TempVarnode(k, @[k]) ELSE @[k]]]]

\* A result for the constant space is discarded, one for memory is stored.
wrap_in_ir_def_assign_or_store(out, value) ==
  CASE is_in_ram(out)       -> <<Store(get_ram_address(out), value)>>
    [] out.space = "const"  -> <<>>
    [] OTHER                -> <<Assign(to_ir_var(out), value)>>

ValueOf(t) ==
  LET In(k) == to_ir_expr(t.in[k])
  IN  CASE t.op = "COPY"                   -> In(1)
        [] t.op = "SUBPIECE"               -> Subpiece(t.in[2].offset, t.out.size, In(1))
        [] t.op \in DOMAIN try_to_ir_unop  -> UnOp(try_to_ir_unop[t.op], In(1))
        [] t.op \in DOMAIN try_to_ir_biop  -> BinOp(try_to_ir_biop[t.op], In(1), In(2))
        [] t.op \in DOMAIN try_to_ir_cast  -> Cast(try_to_ir_cast[t.op], t.out.size, In(1))

to_ir_def_term_no_implicit_load(t) ==
  CASE t.op = "LOAD"          -> <<Load(to_ir_var(t.out), to_ir_expr(t.in[2]))>>
    [] t.op = "STORE"         -> <<Store(to_ir_expr(t.in[2]), to_ir_expr(t.in[3]))>>
    [] t.op = "UNIMPLEMENTED" -> <<>>
    [] OTHER                  -> wrap_in_ir_def_assign_or_store(t.out, ValueOf(t))

to_ir_def_terms(t) ==
  LET explicit == make_inputs_explicitly_loaded(t, {1, 2, 3})
  IN  explicit.loads \o to_ir_def_term_no_implicit_load(explicit.term)

\* Mutant: a jump behind the last term of an instruction is not recognised.
TargetInsideInstr(i, index, t) ==
  IF is_in_ram(t.in[1]) THEN <<t.in[1].offset, 0>> ELSE <<i.address, index + t.in[1].offset>>

\* The block a direct jump with the given index in its instruction leads to.  A
\* relative jump that leaves the instruction continues behind it.
direct_jump_get_target(i, index, t) ==
  LET target == index + t.in[1].offset
  IN  CASE is_in_ram(t.in[1])                             -> <<t.in[1].offset, 0>>
        [] ~is_in_ram(t.in[1]) /\ target < Len(i.terms)   -> <<i.address, target>>
        [] ~is_in_ram(t.in[1]) /\ target >= Len(i.terms)  -> <<i.fall_through, 0>>

collect_jmp_targets(i, index, t) ==
  CASE t.op \in {"BRANCH", "CBRANCH", "CALL"} -> {direct_jump_get_target(i, index, t)}
    [] t.op \in {"BRANCHIND", "CALLIND"}      -> {<<a, 0>> : a \in i.potential_targets}
    [] OTHER                                  -> {}

get_fall_through_target(i, index, t) ==
  CASE t.op \in {"BRANCH", "BRANCHIND", "RETURN"} -> None
    [] OTHER -> IF index + 1 < Len(i.terms) THEN <<i.address, index + 1>>
                ELSE IF i.fall_through = None THEN None ELSE <<i.fall_through, 0>>

\* The jump targets of the whole program, behind calls and conditional jumps too.
jump_targets ==
  UNION {UNION {LET i == input.blocks[b][n]
                IN  UNION {collect_jmp_targets(i, k - 1, i.terms[k])
                             \cup ({get_fall_through_target(i, k - 1, i.terms[k])} \ {None}) :
                               k \in {k \in DOMAIN i.terms : is_jump(i.terms[k])}} :
                  n \in DOMAIN input.blocks[b]} :
           b \in DOMAIN input.blocks}

to_ir_jump_terms(i, index, t) ==
  LET next == get_fall_through_target(i, index, t)
  IN  CASE t.op = "BRANCH"    -> <<Jmp("Branch", None, direct_jump_get_target(i, index, t))>>
        [] t.op = "CBRANCH"   -> <<Jmp("CBranch", to_ir_expr(t.in[2]), direct_jump_get_target(i, index, t)),
                                   Jmp("Branch", None, next)>>
        [] t.op = "BRANCHIND" -> <<Jmp("BranchInd", to_ir_expr(t.in[1]), None)>>
        [] t.op = "CALL"      -> <<Jmp("Call", None, next)>>
        [] t.op = "CALLIND"   -> <<Jmp("CallInd", to_ir_expr(t.in[1]), next)>>
        [] t.op = "CALLOTHER" -> <<Jmp("CallOther", None, next)>>
        [] t.op = "RETURN"    -> <<Jmp("Return", to_ir_expr(t.in[1]), None)>>

\* The input of a jump that may be in memory.
JmpInputs(t) ==
  CASE t.op \in {"BRANCHIND", "CALLIND", "RETURN"} -> {1}
    [] t.op = "CBRANCH"                            -> {2}
    [] OTHER                                       -> {}

add_jmp_to_blk(blk, i, index, t) ==
  LET explicit == make_inputs_explicitly_loaded(t, JmpInputs(t))
  IN  [blk EXCEPT !.defs = @ \o explicit.loads,
                  !.jmps = @ \o to_ir_jump_terms(i, index, explicit.term),
                  !.ind_jump_targets = IF t.op = "BRANCHIND" THEN {<<a, 0>> : a \in i.potential_targets} ELSE @,
                  !.ind_call_targets = IF t.op = "CALLIND" THEN i.potential_targets ELSE @]

-----------------------------------------------------------------------------
(* OpIterator and Block::to_ir_blocks.                                     *)

Instrs == input.blocks[ghidra_blk]
CurrentInstr == Instrs[instr]
HasTerm == instr > 0 /\ term < Len(CurrentInstr.terms)
HasInstr == instr < Len(Instrs)

peek_next_blk_tid ==
  CASE HasTerm              -> <<CurrentInstr.address, term>>
    [] ~HasTerm /\ HasInstr -> <<Instrs[instr + 1].address, 0>>
    [] OTHER                -> None

peek_for_jmp_term ==
  CASE HasTerm              -> is_jump(CurrentInstr.terms[term + 1])
    [] ~HasTerm /\ HasInstr -> Instrs[instr + 1].terms # <<>> /\ is_jump(Instrs[instr + 1].terms[1])
    [] OTHER                -> FALSE

AtOtherJmpTarget == peek_next_blk_tid \in jump_targets \ {current.tid}

Init ==
  /\ input \in Inputs
  /\ ghidra_blk = 1 /\ instr = 0 /\ term = 0
  /\ current = None
  /\ blocks = <<>>
  /\ params = [k \in DOMAIN Params |-> to_ir_arg(Params[k])]
  /\ substituted = 0

Translating == ghidra_blk <= Len(input.blocks)

OpenBlock ==
  /\ Translating /\ current = None
  /\ peek_next_blk_tid # None
  /\ current' = [tid |-> peek_next_blk_tid, defs |-> <<>>, jmps |-> <<>>,
                 ind_jump_targets |-> {}, ind_call_targets |-> {}]
  /\ UNCHANGED <<input, ghidra_blk, instr, term, blocks, params, substituted>>

NextGhidraBlock ==
  /\ Translating /\ current = None
  /\ peek_next_blk_tid = None
  /\ ghidra_blk' = ghidra_blk + 1
  /\ instr' = 0 /\ term' = 0
  /\ UNCHANGED <<input, current, blocks, params, substituted>>

TakesDefs == Translating /\ current # None /\ ~AtOtherJmpTarget /\ ~peek_for_jmp_term

next_def_term ==
  /\ TakesDefs /\ HasTerm
  /\ current' = [current EXCEPT !.defs = @ \o to_ir_def_terms(CurrentInstr.terms[term + 1])]
  /\ term' = term + 1
  /\ UNCHANGED <<input, ghidra_blk, instr, blocks, params, substituted>>

next_instr ==
  /\ TakesDefs /\ ~HasTerm /\ HasInstr
  /\ instr' = instr + 1 /\ term' = 0
  /\ UNCHANGED <<input, ghidra_blk, current, blocks, params, substituted>>

Finalize(blk) ==
  /\ blocks' = Append(blocks, blk)
  /\ current' = None
  /\ UNCHANGED <<input, ghidra_blk, params, substituted>>

FallThrough(target) == [current EXCEPT !.jmps = Append(@, Jmp("Branch", None, target))]

CloseAtJmpTarget ==
  /\ Translating /\ current # None
  /\ AtOtherJmpTarget
  /\ Finalize(FallThrough(peek_next_blk_tid))
  /\ UNCHANGED <<instr, term>>

CloseWithJmp ==
  /\ Translating /\ current # None
  /\ ~AtOtherJmpTarget /\ peek_for_jmp_term
  /\ LET i == IF HasTerm THEN CurrentInstr ELSE Instrs[instr + 1]
         index == IF HasTerm THEN term ELSE 0
     IN  /\ Finalize(add_jmp_to_blk(current, i, index, i.terms[index + 1]))
         /\ instr' = IF HasTerm THEN instr ELSE instr + 1
         /\ term' = index + 1

\* Mutant: the terms of a block that is dropped are put back.
DropPutsBack ==
  /\ TakesDefs /\ ~HasTerm /\ ~HasInstr
  /\ IF CurrentInstr.delay_slot
     THEN /\ current' = None
          /\ instr' = instr - 1 /\ term' = Len(Instrs[instr - 1].terms)
          /\ UNCHANGED <<input, ghidra_blk, blocks, params, substituted>>
     ELSE Finalize(FallThrough(<<CurrentInstr.fall_through, 0>>)) /\ UNCHANGED <<instr, term>>

\* The Ghidra block ends without a jump.  Instructions in a delay slot are part
\* of the jump before them; what was translated of them is dropped.
CloseAtEnd ==
  /\ TakesDefs /\ ~HasTerm /\ ~HasInstr
  /\ IF CurrentInstr.delay_slot \/ CurrentInstr.fall_through = None
     THEN current' = None /\ UNCHANGED <<input, ghidra_blk, blocks, params, substituted>>
     ELSE Finalize(FallThrough(<<CurrentInstr.fall_through, 0>>))
  /\ UNCHANGED <<instr, term>>

-----------------------------------------------------------------------------
(* RegisterMap and SubregisterSubstitutionPass.                            *)

contains_offset_size(r, offset, size) == r.offset <= offset /\ r.offset + r.size >= offset + size

\* <<start, length, base register>> of a variable for a register.
get_base_reg_slice_for_ir_variable(v) ==
  LET offset == IF v[1] = "reg" THEN Registers[v[2]].offset ELSE v[2]
      named == IF v[1] = "reg" THEN v[2]
               ELSE CHOOSE r \in DOMAIN Registers :
                      contains_offset_size(Registers[r], offset, v[3])
      base == Registers[named].base
  IN  [start |-> offset - Registers[base].offset, len |-> v[3], base |-> base]

RegSize(slice) == Registers[slice.base].size
BaseVar(slice) == <<"reg", slice.base, RegSize(slice)>>
IsSubregister(v) ==
  is_physical_register(v) /\ LET s == get_base_reg_slice_for_ir_variable(v) IN s.len # RegSize(s)

\* The bytes of the register before and behind a slice, by significance.
BytesBelow(slice) ==
  IF input.big_endian THEN RegSize(slice) - slice.start - slice.len ELSE slice.start
BytesAbove(slice) == RegSize(slice) - BytesBelow(slice) - slice.len

to_ir_subpiece_expr(slice) == Subpiece(BytesBelow(slice), slice.len, Var(BaseVar(slice)))
msb_subpiece(slice) == Subpiece(RegSize(slice) - BytesAbove(slice), BytesAbove(slice), Var(BaseVar(slice)))
lsb_subpiece(slice) == Subpiece(0, BytesBelow(slice), Var(BaseVar(slice)))

\* Mutant: the more significant bytes of the register are not kept.
ExpandWithZeros(slice, e) ==
  LET low == IF BytesBelow(slice) > 0 THEN BinOp("Piece", e, lsb_subpiece(slice)) ELSE e
  IN  Cast("IntZExt", RegSize(slice), low)

expand_to_full_size_expr(slice, e) ==
  LET high == IF BytesAbove(slice) > 0 THEN BinOp("Piece", msb_subpiece(slice), e) ELSE e
  IN  IF BytesBelow(slice) > 0 THEN BinOp("Piece", high, lsb_subpiece(slice)) ELSE high

replace_subregister_inputs(e) ==
  LET Replace(acc, v) ==
        IF IsSubregister(v)
        THEN substitute_input_var(acc, v, to_ir_subpiece_expr(get_base_reg_slice_for_ir_variable(v)))
        ELSE acc
  IN  FoldLeft(Replace, e, input_vars(e))

is_cast_to(v, slice, d) ==
  /\ d.kind = "Assign"
  /\ d.var = BaseVar(slice)
  /\ d.value.kind = "Cast"
  /\ d.value.arg = Var(v)

LoadedValue(size) == <<"loaded_value", 0, size>>

\* One definition, or an assignment to a sub-register together with the cast of
\* it to its base register that follows.
ProcessFirst(defs, acc) ==
  LET d == Head(defs)
      slice == get_base_reg_slice_for_ir_variable(d.var)
      folds == Len(defs) > 1 /\ is_cast_to(d.var, slice, defs[2])
      value == replace_subregister_inputs(d.value)
      address == replace_subregister_inputs(d.address)
      temp == LoadedValue(d.var[3])
      Folded(e) == [defs[2] EXCEPT !.value = substitute_input_var(@, d.var, e)]
      Expanded(e) == Assign(BaseVar(slice), expand_to_full_size_expr(slice, e))
      One(new) == [rest |-> Tail(defs), defs |-> acc \o new]
      Two(new) == [rest |-> Tail(Tail(defs)), defs |-> acc \o new]
  IN  CASE d.kind = "Store" ->
             One(<<Store(address, value)>>)
        [] d.kind = "Assign" ->
             IF ~IsSubregister(d.var) THEN One(<<Assign(d.var, value)>>)
             ELSE IF folds THEN Two(<<Folded(value)>>)
             ELSE One(<<Expanded(value)>>)
        [] d.kind = "Load" ->
             IF ~IsSubregister(d.var) THEN One(<<Load(d.var, address)>>)
             ELSE IF folds THEN Two(<<Load(temp, address), Folded(Var(temp))>>)
             ELSE One(<<Load(temp, address), Expanded(Var(temp))>>)

RECURSIVE process_defs(_, _)
process_defs(defs, acc) ==
  IF defs = <<>> THEN acc
  ELSE LET step == ProcessFirst(defs, acc) IN process_defs(step.rest, step.defs)

process_jump(j) == IF HasExpr(j) THEN [j EXCEPT !.expr = replace_subregister_inputs(@)] ELSE j

process_block ==
  /\ ~Translating /\ substituted < Len(blocks)
  /\ LET b == blocks[substituted + 1]
     IN  blocks' = [blocks EXCEPT ![substituted + 1] =
                      [b EXCEPT !.defs = process_defs(@, <<>>),
                                !.jmps = [k \in DOMAIN @ |-> process_jump(@[k])]]]
  /\ substituted' = substituted + 1
  /\ UNCHANGED <<input, ghidra_blk, instr, term, current, params>>

process_ext_fn ==
  /\ ~Translating /\ substituted = Len(blocks)
  /\ params' = [k \in DOMAIN params |-> replace_subregister_inputs(params[k])]
  /\ substituted' = substituted + 1
  /\ UNCHANGED <<input, ghidra_blk, instr, term, current, blocks>>

Done == ~Translating /\ substituted > Len(blocks)

to_ir_blocks ==
  \/ OpenBlock \/ NextGhidraBlock
  \/ next_def_term \/ next_instr
  \/ CloseAtJmpTarget \/ CloseWithJmp \/ CloseAtEnd

Next ==
  \/ to_ir_blocks
  \/ process_block \/ process_ext_fn
  \/ Done /\ UNCHANGED vars

\* The translation is a sequential program, so it takes its next step.
Spec == Init /\ [][Next]_vars /\ WF_vars(to_ir_blocks)

-----------------------------------------------------------------------------
(* The machines.  Both work on the register space, a number whose digits   *)
(* are the bytes.                                                          *)

FirstDigit(offset, size) == IF input.big_endian THEN FileSize - offset - size ELSE offset
ReadFile(file, offset, size) == Wrap(file \div 2 ^ Width(FirstDigit(offset, size)), size)
WriteFile(file, offset, size, v) ==
  file + (Unsigned(v, size) - Unsigned(ReadFile(file, offset, size), size))
           * 2 ^ Width(FirstDigit(offset, size))

Event(m, event) == [m EXCEPT !.trace = Append(@, event)]
ReadMem(m, a, size) == IF <<a, size>> \in DOMAIN m.mem THEN m.mem[<<a, size>>] ELSE 1
LoadMem(m, a, size) == Event(m, <<"load", a, size>>)
StoreMem(m, a, size, v) ==
  Event([m EXCEPT !.mem = (<<a, size>> :> v) @@ @], <<"store", a, size, v>>)
ReadTmp(m, name) == IF name \in DOMAIN m.tmps THEN m.tmps[name] ELSE 0
WriteTmp(m, name, v) == [m EXCEPT !.tmps = (name :> v) @@ @]
Start(file) ==
  [at |-> <<input.blocks[1][1].address, 0>>, file |-> file,
   tmps |-> <<>>, mem |-> <<>>, trace |-> <<>>]

\* P-Code: reading a varnode in memory is an access, too.
ReadVarnode(m, vn) ==
  CASE vn.space = "const"    -> Wrap(vn.offset, vn.size)
    [] vn.space = "ram"      -> ReadMem(m, Wrap(vn.offset, PointerSize), vn.size)
    [] vn.space = "register" -> ReadFile(m.file, vn.offset, vn.size)
    [] OTHER                 -> ReadTmp(m, vn)
WriteVarnode(m, vn, v) ==
  CASE vn.space = "const"    -> m
    [] vn.space = "ram"      -> StoreMem(m, Wrap(vn.offset, PointerSize), vn.size, v)
    [] vn.space = "register" -> [m EXCEPT !.file = WriteFile(@, vn.offset, vn.size, v)]
    [] OTHER                 -> WriteTmp(m, vn, v)
AccessInputs(m, t, indices) ==
  FoldLeft(LAMBDA acc, k : LoadMem(acc, Wrap(t.in[k].offset, PointerSize), t.in[k].size),
           m, SetToSortSeq(RamInputs(t, indices), <))

\* The operations that occur in the instances, as the P-Code manual has them.
PcodeValue(op, x, y, t) ==
  CASE op = "COPY"      -> x
    [] op = "INT_ADD"   -> Wrap(x + y, t.out.size)
    [] op = "INT_EQUAL" -> Bool(x = y)
    [] op = "INT_ZEXT"  -> Unsigned(x, t.in[1].size)
    [] op = "INT_SEXT"  -> x
    [] op = "INT_2COMP" -> Wrap(-x, t.out.size)
    [] op = "PIECE"     -> Wrap(x * 2 ^ Width(t.in[2].size) + Unsigned(y, t.in[2].size), t.out.size)
    [] op = "SUBPIECE"  -> Wrap(Unsigned(x, t.in[1].size) \div 2 ^ Width(Unsigned(y, t.in[2].size)), t.out.size)

PcodeDef(m0, t) ==
  LET m == AccessInputs(m0, t, {1, 2, 3})
      In(k) == ReadVarnode(m0, t.in[k])
  IN  CASE t.op = "UNIMPLEMENTED" -> m
        [] t.op = "LOAD"  -> WriteVarnode(LoadMem(m, In(2), t.out.size), t.out, ReadMem(m, In(2), t.out.size))
        [] t.op = "STORE" -> StoreMem(m, In(2), t.in[3].size, In(3))
        [] OTHER -> WriteVarnode(m, t.out,
                      PcodeValue(t.op, In(1), IF Len(t.in) > 1 THEN In(2) ELSE None, t))

\* What callees and callers see: the base registers and the parameters.
Seen(m, args) == <<m.file, args>>
PcodeArgs(m) ==
  [k \in DOMAIN Params |->
     IF Params[k].space = "stack"
     THEN Wrap(ReadVarnode(m, StackPointer[input.big_endian]) + Params[k].offset, PointerSize)
     ELSE ReadVarnode(m, Params[k])]

Leave(m, event) == [Event(m, event) EXCEPT !.at = None]
AllInstrs == UNION {Range(input.blocks[b]) : b \in DOMAIN input.blocks}

PcodeJmp(m0, i, index, t) ==
  LET m == AccessInputs(m0, t, JmpInputs(t))
      behind == <<i.address, index + 1>>
      relative == <<i.address, index + t.in[1].offset>>
      target == IF is_in_ram(t.in[1]) THEN <<t.in[1].offset, 0>> ELSE relative
      called == Event(m, <<"call", Seen(m, PcodeArgs(m)), t.op>>)
  IN  CASE t.op = "BRANCH"    -> [m EXCEPT !.at = target]
        [] t.op = "CBRANCH"   -> [m EXCEPT !.at = IF ReadVarnode(m, t.in[2]) # 0 THEN target ELSE behind]
        [] t.op \in {"CALL", "CALLOTHER"} -> [called EXCEPT !.at = behind]
        [] t.op = "CALLIND"   -> [Event(called, <<"to", ReadVarnode(m, t.in[1])>>) EXCEPT !.at = behind]
        [] t.op = "BRANCHIND" -> Leave(m, <<"jump", Seen(m, <<>>), ReadVarnode(m, t.in[1])>>)
        [] t.op = "RETURN"    -> Leave(m, <<"return", Seen(m, <<>>), ReadVarnode(m, t.in[1])>>)

RECURSIVE ExecPcode(_, _)
ExecPcode(m, n) ==
  IF m.at = None \/ n = 0 THEN m
  ELSE IF \A i \in AllInstrs : i.address # m.at[1] THEN Leave(m, <<"leave", m.at, m.file>>)
  ELSE LET i == CHOOSE i \in AllInstrs : i.address = m.at[1]
           index == m.at[2]
           t == i.terms[index + 1]
       IN  IF index >= Len(i.terms) THEN ExecPcode([m EXCEPT !.at = <<i.fall_through, 0>>], n)
           ELSE IF is_jump(t) THEN ExecPcode(PcodeJmp(m, i, index, t), n - 1)
           ELSE ExecPcode([PcodeDef(m, t) EXCEPT !.at = <<i.address, index + 1>>], n)

\* IR: a variable is found by its place in the register space.
OffsetOf(v) == IF v[1] = "reg" THEN Registers[v[2]].offset ELSE v[2]
ReadVar(m, v) == IF is_physical_register(v) THEN ReadFile(m.file, OffsetOf(v), v[3]) ELSE ReadTmp(m, v)
WriteVar(m, v, x) ==
  IF is_physical_register(v) THEN [m EXCEPT !.file = WriteFile(@, OffsetOf(v), v[3], x)]
  ELSE WriteTmp(m, v, x)
Eval(m, e) == Evaluate(e, [v \in InputVars(e) |-> ReadVar(m, v)])

IrDef(m, d) ==
  CASE d.kind = "Assign" -> WriteVar(m, d.var, Eval(m, d.value))
    [] d.kind = "Load"   -> LET a == Eval(m, d.address)
                            IN  WriteVar(LoadMem(m, a, d.var[3]), d.var, ReadMem(m, a, d.var[3]))
    [] d.kind = "Store"  -> StoreMem(m, Eval(m, d.address), bytesize(d.value), Eval(m, d.value))

IrJmp(m, jmps) ==
  LET j == IF Len(jmps) = 2 /\ Eval(m, jmps[1].expr) = 0 THEN jmps[2] ELSE jmps[1]
      args == [k \in DOMAIN params |-> Eval(m, params[k])]
      Called(op) == [Event(m, <<"call", Seen(m, args), op>>) EXCEPT !.at = j.target]
  IN  CASE j.kind \in {"Branch", "CBranch"} -> [m EXCEPT !.at = j.target]
        [] j.kind = "Call"      -> Called("CALL")
        [] j.kind = "CallOther" -> Called("CALLOTHER")
        [] j.kind = "CallInd"   -> Event(Called("CALLIND"), <<"to", Eval(m, j.expr)>>)
        [] j.kind = "BranchInd" -> Leave(m, <<"jump", Seen(m, <<>>), Eval(m, j.expr)>>)
        [] j.kind = "Return"    -> Leave(m, <<"return", Seen(m, <<>>), Eval(m, j.expr)>>)

Tids == {blocks[k].tid : k \in DOMAIN blocks}

\* Falling through to the next block is no jump of the P-Code, so the IR needs
\* more jumps for the same execution.
RECURSIVE ExecIr(_, _)
ExecIr(m, n) ==
  IF m.at = None \/ n = 0 THEN m
  ELSE IF m.at \notin Tids THEN Leave(m, <<"leave", m.at, m.file>>)
  ELSE LET b == blocks[CHOOSE k \in DOMAIN blocks : blocks[k].tid = m.at]
       IN  ExecIr(IrJmp(FoldLeft(IrDef, m, b.defs), b.jmps), n - 1)

-----------------------------------------------------------------------------
(* Properties.                                                             *)

\* Before and after each sub-register was replaced, the translated function makes
\* the memory accesses, calls and jumps of its P-Code, with the same contents of
\* all registers, although registers overlap and definitions are folded.
SameExecution ==
  ~Translating => \A file \in InitialFiles :
    LET pcode == ExecPcode(Start(file), MaxSteps)
        ir == ExecIr(Start(file), 3 * MaxSteps)
    IN  IF pcode.at = None THEN ir.at = None /\ ir.trace = pcode.trace
        ELSE IsPrefix(pcode.trace, ir.trace)

\* Every jump to an instruction of the function, to the middle of one by a P-Code
\* relative jump or by a return from a call included, has a block to lead to, and
\* no two blocks begin at the same place.
JumpTargetsExist ==
  LET BlkTargets(b) == b.ind_jump_targets \cup ({b.jmps[k].target : k \in DOMAIN b.jmps} \ {None})
  IN  /\ Cardinality(Tids) = Len(blocks)
      /\ ~Translating =>
           \A b \in Range(blocks) : \A target \in BlkTargets(b) :
             (\E i \in AllInstrs : i.address = target[1]) => target \in Tids

\* The postcondition of SubregisterSubstitutionPass: the program reads and writes
\* base registers and temporaries only.
OnlyBaseRegisters ==
  LET DefVars(d) ==
        CASE d.kind = "Assign" -> {d.var} \cup InputVars(d.value)
          [] d.kind = "Load"   -> {d.var} \cup InputVars(d.address)
          [] d.kind = "Store"  -> InputVars(d.address) \cup InputVars(d.value)
  IN  Done =>
        /\ \A k \in DOMAIN params : \A v \in InputVars(params[k]) : ~IsSubregister(v)
        /\ \A b \in Range(blocks) :
             /\ \A k \in DOMAIN b.defs : \A v \in DefVars(b.defs[k]) : ~IsSubregister(v)
             /\ \A k \in DOMAIN b.jmps :
                  HasExpr(b.jmps[k]) => \A v \in InputVars(b.jmps[k].expr) : ~IsSubregister(v)

\* However jumps, jump targets and empty instructions follow each other, every
\* block takes something from the iterator, so the translation ends.
TranslationEnds == <>~Translating

\* The result has the form that later passes rely on: jump targets exist and
\* only base registers are left (JumpTargetsExist, OnlyBaseRegisters).
ResultIsWellFormed == JumpTargetsExist /\ OnlyBaseRegisters
=============================================================================
