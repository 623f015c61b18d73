---------------------------- MODULE Expressions -----------------------------
(***************************************************************************)
(* IR expressions (intermediate_representation/expression.rs) and their    *)
(* simplification (expression/trivial_operation_substitution.rs).          *)
(*                                                                         *)
(* An expression is a tree of records.  Evaluate gives it the meaning of   *)
(* the P-Code reference manual; the operators that have the names of Rust  *)
(* functions translate them.                                               *)
(***************************************************************************)
EXTENDS Bitvector, Sequences, SequencesExt

CONSTANT SizeOf   \* the byte size of every variable

Var(v) == [kind |-> "Var", var |-> v]
Const(value, size) == [kind |-> "Const", value |-> value, size |-> size]
BinOp(op, lhs, rhs) == [kind |-> "BinOp", op |-> op, lhs |-> lhs, rhs |-> rhs]
UnOp(op, arg) == [kind |-> "UnOp", op |-> op, arg |-> arg]
Cast(op, size, arg) == [kind |-> "Cast", op |-> op, size |-> size, arg |-> arg]
Subpiece(low_byte, size, arg) ==
  [kind |-> "Subpiece", low_byte |-> low_byte, size |-> size, arg |-> arg]
Unknown(size) == [kind |-> "Unknown", size |-> size]

Leaves == {"Var", "Const", "Unknown"}
IsConst(e) == e.kind = "Const"
IsBinOp(e, op) == e.kind = "BinOp" /\ e.op = op

RECURSIVE bytesize(_)
bytesize(e) ==
  CASE e.kind = "Var"   -> SizeOf[e.var]
    [] e.kind = "BinOp" -> bin_op_bytesize(e.op, bytesize(e.lhs), bytesize(e.rhs))
    [] e.kind = "UnOp"  -> IF e.op = "FloatNaN" THEN 1 ELSE bytesize(e.arg)
    [] OTHER            -> e.size

\* The inputs in the order of the syntax tree, with duplicates.
RECURSIVE input_vars(_)
input_vars(e) ==
  CASE e.kind = "Var"               -> <<e.var>>
    [] e.kind \in Leaves \ {"Var"}  -> <<>>
    [] e.kind = "BinOp"             -> input_vars(e.lhs) \o input_vars(e.rhs)
    [] OTHER                        -> input_vars(e.arg)

InputVars(e) == Range(input_vars(e))

RECURSIVE substitute_input_var(_, _, _)
substitute_input_var(e, input_var, new) ==
  CASE e.kind = "Var"               -> IF e.var = input_var THEN new ELSE e
    [] e.kind \in Leaves \ {"Var"}  -> e
    [] e.kind = "BinOp"             ->
         [e EXCEPT !.lhs = substitute_input_var(@, input_var, new),
                   !.rhs = substitute_input_var(@, input_var, new)]
    [] OTHER                        -> [e EXCEPT !.arg = substitute_input_var(@, input_var, new)]

RECURSIVE recursion_depth(_)
recursion_depth(e) ==
  CASE e.kind \in Leaves -> 0
    [] e.kind = "BinOp"  -> 1 + Max({recursion_depth(e.lhs), recursion_depth(e.rhs)})
    [] OTHER             -> 1 + recursion_depth(e.arg)

-----------------------------------------------------------------------------
(* The meaning of an expression.                                           *)

\* A signed subtraction borrows if the difference does not fit.
PcodeBinOp(op, x, l, y, r) ==
  IF op = "IntSBorrow" THEN Bool(x - y \notin Values(l)) ELSE BvBinOp(op, x, l, y, r)

\* None: the value is undefined, e.g. after a division by zero.
RECURSIVE Evaluate(_, _)
Evaluate(e, regs) ==
  CASE e.kind = "Var"      -> regs[e.var]
    [] e.kind = "Const"    -> e.value
    [] e.kind = "Unknown"  -> None
    [] e.kind = "BinOp"    ->
         LET x == Evaluate(e.lhs, regs)
             y == Evaluate(e.rhs, regs)
         IN  IF None \in {x, y} THEN None
             ELSE PcodeBinOp(e.op, x, bytesize(e.lhs), y, bytesize(e.rhs))
    [] OTHER ->
         LET x == Evaluate(e.arg, regs)
             size == bytesize(e.arg)
         IN  IF x = None THEN None
             ELSE CASE e.kind = "UnOp"     -> BvUnOp(e.op, x, size)
                    [] e.kind = "Cast"     -> BvCast(e.op, x, size, e.size)
                    [] e.kind = "Subpiece" -> BvSubpiece(x, size, e.low_byte, e.size)

-----------------------------------------------------------------------------
(* The rules of trivial_operation_substitution.rs, for the root of a tree. *)

substitute_binop_for_lhs_equal_rhs(e) ==
  IF e.kind # "BinOp" THEN e
  ELSE IF e.lhs # e.rhs THEN e
  ELSE CASE e.op \in {"BoolAnd", "BoolOr", "IntAnd", "IntOr"}             -> e.lhs
         [] e.op \in {"BoolXOr", "IntXOr"}                                -> Const(0, bytesize(e.lhs))
         [] e.op \in {"IntEqual", "IntLessEqual", "IntSLessEqual"}        -> Const(1, 1)
         [] e.op \in {"IntNotEqual", "IntLess", "IntSLess"}               -> Const(0, 1)
         [] OTHER                                                         -> e

\* The operand that is a given constant together with the other one.
ConstAndOther(e, value) ==
  IF IsConst(e.lhs) /\ e.lhs.value = value THEN <<e.lhs, e.rhs>>
  ELSE IF IsConst(e.rhs) /\ e.rhs.value = value THEN <<e.rhs, e.lhs>>
  ELSE <<>>

substitute_and_xor_or_with_constant(e) ==
  IF e.kind # "BinOp" THEN e
  ELSE LET zero == ConstAndOther(e, 0)
           one  == ConstAndOther(e, 1)
           ones == ConstAndOther(e, -1)
       IN  CASE e.op \in {"IntOr", "IntXOr", "BoolOr", "BoolXOr"} /\ zero # <<>> -> zero[2]
             [] e.op \in {"IntAnd", "BoolAnd"} /\ ones # <<>>                    -> ones[2]
             [] e.op = "BoolAnd" /\ ones = <<>> /\ zero # <<>>                   -> zero[1]
             [] e.op = "BoolAnd" /\ ones = <<>> /\ zero = <<>> /\ one # <<>>     -> one[2]
             [] e.op = "BoolOr" /\ zero = <<>> /\ one # <<>>                     -> one[1]
             [] e.op = "BoolXOr" /\ zero = <<>> /\ one # <<>>                    -> UnOp("BoolNegate", one[2])
             [] OTHER                                                            -> e

\* `0 = x - y` is `x = y`.  The code treats a comparison with one as the opposite.
CompareDifference(e) ==
  LET zero == ConstAndOther(e, 0)
      one == ConstAndOther(e, 1)
      found == IF zero # <<>> THEN zero ELSE one
  IN  IF found = <<>> \/ e.op \notin {"IntEqual", "IntNotEqual"} THEN e
      ELSE IF ~IsBinOp(found[2], "IntSub") THEN e
      ELSE BinOp(IF (e.op = "IntEqual") = (found[1].value = 0)
                   THEN "IntEqual" ELSE "IntNotEqual",
                 found[2].lhs, found[2].rhs)

\* <outer, first, second, combined>: the outer operation on the results of two
\* comparisons of the same operands is a single comparison.
CombinedComparisons ==
  {<<"BoolOr",  "IntSLess",      "IntEqual",    "IntSLessEqual">>,
   <<"BoolOr",  "IntLess",       "IntEqual",    "IntLessEqual">>,
   <<"BoolAnd", "IntLessEqual",  "IntNotEqual", "IntLess">>,
   <<"BoolAnd", "IntSLessEqual", "IntNotEqual", "IntSLess">>}

SameOperands(a, b) == <<b.lhs, b.rhs>> \in {<<a.lhs, a.rhs>>, <<a.rhs, a.lhs>>}

CombineComparisons(e) ==
  LET fits == {<<c, p>> \in CombinedComparisons \X {<<e.lhs, e.rhs>>, <<e.rhs, e.lhs>>} :
                 /\ e.op = c[1]
                 /\ IsBinOp(p[1], c[2]) /\ IsBinOp(p[2], c[3])
                 /\ SameOperands(p[1], p[2])}
  IN  IF fits = {} THEN e
      ELSE LET f == CHOOSE f \in fits : TRUE
           IN  BinOp(f[1][4], f[2][1].lhs, f[2][1].rhs)

substitute_equivalent_comparison_ops(e) ==
  IF e.kind # "BinOp" THEN e
  ELSE LET d == CompareDifference(e) IN IF d # e THEN d ELSE CombineComparisons(e)

unpack_a_minus_b_less_than_zero(e) ==
  IF ~IsBinOp(e, "IntSLess") THEN <<>>
  ELSE IF IsConst(e.rhs) /\ e.rhs.value = 0 /\ IsBinOp(e.lhs, "IntSub")
  THEN <<e.lhs.lhs, e.lhs.rhs>> ELSE <<>>

unpack_a_intsborrow_b(e) == IF IsBinOp(e, "IntSBorrow") THEN <<e.lhs, e.rhs>> ELSE <<>>

substitute_complicated_a_less_than_b(e) ==
  IF e.kind # "BinOp" THEN e
  ELSE LET ab == unpack_a_minus_b_less_than_zero(e.lhs)
           matches == \/ ab # <<>> /\ ab = unpack_a_intsborrow_b(e.rhs)
                      \/ /\ unpack_a_intsborrow_b(e.lhs) # <<>>
                         /\ unpack_a_intsborrow_b(e.lhs) = unpack_a_minus_b_less_than_zero(e.rhs)
           a == IF ab # <<>> THEN ab[1] ELSE e.lhs.lhs
           b == IF ab # <<>> THEN ab[2] ELSE e.lhs.rhs
       IN  CASE matches /\ e.op = "IntNotEqual" -> BinOp("IntSLess", a, b)
             [] matches /\ e.op = "IntEqual"    -> BinOp("IntSLessEqual", b, a)
             [] OTHER                           -> e

ConstOp(op, a, b) == Const(BvBinOp(op, a.value, a.size, b.value, b.size), a.size)

substitute_arithmetics_with_constants(e) ==
  IF e.kind # "BinOp" THEN e
  ELSE IF ~IsConst(e.rhs) THEN e
  ELSE CASE IsConst(e.lhs) /\ e.op \in {"IntSub", "IntAdd", "IntRight", "IntLeft"} ->
              ConstOp(e.op, e.lhs, e.rhs)
         [] e.op = "IntSub" /\ IsBinOp(e.lhs, "IntSub") ->
              IF IsConst(e.lhs.rhs)
              THEN BinOp("IntSub", e.lhs.lhs, ConstOp("IntAdd", e.lhs.rhs, e.rhs))
              ELSE e
         [] e.op = "IntAdd" /\ IsBinOp(e.lhs, "IntAdd") ->
              IF IsConst(e.lhs.rhs)
              THEN BinOp("IntAdd", e.lhs.lhs, ConstOp("IntAdd", e.lhs.rhs, e.rhs))
              ELSE IF IsConst(e.lhs.lhs)
              THEN BinOp("IntAdd", e.lhs.rhs, ConstOp("IntAdd", e.lhs.lhs, e.rhs))
              ELSE e
         [] OTHER -> e

substitute_trivial_binops(e) ==
  substitute_arithmetics_with_constants(
    substitute_complicated_a_less_than_b(
      substitute_equivalent_comparison_ops(
        substitute_and_xor_or_with_constant(
          substitute_binop_for_lhs_equal_rhs(e)))))

SubstituteSubpiece(e) ==
  LET arg == e.arg
      Takes(low, part) == e.low_byte = low /\ e.size = bytesize(part)
  IN  CASE Takes(0, arg) -> arg
        [] ~Takes(0, arg) /\ arg.kind = "Cast" ->
             IF arg.op \in {"IntZExt", "IntSExt"} /\ Takes(0, arg.arg) THEN arg.arg ELSE e
        [] ~Takes(0, arg) /\ IsBinOp(arg, "Piece") ->
             IF Takes(bytesize(arg.rhs), arg.lhs) THEN arg.lhs
             ELSE IF Takes(0, arg.rhs) THEN arg.rhs ELSE e
        [] ~Takes(0, arg) /\ arg.kind = "Subpiece" ->
             Subpiece(e.low_byte + arg.low_byte, e.size, arg.arg)
        [] OTHER -> e

SubstituteCast(e) ==
  CASE e.op \notin {"IntZExt", "IntSExt"} -> e
    [] e.op \in {"IntZExt", "IntSExt"} /\ e.size = bytesize(e.arg) -> e.arg
    [] OTHER -> IF e.arg.kind # "Cast" THEN e
                ELSE IF e.arg.op = e.op THEN Cast(e.op, e.size, e.arg.arg) ELSE e

\* `~(x < y)` is `y <= x`; equality and its negation are symmetric.
NegatedComparison(op) ==
  CASE op = "IntEqual"      -> "IntNotEqual"
    [] op = "IntNotEqual"   -> "IntEqual"
    [] op = "IntLess"       -> "IntLessEqual"
    [] op = "IntSLess"      -> "IntSLessEqual"
    [] op = "IntLessEqual"  -> "IntLess"
    [] op = "IntSLessEqual" -> "IntSLess"
    [] OTHER                -> None

SubstituteUnOp(e) ==
  CASE e.arg.kind = "UnOp" ->
         IF e.arg.op = e.op /\ e.op \in {"IntNegate", "BoolNegate", "Int2Comp"}
         THEN e.arg.arg ELSE e
    [] e.arg.kind = "BinOp" ->
         IF e.op = "BoolNegate" /\ NegatedComparison(e.arg.op) # None
         THEN BinOp(NegatedComparison(e.arg.op), e.arg.rhs, e.arg.lhs) ELSE e
    [] OTHER -> e

RECURSIVE substitute_trivial_operations(_)
substitute_trivial_operations(e) ==
  CASE e.kind \in Leaves      -> e
    [] e.kind = "Subpiece"    -> SubstituteSubpiece([e EXCEPT !.arg = substitute_trivial_operations(@)])
    [] e.kind = "Cast"        -> SubstituteCast([e EXCEPT !.arg = substitute_trivial_operations(@)])
    [] e.kind = "UnOp"        -> SubstituteUnOp([e EXCEPT !.arg = substitute_trivial_operations(@)])
    [] e.kind = "BinOp"       ->
         substitute_trivial_binops([e EXCEPT !.lhs = substitute_trivial_operations(@),
                                             !.rhs = substitute_trivial_operations(@)])
=============================================================================
