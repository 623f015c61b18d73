----------------------------- MODULE Bitvector ------------------------------
(***************************************************************************)
(* Bitvectors and the evaluation of IR operations on them                  *)
(* (intermediate_representation/bitvector.rs).                             *)
(*                                                                         *)
(* A bitvector of n bytes is written as the signed integer it stands for;  *)
(* its size is passed along where an operation needs it.  BitsPerByte is   *)
(* eight in the program and smaller in the instances, so that all values   *)
(* of all sizes can be enumerated.  Bitvectors of more than eight bytes,   *)
(* for which the code gives up on multiplication, division and strides,    *)
(* are not modelled, and floating point operations are only represented by *)
(* their failure.                                                          *)
(***************************************************************************)
EXTENDS Integers, FiniteSets, FiniteSetsExt

CONSTANTS
  BitsPerByte,
  None        \* no value: an error, an overflow, an absent option

ASSUME BitsAssumption == BitsPerByte \in Nat \ {0}

Width(size) == BitsPerByte * size
SignedMin(size) == -(2 ^ (Width(size) - 1))
SignedMax(size) == 2 ^ (Width(size) - 1) - 1
Values(size) == SignedMin(size)..SignedMax(size)

\* The low bits of an integer, read as a signed and as an unsigned number.
Wrap(v, size) == ((v + 2 ^ (Width(size) - 1)) % 2 ^ Width(size)) + SignedMin(size)
Unsigned(v, size) == v % 2 ^ Width(size)

\* Division and remainder of Rust and of the machine round towards zero.
Abs(v) == IF v < 0 THEN -v ELSE v
TruncDiv(a, b) == IF (a < 0) = (b < 0) THEN Abs(a) \div Abs(b) ELSE -(Abs(a) \div Abs(b))
TruncRem(a, b) == a - b * TruncDiv(a, b)

Bits(v, size) == {i \in 0..(Width(size) - 1) : (Unsigned(v, size) \div 2 ^ i) % 2 = 1}
FromBits(bits, size) == Wrap(MapThenSumSet(LAMBDA i : 2 ^ i, bits), size)
Bool(b) == IF b THEN 1 ELSE 0

-----------------------------------------------------------------------------

CompareOps ==
  {"IntEqual", "IntNotEqual", "IntLess", "IntLessEqual", "IntSLess", "IntSLessEqual",
   "IntCarry", "IntSCarry", "IntSBorrow"}
BoolOps == {"BoolAnd", "BoolOr", "BoolXOr"}
ShiftOps == {"IntLeft", "IntRight", "IntSRight"}
FloatOps == {"FloatLess", "FloatAdd"}
IntOps ==
  {"IntAdd", "IntSub", "IntMult", "IntDiv", "IntSDiv", "IntRem", "IntSRem",
   "IntAnd", "IntOr", "IntXOr"}
BinOps == {"Piece"} \cup CompareOps \cup BoolOps \cup ShiftOps \cup FloatOps \cup IntOps
UnOps == {"Int2Comp", "IntNegate", "BoolNegate", "FloatNegate", "FloatNaN"}
CastOps == {"IntZExt", "IntSExt", "PopCount", "LzCount", "Trunc"}

\* RegisterDomain::bin_op_bytesize
bin_op_bytesize(op, l, r) ==
  CASE op = "Piece"                                      -> l + r
    [] op \in CompareOps \cup BoolOps \cup {"FloatLess"} -> 1
    [] OTHER                                             -> l

\* The sizes an operation can be applied to.
SizesMatch(op, l, r) ==
  \/ op \in {"Piece"} \cup ShiftOps
  \/ op \in BoolOps /\ l = 1 /\ r = 1
  \/ op \notin {"Piece"} \cup ShiftOps \cup BoolOps /\ l = r

CheckedDiv(y, v) == IF y = 0 THEN None ELSE v

\* A shift by more than the width has shifted everything out.
Shifted(x, size, amount, op) ==
  LET far == amount >= Width(size)
  IN  CASE op = "IntLeft"   -> IF far THEN 0 ELSE Wrap(x * 2 ^ amount, size)
        [] op = "IntRight"  -> IF far THEN 0 ELSE Wrap(Unsigned(x, size) \div 2 ^ amount, size)
        [] op = "IntSRight" -> IF far THEN -Bool(x < 0) ELSE x \div 2 ^ amount

\* BitvectorExtended::bin_op, for operands x of l bytes and y of r bytes.
Concat(x, l, y, r) == Wrap(x * 2 ^ Width(r) + Unsigned(y, r), l + r)

BvBinOp(op, x, l, y, r) ==
  CASE op = "Piece"         -> Concat(x, l, y, r)
    [] op = "IntAdd"        -> Wrap(x + y, l)
    [] op = "IntSub"        -> Wrap(x - y, l)
    [] op = "IntMult"       -> Wrap(x * y, l)
    [] op = "IntCarry"      -> LET sum == Unsigned(x + y, l)
                               IN  Bool(sum < Unsigned(x, l) \/ sum < Unsigned(y, r))
    [] op = "IntSCarry"     -> LET sum == Wrap(x + y, l)
                               IN  Bool(\/ sum < 0 /\ x >= 0 /\ y >= 0
                                        \/ sum >= 0 /\ x < 0 /\ y < 0)
    [] op = "IntSBorrow"    -> LET dif == Wrap(x - y, l)
                               IN  Bool(\/ dif < 0 /\ x < 0 /\ y < 0
                                        \/ dif >= 0 /\ x < 0 /\ y >= 0)
    [] op = "IntDiv"        -> CheckedDiv(y, Wrap(Unsigned(x, l) \div Unsigned(y, r), l))
    [] op = "IntSDiv"       -> CheckedDiv(y, Wrap(TruncDiv(x, y), l))
    [] op = "IntRem"        -> CheckedDiv(y, Wrap(Unsigned(x, l) % Unsigned(y, r), l))
    [] op = "IntSRem"       -> CheckedDiv(y, Wrap(TruncRem(x, y), l))
    [] op \in ShiftOps      -> Shifted(x, l, Unsigned(y, r), op)
    [] op \in {"IntAnd", "BoolAnd"} -> FromBits(Bits(x, l) \cap Bits(y, r), l)
    [] op \in {"IntOr", "BoolOr"}   -> FromBits(Bits(x, l) \cup Bits(y, r), l)
    [] op \in {"IntXOr", "BoolXOr"} ->
         FromBits((Bits(x, l) \cup Bits(y, r)) \ (Bits(x, l) \cap Bits(y, r)), l)
    [] op = "IntEqual"      -> Bool(x = y)
    [] op = "IntNotEqual"   -> Bool(x # y)
    [] op = "IntLess"       -> Bool(Unsigned(x, l) < Unsigned(y, r))
    [] op = "IntLessEqual"  -> Bool(Unsigned(x, l) <= Unsigned(y, r))
    [] op = "IntSLess"      -> Bool(x < y)
    [] op = "IntSLessEqual" -> Bool(x <= y)
    [] op \in FloatOps      -> None

\* BitvectorExtended::un_op.  BoolNegate asserts that its argument is a boolean.
BvUnOp(op, x, size) ==
  CASE op = "Int2Comp"   -> Wrap(-x, size)
    [] op = "IntNegate"  -> -x - 1
    [] op = "BoolNegate" -> Bool(x = 0)
    [] OTHER             -> None

LeadingZeros(v, size) ==
  LET bits == Bits(v, size)
  IN  IF bits = {} THEN Width(size) ELSE Width(size) - 1 - Max(bits)

\* BitvectorExtended::cast
BvCast(op, x, size, width) ==
  CASE op = "IntZExt"  -> Wrap(Unsigned(x, size), width)
    [] op = "IntSExt"  -> x
    [] op = "PopCount" -> Wrap(Cardinality(Bits(x, size)), width)
    [] op = "LzCount"  -> Wrap(LeadingZeros(x, size), width)
    [] OTHER           -> None

\* The casts the program meets: extensions extend, counts fit into their result.
CastFits(op, size, width) ==
  IF op \in {"IntZExt", "IntSExt"} THEN size <= width ELSE Width(size) <= SignedMax(width)

\* BitvectorExtended::subpiece
BvSubpiece(x, size, low_byte, new_size) ==
  Wrap(Unsigned(x, size) \div 2 ^ Width(low_byte), new_size)

\* signed_add_overflow_checked and signed_sub_overflow_checked
AddChecked(x, y, size) ==
  LET sum == Wrap(x + y, size) IN IF (y < 0) = (x <= sum) THEN None ELSE sum
SubChecked(x, y, size) ==
  LET dif == Wrap(x - y, size) IN IF (y < 0) = (x >= dif) THEN None ELSE dif

\* signed_mult_with_overflow_flag: the product is divided again.
MultOverflows(x, y, size) ==
  x # 0 /\ Wrap(TruncDiv(Wrap(x * y, size), x), size) # y
=============================================================================
