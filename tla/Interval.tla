------------------------------ MODULE Interval ------------------------------
(***************************************************************************)
(* Strided intervals of bitvectors (abstract_domain/interval/              *)
(* simple_interval.rs) and the interval domain with its widening hints     *)
(* (abstract_domain/interval.rs and interval/bin_ops.rs).                  *)
(*                                                                         *)
(* i64, u64 and i128 of the code become integers; WordBits is the width of *)
(* u64, which matters where a value is cast to it.                         *)
(***************************************************************************)
EXTENDS Bitvector

CONSTANT WordBits

\* A strided interval, and the interval of one value.
NewInterval(size, start, end, stride) ==
  [size |-> size, start |-> start, end |-> end, stride |-> stride]
IntervalFrom(size, v) == NewInterval(size, v, v, 0)
IntervalTop(size) == NewInterval(size, SignedMin(size), SignedMax(size), 1)
IntervalIsTop(i) == Wrap(i.start - 1, i.size) = i.end /\ i.stride = 1

\* Reference: the values an interval stands for.
Gamma(i) == {v \in i.start..i.end : v = i.start \/ (i.stride > 0 /\ (v - i.start) % i.stride = 0)}

ToU64(v) == v % 2 ^ WordBits
Smaller(a, b) == IF a <= b THEN a ELSE b
Larger(a, b) == IF a >= b THEN a ELSE b
NonNegRem(a, b) == TruncRem(TruncRem(a, b) + b, b)
Gcd[a \in Nat, b \in Nat] == IF b = 0 THEN a ELSE Gcd[b, a % b]
\* The largest power of two that divides a stride.
PowerOfTwo(stride) == Max({2 ^ k : k \in {k \in 0..WordBits : stride % 2 ^ k = 0}})

-----------------------------------------------------------------------------
(* Interval                                                                *)

Adjusted(new) == IF new.start = new.end THEN [new EXCEPT !.stride = 0] ELSE new

adjust_end_to_value_in_stride(i) ==
  LET diff == ToU64(i.end - i.start) % i.stride
  IN  IF i.stride = 0 THEN [i EXCEPT !.end = i.start]
      ELSE IF i.stride = 1 /\ i.start # i.end THEN i
      ELSE Adjusted([i EXCEPT !.end = Wrap(i.end - diff, i.size)])

adjust_start_to_value_in_stride(i) ==
  LET diff == ToU64(i.end - i.start) % i.stride
  IN  IF i.stride = 0 THEN [i EXCEPT !.start = i.end]
      ELSE IF i.stride = 1 /\ i.start # i.end THEN i
      ELSE Adjusted([i EXCEPT !.start = Wrap(i.start + diff, i.size)])

\* Interval::signed_merge
Merged(a, b) ==
  IF a.start > a.end \/ b.start > b.end THEN IntervalTop(a.size)
  ELSE NewInterval(a.size, Smaller(a.start, b.start), Larger(a.end, b.end),
                Gcd[Gcd[a.stride, b.stride], Abs(a.start - b.start)])

\* contains
IntervalContains(i, v) ==
  \/ i.start = v
  \/ /\ i.start <= v /\ v <= i.end
     /\ i.stride > 0
     /\ Unsigned(v - i.start, i.size) % i.stride = 0

adjust_to_stride_and_remainder(i, stride, remainder) ==
  LET start == i.start + NonNegRem(remainder - i.start, stride)
      end == i.end - NonNegRem(i.end - remainder, stride)
      first == Wrap(start, i.size)
      last == Wrap(end, i.size)
  IN  IF start > 2 ^ (WordBits - 1) - 1 \/ end < -(2 ^ (WordBits - 1)) \/ start > end
      THEN None
      ELSE NewInterval(i.size, first, last, IF first = last THEN 0 ELSE stride)

\* extended_gcd: <<gcd, left inverse, right inverse>>.
extended_gcd[a \in Int, b \in Int] ==
  IF a = 0 THEN <<b, 0, 1>>
  ELSE LET r == extended_gcd[TruncRem(b, a), a]
       IN  <<r[1], r[3] - TruncDiv(b, a) * r[2], r[2]>>

\* compute_intersection_residue_class: the stride and the remainder, or a failure
\* (the code distinguishes an empty intersection from an overflow; both make
\* signed_intersect fail).
ResidueClassOfBoth(l, r) ==
  LET egcd == extended_gcd[l.stride, r.stride]
      gcd == egcd[1]
      lcm == (l.stride \div gcd) * r.stride
      residue == TruncRem(TruncDiv(TruncRem(r.start, lcm), gcd) * (egcd[2] * l.stride), lcm)
                 + TruncRem(TruncDiv(TruncRem(l.start, lcm), gcd) * (egcd[3] * r.stride), lcm)
                 + TruncRem(l.start, gcd)
      Class(remainder) ==
        IF /\ lcm <= 2 ^ WordBits - 1
           /\ TruncRem(l.start - remainder, l.stride) = 0
           /\ TruncRem(r.start - remainder, r.stride) = 0
        THEN <<lcm, ToU64(remainder)>>
        ELSE None
  IN  IF TruncRem(l.start, gcd) # TruncRem(r.start, gcd) THEN None
      ELSE Class(TruncRem(residue + lcm, lcm))

compute_intersection_residue_class(l, r) ==
  LET class(one, many) == IF IntervalContains(many, one.start)
                          THEN <<many.stride, NonNegRem(many.start, many.stride)>>
                          ELSE None
  IN  IF l.stride = 0 THEN class(l, r)
      ELSE IF r.stride = 0 THEN class(r, l)
      ELSE ResidueClassOfBoth(l, r)

signed_intersect(a, b) ==
  LET start == Larger(a.start, b.start)
      end == Smaller(a.end, b.end)
      InClass(class) ==
        IF class = None THEN None
        ELSE adjust_to_stride_and_remainder(NewInterval(a.size, start, end, 0), class[1], class[2])
  IN  IF a.stride = 0 /\ b.stride = 0
      THEN IF start = end THEN IntervalFrom(a.size, start) ELSE None
      ELSE InClass(compute_intersection_residue_class(a, b))

\* Interval::zero_extend
ZeroExtended(i, width) ==
  IF i.size = width THEN i
  ELSE IF (i.start < 0) = (i.end < 0)
       THEN NewInterval(width, Unsigned(i.start, i.size), Unsigned(i.end, i.size), i.stride)
       ELSE LET stride == PowerOfTwo(i.stride)
            IN  adjust_to_stride_and_remainder(
                  NewInterval(width, 0, 2 ^ Width(i.size) - 1, stride), stride,
                  NonNegRem(i.start, stride))

\* Interval::subpiece_higher and subpiece_lower
SubpieceHigher(i, low_byte) ==
  LET size == i.size - low_byte
      start == BvSubpiece(i.start, i.size, low_byte, size)
      end == BvSubpiece(i.end, i.size, low_byte, size)
  IN  NewInterval(size, start, end, Bool(start # end))

SubpieceLower(i, size) ==
  LET start == Wrap(i.start, size)
      end == Wrap(i.end, size)
  IN  IF Unsigned(i.end - i.start, i.size) <= 2 ^ Width(size) - 1 /\ start <= end
      THEN NewInterval(size, start, end, i.stride)
      ELSE IntervalTop(size)

\* Interval::piece
PieceStride(a, b) ==
  IF a.stride = 0 THEN b.stride
  ELSE IF b.stride = 0 THEN a.stride * 2 ^ Width(b.size)
  ELSE PowerOfTwo(b.stride)
Pieced(a, b) ==
  LET piece(x, y) == Concat(x, a.size, y, b.size)
      stride == PowerOfTwo(b.stride)
  IN  IF b.start < 0 /\ b.end >= 0
      THEN adjust_to_stride_and_remainder(
             NewInterval(a.size + b.size, piece(a.start, 0), piece(a.end, -1), 1),
             stride, NonNegRem(b.start, stride))
      ELSE NewInterval(a.size + b.size, piece(a.start, b.start), piece(a.end, b.end),
                    PieceStride(a, b))

int_2_comp(i) ==
  IF i.start > SignedMin(i.size) THEN NewInterval(i.size, -i.end, -i.start, i.stride)
  ELSE IntervalTop(i.size)

bitwise_not(i) ==
  IF i.start = i.end THEN IntervalFrom(i.size, BvUnOp("IntNegate", i.start, i.size))
  ELSE IntervalTop(i.size)

\* Interval::add and Interval::sub
BothBounds(size, start, end, stride) ==
  IF start = None \/ end = None THEN IntervalTop(size)
  ELSE NewInterval(size, start, end, stride)

Sum2(a, b) ==
  BothBounds(a.size, AddChecked(a.start, b.start, a.size), AddChecked(a.end, b.end, a.size),
             Gcd[a.stride, b.stride])
Difference(a, b) ==
  BothBounds(a.size, SubChecked(a.start, b.end, a.size), SubChecked(a.end, b.start, a.size),
             Gcd[a.stride, b.stride])

\* Interval::signed_mul
Product(a, b) ==
  LET corners == {a.start, a.end} \X {b.start, b.end}
      products == {Wrap(p[1] * p[2], a.size) : p \in corners}
  IN  IF \E p \in corners : MultOverflows(p[1], p[2], a.size) THEN IntervalTop(a.size)
      ELSE NewInterval(a.size, Min(products), Max(products), Gcd[a.stride, b.stride])

-----------------------------------------------------------------------------
(* IntervalDomain                                                          *)

Domain(i, lower, upper, delay) ==
  [interval |-> i, lower |-> lower, upper |-> upper, delay |-> delay]
DomainFrom(i) == Domain(i, None, None, 0)
DomainTop(size) == DomainFrom(IntervalTop(size))
is_top(d) == IntervalIsTop(d.interval)
bytesize(d) == d.interval.size
IsConstant(d) == d.interval.start = d.interval.end
\* The length of an interval as u64.
Length(i) == Unsigned(i.end - i.start, i.size)

\* StrideRounding: the next value of the residue class of the interval.
round_up_to_stride_of(v, i) ==
  IF i.stride = 0 THEN v ELSE AddChecked(v, NonNegRem(i.start - v, i.stride), i.size)
round_down_to_stride_of(v, i) ==
  IF i.stride = 0 THEN v ELSE SubChecked(v, NonNegRem(v - i.end, i.stride), i.size)

\* A bound is only taken if it lies outside of the interval and is closer to it.
update_widening_lower_bound(d, bound) ==
  LET b == IF bound = None THEN None ELSE round_up_to_stride_of(bound, d.interval)
  IN  IF b # None /\ b < d.interval.start /\ (d.lower = None \/ b > d.lower)
      THEN [d EXCEPT !.lower = b] ELSE d

update_widening_upper_bound(d, bound) ==
  LET b == IF bound = None THEN None ELSE round_down_to_stride_of(bound, d.interval)
  IN  IF b # None /\ b > d.interval.end /\ (d.upper = None \/ b < d.upper)
      THEN [d EXCEPT !.upper = b] ELSE d

\* The four candidates for the bounds of a value computed from two others.
WithBounds(d, lower1, lower2, upper1, upper2) ==
  update_widening_upper_bound(update_widening_upper_bound(
    update_widening_lower_bound(update_widening_lower_bound(d, lower1), lower2), upper1), upper2)

signed_merge(a, b) ==
  WithBounds(Domain(Merged(a.interval, b.interval), None, None, Larger(a.delay, b.delay)),
             a.lower, b.lower, a.upper, b.upper)

\* Widening, in the direction that has a bound and in which the inputs differ.
WidenedDown(m) ==
  [m EXCEPT !.interval = adjust_start_to_value_in_stride([m.interval EXCEPT !.start = m.lower]),
            !.lower = None]

WidenedUp(m) ==
  [m EXCEPT !.interval = adjust_end_to_value_in_stride([m.interval EXCEPT !.end = m.upper]),
            !.upper = None]

\* Mutant: the widening threshold is missing.
MergeWithoutWidening(a, b) == signed_merge(a, b)

Delayed(d) == [d EXCEPT !.delay = Length(d.interval)]

\* The widening of the merge result m of a and b.
Widened(a, b, m) ==
  LET threshold == ToU64(m.delay + Larger(1, m.interval.stride))
      down == a.interval.start # b.interval.start /\ m.lower # None
      up == a.interval.end # b.interval.end /\ m.upper # None
      Lowered(d) == IF down THEN WidenedDown(d) ELSE d
      Raised(d) == IF up THEN WidenedUp(d) ELSE d
  IN  IF \/ m.interval \in {a.interval, b.interval}
         \/ is_top(m)
         \/ Length(m.interval) <= threshold
      THEN m
      ELSE IF down \/ up THEN Delayed(Raised(Lowered(m)))
      ELSE DomainTop(bytesize(m))

signed_merge_and_widen(a, b) == Widened(a, b, signed_merge(a, b))

\* IntervalDomain::zero_extend and sign_extend
zero_extend(d, width) ==
  LET i == d.interval
      kept(bound, end) == IF /\ bound # None
                             /\ (bound < 0) = (end < 0)
                             /\ (i.start < 0) = (i.end < 0)
                          THEN Wrap(Unsigned(bound, i.size), width) ELSE None
  IN  Domain(ZeroExtended(i, width), kept(d.lower, i.start), kept(d.upper, i.end), d.delay)
sign_extend(d, width) == [d EXCEPT !.interval.size = width]

\* The hints of a part of a value: only kept if they still lie outside.
subpiece_higher(d, low_byte) ==
  LET i == SubpieceHigher(d.interval, low_byte)
      part(bound) == BvSubpiece(bound, bytesize(d), low_byte, i.size)
  IN  Domain(i,
        IF d.lower # None /\ part(d.lower) < i.start THEN part(d.lower) ELSE None,
        IF d.upper # None /\ part(d.upper) > i.end THEN part(d.upper) ELSE None,
        d.delay \div 2 ^ Width(low_byte))
subpiece_lower(d, size) ==
  LET i == SubpieceLower(d.interval, size)
      near(distance) == Unsigned(distance, bytesize(d)) < 2 ^ Width(size) - 1
  IN  Domain(i,
        IF /\ d.lower # None
           /\ near(d.interval.start - d.lower) /\ Wrap(d.lower, size) < i.start
        THEN Wrap(d.lower, size) ELSE None,
        IF /\ d.upper # None
           /\ near(d.upper - d.interval.end) /\ Wrap(d.upper, size) > i.end
        THEN Wrap(d.upper, size) ELSE None,
        d.delay)
subpiece(d, low_byte, size) ==
  LET high == IF low_byte # 0 THEN subpiece_higher(d, low_byte) ELSE d
  IN  IF bytesize(high) > size THEN subpiece_lower(high, size) ELSE high

\* IntervalDomain::piece keeps the hints if the upper part is a constant.
piece(a, b) ==
  LET i == Pieced(a.interval, b.interval)
      with(bound) == Concat(a.interval.start, bytesize(a), bound, bytesize(b))
  IN  IF ~IsConstant(a) THEN DomainFrom(i)
      ELSE Domain(i,
             IF b.lower # None /\ with(b.lower) < i.start THEN with(b.lower) ELSE None,
             IF b.upper # None /\ with(b.upper) > i.end THEN with(b.upper) ELSE None,
             b.delay)

-----------------------------------------------------------------------------
(* SpecializeByConditional: restrictions learned from branch conditions.   *)


add_signed_less_equal_bound(d, bound) ==
  LET b == round_down_to_stride_of(bound, d.interval)
      cut == [d EXCEPT !.upper = None,
                       !.interval = adjust_end_to_value_in_stride([@ EXCEPT !.end = b])]
  IN  IF b = None THEN None
      ELSE IF d.upper # None /\ d.upper <= b THEN d
      ELSE IF d.interval.end < b THEN [d EXCEPT !.upper = b]
      ELSE IF d.interval.start <= b THEN cut ELSE None

add_signed_greater_equal_bound(d, bound) ==
  LET b == round_up_to_stride_of(bound, d.interval)
      cut == [d EXCEPT !.lower = None,
                       !.interval = adjust_start_to_value_in_stride([@ EXCEPT !.start = b])]
  IN  IF b = None THEN None
      ELSE IF d.lower # None /\ d.lower >= b THEN d
      ELSE IF d.interval.start > b THEN [d EXCEPT !.lower = b]
      ELSE IF d.interval.end >= b THEN cut ELSE None

add_unsigned_less_equal_bound(d, bound) ==
  IF bound < 0
  THEN IF d.interval.end < 0 THEN add_signed_less_equal_bound(d, bound)
       ELSE IF d.interval.start < 0 THEN d
       ELSE add_signed_greater_equal_bound(d, 0)
  ELSE LET nonneg == add_signed_greater_equal_bound(d, 0)
       IN  IF nonneg = None THEN None ELSE add_signed_less_equal_bound(nonneg, bound)

add_unsigned_greater_equal_bound(d, bound) ==
  LET negative == add_signed_less_equal_bound(d, -1)
  IN  IF bound < 0
      THEN IF negative = None THEN None ELSE add_signed_greater_equal_bound(negative, bound)
      ELSE IF d.interval.end < bound THEN negative
      ELSE IF d.interval.start < 0 THEN d
      ELSE add_signed_greater_equal_bound(d, bound)

add_not_equal_bound(d, bound) ==
  LET size == bytesize(d)
  IN  IF IsConstant(d) /\ d.interval.start = bound THEN None
      ELSE IF d.interval.start > bound
           THEN add_signed_greater_equal_bound(d, Wrap(bound + 1, size))
      ELSE IF d.interval.start = bound
           THEN [d EXCEPT !.interval = adjust_start_to_value_in_stride([@ EXCEPT !.start = @ + 1])]
      ELSE IF d.interval.end < bound
           THEN add_signed_less_equal_bound(d, Wrap(bound - 1, size))
      ELSE IF d.interval.end = bound
           THEN [d EXCEPT !.interval = adjust_end_to_value_in_stride([@ EXCEPT !.end = @ - 1])]
      ELSE d

intersect(a, b) ==
  LET WithHints(i) ==
        IF i = None THEN None
        ELSE [WithBounds(DomainFrom(i), a.lower, b.lower, a.upper, b.upper) EXCEPT
                !.delay = Smaller(Larger(a.delay, b.delay), Length(i))]
  IN  WithHints(signed_intersect(a.interval, b.interval))

without_widening_hints(d) == DomainFrom(d.interval)

-----------------------------------------------------------------------------
(* RegisterDomain                                                          *)

\* The hints of a sum, a difference and a product.
OptAdd(x, y, size) == IF x = None THEN None ELSE AddChecked(x, y, size)
OptSub(x, y, size) == IF x = None \/ y = None THEN None ELSE SubChecked(x, y, size)
add(a, b) ==
  LET i == Sum2(a.interval, b.interval)
      size == bytesize(a)
  IN  IF IntervalIsTop(i) THEN DomainFrom(i)
      ELSE WithBounds(Domain(i, None, None, Larger(a.delay, b.delay)),
             OptAdd(a.lower, b.interval.start, size), OptAdd(b.lower, a.interval.start, size),
             OptAdd(a.upper, b.interval.end, size), OptAdd(b.upper, a.interval.end, size))
sub(a, b) ==
  LET i == Difference(a.interval, b.interval)
      size == bytesize(a)
  IN  IF IntervalIsTop(i) THEN DomainFrom(i)
      ELSE WithBounds(Domain(i, None, None, Larger(a.delay, b.delay)),
             OptSub(a.lower, b.interval.end, size), OptSub(a.interval.start, b.upper, size),
             OptSub(a.upper, b.interval.start, size), OptSub(a.interval.end, b.lower, size))
signed_mul(a, b) ==
  LET i == Product(a.interval, b.interval)
      size == bytesize(a)
      bounds == {Wrap(p[1] * p[2], size) : p \in
                   {p \in ({a.lower, a.upper} \ {None}) \X ({b.lower, b.upper} \ {None}) :
                      ~MultOverflows(p[1], p[2], size)}}
      below == {b1 \in bounds : b1 < i.start}
      above == {b1 \in bounds : b1 > i.end}
  IN  IF IntervalIsTop(i) THEN DomainFrom(i)
      ELSE Domain(i, IF below = {} THEN None ELSE Max(below),
                  IF above = {} THEN None ELSE Min(above), Larger(a.delay, b.delay))
shift_left(a, b) ==
  LET size == bytesize(a)
      amount == Unsigned(b.interval.start, bytesize(b))
  IN  IF ~IsConstant(b) THEN DomainTop(size)
      ELSE IF amount < Width(size)
           THEN signed_mul(a, DomainFrom(IntervalFrom(size, Wrap(2 ^ amount, size))))
           ELSE DomainFrom(IntervalFrom(size, 0))

\* All other operations are only computed for constants.
Folded(op, a, b) ==
  LET size == bin_op_bytesize(op, bytesize(a), bytesize(b))
      v == BvBinOp(op, a.interval.start, bytesize(a), b.interval.start, bytesize(b))
  IN  Domain(IF IsConstant(a) /\ IsConstant(b) /\ v # None
             THEN IntervalFrom(size, v) ELSE IntervalTop(size),
             None, None, Larger(a.delay, b.delay))

bin_op(op, a, b) ==
  CASE op = "Piece"   -> piece(a, b)
    [] op = "IntAdd"  -> add(a, b)
    [] op = "IntSub"  -> sub(a, b)
    [] op = "IntMult" -> signed_mul(a, b)
    [] op = "IntLeft" -> shift_left(a, b)
    [] OTHER          -> Folded(op, a, b)

un_op(op, d) ==
  LET size == bytesize(d)
  IN  CASE op = "Int2Comp" ->
             Domain(int_2_comp(d.interval),
                    IF d.upper = None THEN None ELSE Wrap(-d.upper, size),
                    IF d.lower = None \/ d.lower = SignedMin(size) THEN None ELSE -d.lower,
                    d.delay)
        [] op = "IntNegate" -> Domain(bitwise_not(d.interval), None, None, d.delay)
        [] op = "BoolNegate" ->
             IF IsConstant(d) THEN DomainFrom(IntervalFrom(1, Bool(d.interval.start = 0)))
             ELSE DomainTop(size)
        [] op = "FloatNaN" -> DomainTop(1)
        [] OTHER -> DomainTop(size)

\* Counting bits: exact for constants and, for leading zeros, for intervals.
CountRange(low, high, width) ==
  DomainFrom(adjust_end_to_value_in_stride(NewInterval(width, low, high, 1)))
cast(op, d, width) ==
  LET size == bytesize(d)
      i == d.interval
      lz(v) == LeadingZeros(v, size)
      anything == CountRange(0, Width(size), width)
  IN  CASE op = "IntZExt" -> IF size = width THEN d ELSE zero_extend(d, width)
        [] op = "IntSExt" -> sign_extend(d, width)
        [] op = "PopCount" ->
             IF IsConstant(d) THEN DomainFrom(IntervalFrom(width, BvCast(op, i.start, size, width)))
             ELSE anything
        [] op = "LzCount" ->
             IF ~is_top(d) /\ lz(i.start) >= lz(i.end)
             THEN CountRange(lz(i.end), lz(i.start), width) ELSE anything
        [] OTHER -> DomainTop(width)
=============================================================================
