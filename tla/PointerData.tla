----------------------------- MODULE PointerData ----------------------------
(***************************************************************************)
(* DataDomain over intervals (abstract_domain/data.rs and data/): a value  *)
(* is a set of pointers (each a base identifier with an interval of        *)
(* offsets), an interval of absolute values, and a flag for values nothing *)
(* is known about.  Also the domain of single bitvectors                   *)
(* (abstract_domain/bitvector.rs).                                         *)
(*                                                                         *)
(* The state machine applies the operations of the domain one after the    *)
(* other to one register.  collected is the set of concrete values the     *)
(* register can have after the same operations: a concrete value is tagged *)
(* with the object it points to, or with Absolute.  Where the code is not  *)
(* sound, by its own comments or not, the step is taken all the same and   *)
(* recorded in caveats.                                                    *)
(***************************************************************************)
EXTENDS Interval

CONSTANTS
  Ids, Absolute,
  Base,           \* the address of each object; 0 for Absolute
  MaxSize,        \* the largest value in bytes
  Registers,      \* the values the register may start with
  Operands,       \* the second operands
  LoopOperands,   \* the values merged into the register of a loop
  ReplacementMaps,
  MaxOps          \* the length of the operation sequence

ASSUME BaseAssumption == DOMAIN Base = Ids \cup {Absolute} /\ Base[Absolute] = 0

-----------------------------------------------------------------------------
(* Values                                                                  *)

Data(size, rel, abs, top) ==
  [size |-> size, relative_values |-> rel, absolute_value |-> abs, contains_top_values |-> top]
NoTargets == [id \in {} |-> None]
new_empty(size) == Data(size, NoTargets, None, FALSE)
new_top(size) == Data(size, NoTargets, None, TRUE)
DataFrom(d) == Data(bytesize(d), NoTargets, d, FALSE)
from_target(id, offset) == Data(bytesize(offset), [i \in {id} |-> offset], None, FALSE)

referenced_ids(d) == DOMAIN d.relative_values
is_empty(d) == referenced_ids(d) = {} /\ d.absolute_value = None /\ ~d.contains_top_values
get_if_absolute_value(d) ==
  IF referenced_ids(d) = {} /\ ~d.contains_top_values THEN d.absolute_value ELSE None
get_if_absolute_value_or_top(d) == IF referenced_ids(d) = {} THEN d.absolute_value ELSE None
get_if_unique_target(d) ==
  IF Cardinality(referenced_ids(d)) = 1 /\ d.absolute_value = None /\ ~d.contains_top_values
  THEN CHOOSE id \in referenced_ids(d) : TRUE ELSE None

\* DataDomain::merge
DataMerge(a, b) ==
  Data(a.size,
       [id \in referenced_ids(a) \cup referenced_ids(b) |->
          IF id \notin referenced_ids(b) THEN a.relative_values[id]
          ELSE IF id \notin referenced_ids(a) THEN b.relative_values[id]
          ELSE signed_merge_and_widen(a.relative_values[id], b.relative_values[id])],
       IF a.absolute_value = None THEN b.absolute_value
       ELSE IF b.absolute_value = None THEN a.absolute_value
       ELSE signed_merge_and_widen(a.absolute_value, b.absolute_value),
       a.contains_top_values \/ b.contains_top_values)

\* add_offset and subtract_offset
Offset(op, d, offset) ==
  LET Moved(v) == IF op = "IntAdd" THEN add(v, offset) ELSE sub(v, offset)
  IN  [d EXCEPT !.relative_values = [id \in referenced_ids(d) |-> Moved(@[id])],
                !.absolute_value = IF @ = None THEN None ELSE Moved(@)]

WithTop(d, flag) == [d EXCEPT !.contains_top_values = @ \/ flag]

preserve_relative_targets_for_binop(a, b) ==
  IF is_empty(a) \/ is_empty(b) THEN new_empty(a.size)
  ELSE Data(a.size,
            [id \in referenced_ids(a) \cup referenced_ids(b) |-> DomainTop(a.size)],
            DomainTop(a.size), a.contains_top_values \/ b.contains_top_values)

compute_add(a, b) ==
  LET left == get_if_absolute_value_or_top(a)
      right == get_if_absolute_value_or_top(b)
  IN  IF left # None THEN WithTop(Offset("IntAdd", b, left), a.contains_top_values)
      ELSE IF right # None THEN WithTop(Offset("IntAdd", a, right), b.contains_top_values)
      ELSE preserve_relative_targets_for_binop(a, b)

\* compute_sub_if_offset_through_pointer_subtraction, for two unique targets.
PointerDifference(a, l, b, r) ==
  IF l = r THEN DataFrom(sub(a.relative_values[l], b.relative_values[r]))
  ELSE Data(a.size, [id \in {l, r} |-> DomainTop(a.size)], DomainTop(a.size), FALSE)

compute_sub(a, b) ==
  LET offset == IF b.absolute_value = None THEN DomainTop(a.size) ELSE b.absolute_value
      l == get_if_unique_target(a)
      r == get_if_unique_target(b)
  IN  IF is_empty(a) \/ is_empty(b) THEN new_empty(a.size)
      ELSE IF referenced_ids(b) = {}
           THEN WithTop(Offset("IntSub", a, offset), b.contains_top_values)
      ELSE IF l # None /\ r # None THEN PointerDifference(a, l, b, r)
      ELSE preserve_relative_targets_for_binop(a, b)

\* DataDomain::bin_op
DataBinOp(op, a, b) ==
  LET left == get_if_absolute_value(a)
      right == get_if_absolute_value(b)
      empty == is_empty(a) \/ is_empty(b)
      size == bin_op_bytesize(op, a.size, b.size)
  IN  IF left # None /\ right # None THEN DataFrom(bin_op(op, left, right))
      ELSE CASE op = "IntAdd" -> compute_add(a, b)
             [] op = "IntSub" -> compute_sub(a, b)
             [] op \in {"IntAnd", "IntOr", "IntXOr"} -> preserve_relative_targets_for_binop(a, b)
             [] op \in CompareOps \cup BoolOps \cup {"FloatLess"} ->
                  IF empty THEN new_empty(1) ELSE DataFrom(DomainTop(1))
             [] OTHER -> IF empty THEN new_empty(size) ELSE new_top(size)

\* Everything else forgets the pointers and goes through to the absolute value.
ThroughAbsolute(d, size, abs) ==
  Data(size, NoTargets, IF d.absolute_value = None THEN None ELSE abs,
       d.contains_top_values \/ referenced_ids(d) # {})
DataUnOp(op, d) ==
  ThroughAbsolute(d, IF op \in {"BoolNegate", "FloatNaN"} THEN 1 ELSE d.size,
                  un_op(op, d.absolute_value))
DataSubpiece(d, low_byte, size) ==
  IF low_byte = 0 /\ size = d.size THEN d
  ELSE ThroughAbsolute(d, size, subpiece(d.absolute_value, low_byte, size))
DataCast(op, d, width) == ThroughAbsolute(d, width, cast(op, d.absolute_value, width))

replace_all_ids(d, m) ==
  LET known == referenced_ids(d) \cap DOMAIN m
      start == Data(d.size, NoTargets, d.absolute_value,
                    d.contains_top_values \/ referenced_ids(d) # known)
      step(id, acc) == DataMerge(acc, DataBinOp("IntAdd", m[id], DataFrom(d.relative_values[id])))
  IN  FoldSet(step, start, known)

remove_ids(d, ids) ==
  [d EXCEPT !.relative_values = [id \in referenced_ids(d) \ ids |-> @[id]]]

-----------------------------------------------------------------------------
(* Restrictions.  Bounds only concern the absolute value.                  *)

Bounded(kind, v, bound) ==
  CASE kind = "SLessEqual"    -> add_signed_less_equal_bound(v, bound)
    [] kind = "SGreaterEqual" -> add_signed_greater_equal_bound(v, bound)
    [] kind = "LessEqual"     -> add_unsigned_less_equal_bound(v, bound)
    [] kind = "GreaterEqual"  -> add_unsigned_greater_equal_bound(v, bound)
    [] kind = "NotEqual"      -> add_not_equal_bound(v, bound)
BoundKinds == {"SLessEqual", "SGreaterEqual", "LessEqual", "GreaterEqual", "NotEqual"}

NonEmpty(d) == IF is_empty(d) THEN None ELSE d

DataBounded(kind, d, bound) ==
  NonEmpty([d EXCEPT !.absolute_value = IF @ = None THEN None ELSE Bounded(kind, @, bound)])

intersect_relative_values(a, b) ==
  LET Common(m) == Restrict(m, {id \in DOMAIN m : m[id] # None})
  IN  Common([id \in referenced_ids(a) \cap referenced_ids(b) |->
                intersect(a.relative_values[id], b.relative_values[id])])

\* DataDomain::intersect
DataIntersect(a, b) ==
  LET fieldwise == Data(a.size, intersect_relative_values(a, b),
                        IF a.absolute_value = None \/ b.absolute_value = None THEN None
                        ELSE intersect(a.absolute_value, b.absolute_value),
                        a.contains_top_values /\ b.contains_top_values)
      start == IF a.contains_top_values = b.contains_top_values THEN fieldwise
               ELSE IF a.contains_top_values THEN b ELSE a
      \* A pointer of one and an absolute value of the other may be the same.
      With(d, pointers, absolute) ==
        IF referenced_ids(pointers) # {} /\ absolute.absolute_value # None
        THEN DataMerge(d, DataFrom(absolute.absolute_value)) ELSE d
  IN  NonEmpty(With(With(start, a, b), b, a))

DataWithoutHints(d) ==
  [d EXCEPT
     !.relative_values = [id \in referenced_ids(d) |-> without_widening_hints(@[id])],
     !.absolute_value = IF @ = None THEN None ELSE without_widening_hints(@)]

-----------------------------------------------------------------------------
(* BitvectorDomain: one value or Top, which is written as None.            *)

BitvectorMerge(a, b) == IF a = b THEN a ELSE None
BitvectorBinOp(op, a, l, b, r) == IF a = None \/ b = None THEN None ELSE BvBinOp(op, a, l, b, r)
BitvectorUnOp(op, a, size) == IF a = None THEN None ELSE BvUnOp(op, a, size)
BitvectorSubpiece(a, size, low_byte, new_size) ==
  IF a = None THEN None ELSE BvSubpiece(a, size, low_byte, new_size)
BitvectorCast(op, a, size, width) == IF a = None THEN None ELSE BvCast(op, a, size, width)

-----------------------------------------------------------------------------
(* Concrete values                                                         *)

Everything(size) == (Ids \cup {Absolute}) \X Values(size)
Tagged(kind, d) == IF d = None THEN {} ELSE {kind} \X Gamma(d.interval)
Represented(d) ==
  IF d.contains_top_values THEN Everything(d.size)
  ELSE Tagged(Absolute, d.absolute_value)
       \cup UNION {Tagged(id, d.relative_values[id]) : id \in referenced_ids(d)}

\* The machine word behind a tagged value.
Word(c, size) == Wrap(Base[c[1]] + c[2], size)

ConcreteBinOp(op, x, l, y, r) ==
  LET v == BvBinOp(op, Word(x, l), l, Word(y, r), r)
  IN  CASE op = "IntAdd" /\ y[1] = Absolute -> <<x[1], Wrap(x[2] + y[2], l)>>
        [] op = "IntAdd" /\ y[1] # Absolute /\ x[1] = Absolute -> <<y[1], Wrap(x[2] + y[2], l)>>
        [] op = "IntSub" /\ y[1] = Absolute -> <<x[1], Wrap(x[2] - y[2], l)>>
        [] OTHER -> <<Absolute, v>>

Satisfies(kind, v, bound, size) ==
  CASE kind = "SLessEqual"    -> v <= bound
    [] kind = "SGreaterEqual" -> v >= bound
    [] kind = "LessEqual"     -> Unsigned(v, size) <= Unsigned(bound, size)
    [] kind = "GreaterEqual"  -> Unsigned(v, size) >= Unsigned(bound, size)
    [] kind = "NotEqual"      -> v # bound

-----------------------------------------------------------------------------
(* The register                                                            *)

VARIABLES
  value,      \* its DataDomain value; None after a restriction no value satisfies
  exact,      \* its BitvectorDomain value
  collected,  \* the concrete values it can have
  looping,    \* whether the register is only merged, again and again, by a fixpoint computation
  ops,        \* how many operations were applied
  grown,      \* how often merging changed the set of absolute values in the loop
  caveats     \* not in the code: the known limits of it that operations ran into

vars == <<value, exact, collected, looping, ops, grown, caveats>>

\* The BitvectorDomain value of an operand.
ExactOf(d) ==
  LET words == {Word(c, d.size) : c \in Represented(d)}
  IN  IF Cardinality(words) = 1 THEN CHOOSE w \in words : TRUE ELSE None

Init ==
  /\ value \in Registers
  /\ exact = ExactOf(value)
  /\ collected = Represented(value)
  /\ looping \in BOOLEAN
  /\ ops = 0
  /\ grown = 0
  /\ caveats = {}

OperationWith(limits) ==
  /\ value # None
  /\ ~looping
  /\ ops < MaxOps
  /\ ops' = ops + 1
  /\ caveats' = caveats \cup limits
  /\ UNCHANGED <<looping, grown>>
Operation == OperationWith({})

\* The overflow of -1 times the smallest number goes unnoticed: the product,
\* divided by -1, is the smallest number again.  The product of zero and
\* several values is zero with a stride.
Corners(d) == IF d = None THEN {} ELSE {d.interval.start, d.interval.end}
UnnoticedOverflow(op, a, b) ==
  LET smallest == CASE op = "IntMult" -> SignedMin(b.size)
                    [] op = "IntLeft" -> Width(a.size) - 1
                    [] OTHER          -> None
  IN  -1 \in Corners(a.absolute_value) /\ smallest \in Corners(b.absolute_value)
ZeroWithStride(op, a, b) ==
  op = "IntMult" /\ {0} \in {Corners(a.absolute_value), Corners(b.absolute_value)}
ProductLimits(op, a, b) ==
  {limit \in {"Overflow", "ZeroProduct"} :
     IF limit = "Overflow" THEN UnnoticedOverflow(op, a, b) ELSE ZeroWithStride(op, a, b)}

BinOp(op, b) ==
  /\ OperationWith(ProductLimits(op, value, b))
  /\ SizesMatch(op, value.size, b.size)
  /\ bin_op_bytesize(op, value.size, b.size) <= MaxSize
  /\ value' = DataBinOp(op, value, b)
  /\ exact' = BitvectorBinOp(op, exact, value.size, ExactOf(b), b.size)
  /\ collected' = {c \in {ConcreteBinOp(op, x, value.size, y, b.size) :
                            x \in collected, y \in Represented(b)} : c[2] # None}

\* Applied to a boolean only: the evaluation asserts it.
UnOp(op) ==
  /\ Operation
  /\ op = "BoolNegate" =>
       value.size = 1 /\ \A c \in collected : Word(c, 1) \in {0, 1}
  /\ value' = DataUnOp(op, value)
  /\ exact' = BitvectorUnOp(op, exact, value.size)
  /\ collected' = {c \in {<<Absolute, BvUnOp(op, Word(x, value.size), value.size)>> :
                            x \in collected} : c[2] # None}

Subpiece(low_byte, size) ==
  /\ Operation
  /\ low_byte + size <= value.size
  /\ value' = DataSubpiece(value, low_byte, size)
  /\ exact' = BitvectorSubpiece(exact, value.size, low_byte, size)
  /\ collected' = IF low_byte = 0 /\ size = value.size THEN collected
                  ELSE {<<Absolute, BvSubpiece(Word(x, value.size), value.size, low_byte, size)>> :
                          x \in collected}

Cast(op, width) ==
  /\ Operation
  /\ CastFits(op, value.size, width)
  /\ value' = DataCast(op, value, width)
  /\ exact' = BitvectorCast(op, exact, value.size, width)
  /\ collected' = {c \in {<<Absolute, BvCast(op, Word(x, value.size), value.size, width)>> :
                            x \in collected} : c[2] # None}

RestrictTo(kind, bound) ==
  /\ Operation
  /\ bound \in Values(value.size)
  /\ value' = DataBounded(kind, value, bound)
  /\ collected' = {x \in collected : Satisfies(kind, Word(x, value.size), bound, value.size)}
  /\ UNCHANGED exact

\* Two pointers to different objects with the same machine word.
SameWord(x, y, size) == x[1] # y[1] /\ Word(x, size) = Word(y, size)
Aliases(xs, ys, size) ==
  \E x \in xs \ ys, y \in ys : SameWord(x, y, size) /\ Absolute \notin {x[1], y[1]}

\* For two strides, not both one, the code compares and combines remainders of
\* the starts, which are negative for a negative start.
NegativeRemainders(a, b) ==
  LET Below(x, y) ==
        LET l == x.interval
            r == y.interval
        IN  /\ l.stride > 0 /\ r.stride > 0 /\ {l.stride, r.stride} # {1}
            /\ l.start < 0 \/ r.start < 0
  IN  \/ a.absolute_value # None /\ b.absolute_value # None /\ Below(a.absolute_value, b.absolute_value)
      \/ \E id \in referenced_ids(a) \cap referenced_ids(b) :
           Below(a.relative_values[id], b.relative_values[id])
IntersectLimits(a, xs, b) ==
  {limit \in {"Aliases", "Remainders"} :
     IF limit = "Aliases" THEN ~a.contains_top_values /\ Aliases(xs, Represented(b), a.size)
     ELSE NegativeRemainders(a, b)}

\* The machine words that both values have.  A word that is a pointer in the
\* one and an absolute value in the other is an absolute value from then on, one
\* of unknown origin is what the other value says it is.
CommonWords(a, xs, b) ==
  LET Same(x) == {y \in Represented(b) : SameWord(x, y, a.size)}
      Seen(x) == IF a.contains_top_values THEN Same(x)
                 ELSE IF Absolute \in {z[1] : z \in {x} \cup Same(x)} THEN {<<Absolute, Word(x, a.size)>>}
                 ELSE {x}
  IN  (xs \cap Represented(b))
      \cup UNION {Seen(x) : x \in {x \in xs \ Represented(b) : Same(x) # {}}}

Intersect(b) ==
  /\ OperationWith(IntersectLimits(value, collected, b))
  /\ value.size = b.size
  /\ value' = DataIntersect(value, b)
  /\ collected' = CommonWords(value, collected, b)
  /\ UNCHANGED exact

\* A pointer to a replaced identifier becomes what the map says it is.
ReplaceIds(m) ==
  /\ Operation
  /\ value.size = 1
  /\ value' = replace_all_ids(value, m)
  /\ exact' = None
  /\ collected' =
       {x \in collected : x[1] \notin DOMAIN m}
       \cup UNION {{<<y[1], Wrap(x[2] + y[2], 1)>> : y \in Represented(m[x[1]])} :
                     x \in {x \in collected : x[1] \in DOMAIN m}}

\* Only done for identifiers the value cannot point to any more.
RemoveIds(ids) ==
  /\ Operation
  /\ value' = remove_ids(value, ids)
  /\ collected' = {x \in collected : x[1] \notin ids}
  /\ UNCHANGED exact

ForgetHints ==
  /\ Operation
  /\ value' = DataWithoutHints(value)
  /\ UNCHANGED <<exact, collected>>

AbsoluteSet(d) == IF d.absolute_value = None THEN None ELSE d.absolute_value.interval

MergeWith(b, before) ==
  /\ value.size = b.size
  /\ value' = DataMerge(value, b)
  /\ exact' = BitvectorMerge(exact, ExactOf(b))
  /\ collected' = before \cup Represented(b)

Merge(b) == Operation /\ MergeWith(b, collected)

\* In a loop the register can have all values that were represented before.
\* A value that contains all of the register's is taken over without widening.
MergeInLoop(b) ==
  /\ looping
  /\ MergeWith(b, Represented(value))
  /\ grown' = IF AbsoluteSet(value') \in {AbsoluteSet(value), AbsoluteSet(b)} THEN grown ELSE grown + 1
  /\ UNCHANGED <<looping, ops, caveats>>

Done == UNCHANGED vars

Next ==
  \/ \E b \in Operands : Merge(b) \/ Intersect(b) \/ \E op \in BinOps : BinOp(op, b)
  \/ \E b \in LoopOperands : MergeInLoop(b)
  \/ \E op \in UnOps : UnOp(op)
  \/ \E low_byte \in 0..(MaxSize - 1), size \in 1..MaxSize : Subpiece(low_byte, size)
  \/ \E op \in CastOps, width \in 1..MaxSize : Cast(op, width)
  \/ \E kind \in BoundKinds, bound \in Values(1) : RestrictTo(kind, bound)
  \/ \E m \in ReplacementMaps : ReplaceIds(m)
  \/ \E ids \in SUBSET Ids : RemoveIds(ids)
  \/ ForgetHints
  \/ Done

Spec == Init /\ [][Next]_vars

-----------------------------------------------------------------------------

\* The invariants of simple_interval.rs:8-14.
WellFormed(d) ==
  LET i == d.interval
  IN  /\ i.size \in 1..MaxSize
      /\ i.start \in Values(i.size) /\ i.end \in Values(i.size)
      /\ i.start <= i.end
      /\ IF i.stride = 0 THEN i.start = i.end ELSE (i.end - i.start) % i.stride = 0
      /\ i.start = i.end => i.stride = 0 \/ "ZeroProduct" \in caveats

\* A widening hint that could be used lies outside of the interval: widening
\* to it never loses values.
HintsAreOutside(d) ==
  ~is_top(d) => /\ d.lower # None => d.lower < d.interval.start
                /\ d.upper # None => d.upper > d.interval.end


\* A bitvector that is not Top is the only value of the register.
ExactIsExact ==
  value # None /\ exact # None => \A c \in collected : Word(c, value.size) = exact


\* However values are merged into a register again and again, the set of its
\* absolute values does not take more steps than twice the number of its bits,
\* where it could take as many as there are values.  Since any single value may
\* come next, the last step leads to Top.  Not counted are steps to a value that
\* itself contains all of the register's: interval.rs:143-149 does not widen then.
WideningIsBounded ==
  looping => grown <= 2 * Width(value.size)
=============================================================================
