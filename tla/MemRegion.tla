----------------------------- MODULE MemRegion -----------------------------
(***************************************************************************)
(* The abstract domain of abstract_domain/mem_region.rs: a partial map     *)
(* from byte offsets to sized abstract values, describing a continuous     *)
(* region of memory.  An offset without a value is unknown (Top).          *)
(*                                                                         *)
(* values is the BTreeMap of the code.  mem is what the map is about: the  *)
(* bytes of one concrete memory the region stands for.  The code has no    *)
(* such variable; every action changes it the way the analysed program may *)
(* have changed its memory when the analysis calls the operation, so that  *)
(* soundness of the domain is an invariant relating the two.               *)
(***************************************************************************)
EXTENDS Integers, FiniteSets

CONSTANTS
  Positions,          \* the byte offsets of the tracked memory
  Sizes,              \* the byte sizes of values that are written
  Byte,               \* the contents of one concrete byte
  Data,               \* the elements of the value domain T
  TopData,            \* T::new_top
  MergeData(_, _),    \* T::merge
  Describes(_, _)     \* which concrete words (functions 0..s-1 -> Byte) an
                      \* element of T represents

ASSUME PositionsAssumption == Positions \subseteq Int
ASSUME SizesAssumption == Sizes \subseteq Nat \ {0}
ASSUME DataAssumption ==
  /\ TopData \in Data
  /\ \A d, e \in Data : MergeData(d, e) \in Data

Word(m, p, s) == [i \in 0..(s - 1) |-> m[p + i]]
Span(p, s) == p..(p + s - 1)
Words(s) == [0..(s - 1) -> Byte]

\* What the region needs of its value domain: Top represents every word and
\* merge represents what one of its arguments represents.
ASSUME DescribesAssumption ==
  \A s \in Sizes : \A w \in Words(s) :
    /\ Describes(TopData, w)
    /\ \A d, e \in Data :
         Describes(d, w) \/ Describes(e, w) => Describes(MergeData(d, e), w)

VARIABLES values, mem
vars == <<values, mem>>

Value == [size : Sizes, data : Data]
IsTop(d) == d = TopData
Empty == [p \in {} |-> TopData]

-----------------------------------------------------------------------------
(* The operations on the map.                                              *)

Restricted(vs, S) == [p \in S |-> vs[p]]

\* p is the last key in range(..position).
IsPrevious(vs, p, position) ==
  /\ p < position
  /\ \A q \in DOMAIN vs : q < position => q <= p

\* Mutant: the key before the interval is not inspected.
IntersectingNoPrevious(vs, start, end) ==
  {p \in DOMAIN vs : start <= p /\ p < end}

\* Mutant: a value ending right at the start of the interval counts as well.
IntersectingTouching(vs, start, end) ==
  {p \in DOMAIN vs : \/ IsPrevious(vs, p, start) /\ p + vs[p].size >= start
                     \/ start <= p /\ p < end}

\* The keys the code visits for an interval: the last key before it, if its
\* value reaches into it, and the keys inside it.
Intersecting(vs, start, end) ==
  {p \in DOMAIN vs : \/ IsPrevious(vs, p, start) /\ p + vs[p].size > start
                     \/ start <= p /\ p < end}

clear_interval(vs, position, size) ==
  Restricted(vs, DOMAIN vs \ Intersecting(vs, position, position + size))

clear_top_values(vs) == Restricted(vs, {p \in DOMAIN vs : ~ IsTop(vs[p].data)})

Put(vs, p, v) == [q \in DOMAIN vs \cup {p} |-> IF q = p THEN v ELSE vs[q]]

insert_at_byte_index(vs, v, position) ==
  LET cleared == clear_interval(vs, position, v.size)
  IN  IF IsTop(v.data) THEN cleared ELSE Put(cleared, position, v)

get(vs, position, size) ==
  IF position \in DOMAIN vs /\ vs[position].size = size
  THEN vs[position].data
  ELSE TopData

\* Merge the values at the given keys with Top and drop those that became Top.
MergedWithTop(vs, keys) ==
  clear_top_values(
    [p \in DOMAIN vs |->
       IF p \in keys THEN [vs[p] EXCEPT !.data = MergeData(@, TopData)] ELSE vs[p]])

merge_write_top(vs, position, size) ==
  IF position \in DOMAIN vs /\ vs[position].size = size
  THEN MergedWithTop(vs, {position})
  ELSE clear_interval(vs, position, size)

mark_interval_values_as_top(vs, start, end, size) ==
  MergedWithTop(vs, Intersecting(vs, start, end + size))

mark_all_values_as_top(vs) == MergedWithTop(vs, DOMAIN vs)

add_offset_to_all_indices(vs, offset) ==
  [p \in {q + offset : q \in DOMAIN vs} |-> vs[p - offset]]

-----------------------------------------------------------------------------
(* merge_inner: the zipped map has the keys of both regions.               *)

compute_range_end(l, r, p) ==
  IF p \notin DOMAIN r THEN p + l[p].size
  ELSE IF p \notin DOMAIN l THEN p + r[p].size
  ELSE IF l[p].size >= r[p].size THEN p + l[p].size ELSE p + r[p].size

\* merged_range_end is the largest range end before p; the next key is the
\* least one after p.
MergeIsolated(l, r, p) ==
  \A q \in DOMAIN l \cup DOMAIN r :
    /\ q < p => compute_range_end(l, r, q) <= p
    /\ p < q => compute_range_end(l, r, p) <= q

\* Mutant: a value of one side only is taken over as it is.
merge_or_keep(l, r, p) ==
  IF p \notin DOMAIN r THEN l[p]
  ELSE IF p \notin DOMAIN l THEN r[p]
  ELSE [l[p] EXCEPT !.data = IF l[p].size = r[p].size
                             THEN MergeData(@, r[p].data) ELSE TopData]

\* A result of Top stands for the None of the code.
merge_or_merge_with_top(l, r, p) ==
  IF p \notin DOMAIN r THEN [l[p] EXCEPT !.data = MergeData(@, TopData)]
  ELSE IF p \notin DOMAIN l THEN [r[p] EXCEPT !.data = MergeData(@, TopData)]
  ELSE [l[p] EXCEPT !.data = IF l[p].size = r[p].size
                             THEN MergeData(@, r[p].data) ELSE TopData]

merge_inner(l, r) ==
  clear_top_values(
    [p \in {q \in DOMAIN l \cup DOMAIN r : MergeIsolated(l, r, q)} |->
       merge_or_merge_with_top(l, r, p)])

merge(l, r) == IF l = r THEN l ELSE merge_inner(l, r)

-----------------------------------------------------------------------------
(* Well-formed regions.                                                    *)

IsRegion(vs) ==
  /\ DOMAIN vs \subseteq Positions
  /\ vs = [p \in DOMAIN vs |-> vs[p]]
  /\ \A p \in DOMAIN vs : vs[p] \in Value /\ Span(p, vs[p].size) \subseteq Positions

Disjoint(vs) ==
  \A p, q \in DOMAIN vs : p < q => p + vs[p].size <= q

NoTopStored(vs) == \A p \in DOMAIN vs : ~ IsTop(vs[p].data)

WellFormed(vs) == IsRegion(vs) /\ Disjoint(vs) /\ NoTopStored(vs)

Regions == {vs \in UNION {[S -> Value] : S \in SUBSET Positions} : WellFormed(vs)}

Memories == [Positions -> Byte]

-----------------------------------------------------------------------------
(* The analysis calls the operations in any order.                         *)

Init ==
  /\ values = Empty
  /\ mem \in Memories

\* Outside of S the memory keeps its bytes.
KeptOutside(S) == \A p \in Positions \ S : mem'[p] = mem[p]

Insert(v, position) ==
  /\ Span(position, v.size) \subseteq Positions
  /\ values' = insert_at_byte_index(values, v, position)
  /\ mem' \in Memories
  /\ KeptOutside(Span(position, v.size))
  /\ Describes(v.data, Word(mem', position, v.size))

Remove(position, size) ==
  /\ Span(position, size) \subseteq Positions
  /\ values' = clear_interval(values, position, size)
  /\ mem' \in Memories
  /\ KeptOutside(Span(position, size))

MergeWriteTop(position, size) ==
  /\ Span(position, size) \subseteq Positions
  /\ values' = merge_write_top(values, position, size)
  /\ mem' \in Memories
  /\ KeptOutside(Span(position, size))

MarkIntervalValuesAsTop(start, end, size) ==
  /\ values' = mark_interval_values_as_top(values, start, end, size)
  /\ mem' \in Memories
  /\ \E position \in start..end : KeptOutside(Span(position, size))

MarkAllValuesAsTop ==
  /\ values' = mark_all_values_as_top(values)
  /\ mem' \in Memories

\* The region is addressed relative to another base.  Bound: the tracked
\* values stay inside Positions.
AddOffset(offset) ==
  /\ \A p \in DOMAIN values :
       Span(p + offset, values[p].size) \subseteq Positions
  /\ values' = IF offset = 0 THEN values
               ELSE add_offset_to_all_indices(values, offset)
  /\ mem' \in Memories
  /\ \A p \in Positions : p + offset \in Positions => mem'[p + offset] = mem[p]

\* Two paths meet: the program came along the one self describes, and the
\* other region is any region of another path.
Merge(other) ==
  /\ \/ values' = merge(values, other)
     \/ values' = merge(other, values)
  /\ UNCHANGED mem

Offsets == {p - q : p, q \in Positions}

Next ==
  \/ \E v \in Value, p \in Positions : Insert(v, p)
  \/ \E p \in Positions, n \in Sizes : Remove(p, n)
  \/ \E p \in Positions, s \in Sizes : MergeWriteTop(p, s)
  \/ \E p, q \in Positions, s \in Sizes : MarkIntervalValuesAsTop(p, q, s)
  \/ MarkAllValuesAsTop
  \/ \E o \in Offsets : AddOffset(o)
  \/ \E other \in Regions : Merge(other)

Spec == Init /\ [][Next]_vars

-----------------------------------------------------------------------------
(* Properties.                                                             *)

\* Type correctness: values is a finite map to sized values and mem a memory.
TypeOK ==
  /\ IsRegion(values)
  /\ mem \in Memories

\* clear_interval and its twin for ranges look at one key before the interval
\* only.  That is enough as long as no two stored values overlap and no Top
\* value is stored, whatever sequence of operations built the region.
ValuesDisjoint == Disjoint(values) /\ NoTopStored(values)

\* Soundness of get(): what a region returns for an offset and a size
\* represents the bytes that are really there, after every sequence of writes,
\* possible writes, removals, shifts and merges.
GetIsSound ==
  \A p \in Positions, s \in Sizes :
    Span(p, s) \subseteq Positions => Describes(get(values, p, s), Word(mem, p, s))

\* Precision of add()/insert_at_byte_index(): the value just written is read
\* back, and a value that shares no byte with the written one survives.
InsertIsStrongUpdate ==
  [][\A v \in Value, p \in Positions :
       Insert(v, p) =>
         /\ get(values', p, v.size) = v.data
         /\ \A q \in DOMAIN values :
              Span(q, values[q].size) \cap Span(p, v.size) = {}
                => q \in DOMAIN values' /\ values'[q] = values[q]]_vars
=============================================================================
