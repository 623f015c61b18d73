--------------------------- MODULE MemRegionProofs ---------------------------
(***************************************************************************)
(* Proofs about MemRegion for every value domain that satisfies its        *)
(* assumptions, every set of offsets and every set of value sizes.         *)
(*                                                                         *)
(* The inductive invariant says that the region is well-formed (no two     *)
(* values overlap, no Top value is stored) and that every stored value     *)
(* represents the bytes below it.  Soundness alone is not inductive:       *)
(* clear_interval inspects one key before the interval, which finds every  *)
(* value reaching into the interval only because values do not overlap.    *)
(***************************************************************************)
EXTENDS MemRegion, TLAPS

Sound(vs, m) ==
  \A p \in DOMAIN vs : Describes(vs[p].data, Word(m, p, vs[p].size))

IInv ==
  /\ WellFormed(values)
  /\ mem \in Memories
  /\ Sound(values, mem)

-----------------------------------------------------------------------------
(* A restriction of a well-formed region is well-formed.                   *)
LEMMA RestrictedWellFormed ==
  ASSUME NEW vs, WellFormed(vs), NEW S, S \subseteq DOMAIN vs
  PROVE  /\ WellFormed(Restricted(vs, S))
         /\ DOMAIN Restricted(vs, S) = S
         /\ \A p \in S : Restricted(vs, S)[p] = vs[p]
BY DEF Restricted, WellFormed, IsRegion, Disjoint, NoTopStored

(* No value that clear_interval keeps shares a byte with the interval.     *)
LEMMA ClearIntervalClears ==
  ASSUME NEW vs, WellFormed(vs), NEW pos \in Int, NEW n \in Nat \ {0}
  PROVE  LET c == clear_interval(vs, pos, n) IN
           /\ WellFormed(c)
           /\ DOMAIN c \subseteq DOMAIN vs
           /\ \A p \in DOMAIN c :
                c[p] = vs[p] /\ (p + vs[p].size <= pos \/ pos + n <= p)
<1> DEFINE K == DOMAIN vs \ Intersecting(vs, pos, pos + n)
<1>1. /\ WellFormed(Restricted(vs, K)) /\ DOMAIN Restricted(vs, K) = K
      /\ \A p \in K : Restricted(vs, K)[p] = vs[p]
  BY RestrictedWellFormed
<1>2. ASSUME NEW p \in K PROVE p + vs[p].size <= pos \/ pos + n <= p
  <2>1. /\ p \in Int /\ vs[p].size \in Nat
        /\ \A q \in DOMAIN vs : q \in Int /\ (p < q => p + vs[p].size <= q)
    BY PositionsAssumption, SizesAssumption
       DEF WellFormed, IsRegion, Disjoint, Value
  <2>2. CASE p < pos
    <3>1. CASE IsPrevious(vs, p, pos)
      BY <2>1, <2>2, <3>1 DEF Intersecting
    <3>2. CASE ~ IsPrevious(vs, p, pos)
      <4>1. PICK q \in DOMAIN vs : q < pos /\ ~ q <= p
        BY <2>2, <3>2 DEF IsPrevious
      <4> QED  BY <2>1, <4>1
    <3> QED  BY <3>1, <3>2
  <2>3. CASE ~ p < pos
    BY <2>1, <2>3 DEF Intersecting
  <2> QED  BY <2>2, <2>3
<1> QED  BY <1>1, <1>2 DEF clear_interval

(* Dropping the Top values makes a region of disjoint values well-formed.  *)
LEMMA ClearTopKeeps ==
  ASSUME NEW vs, IsRegion(vs), Disjoint(vs)
  PROVE  LET t == clear_top_values(vs) IN
           /\ WellFormed(t)
           /\ DOMAIN t \subseteq DOMAIN vs
           /\ \A p \in DOMAIN t : t[p] = vs[p]
BY DEF clear_top_values, Restricted, WellFormed, IsRegion, Disjoint, NoTopStored

(* What an insertion stores.                                               *)
LEMMA InsertStores ==
  ASSUME NEW vs, NEW v, NEW pos,
         NEW p \in DOMAIN insert_at_byte_index(vs, v, pos)
  PROVE  \/ insert_at_byte_index(vs, v, pos)[p] = v
         \/ p \in DOMAIN vs /\ insert_at_byte_index(vs, v, pos)[p] = vs[p]
<1> DEFINE c == clear_interval(vs, pos, v.size)
<1>1. DOMAIN c \subseteq DOMAIN vs /\ \A q \in DOMAIN c : c[q] = vs[q]
  BY DEF clear_interval, Restricted
<1> HIDE DEF c
<1>2. CASE IsTop(v.data)
  BY <1>1, <1>2 DEF insert_at_byte_index, c
<1>3. CASE ~ IsTop(v.data)
  <2>1. insert_at_byte_index(vs, v, pos) = Put(c, pos, v)
    BY <1>3 DEF insert_at_byte_index, c
  <2> QED  BY <1>1, <2>1 DEF Put
<1> QED  BY <1>2, <1>3

(* Merging some values with Top keeps offsets and sizes.                   *)
LEMMA MergedWithTopKeeps ==
  ASSUME NEW vs, WellFormed(vs), NEW keys
  PROVE  LET t == MergedWithTop(vs, keys) IN
           /\ WellFormed(t)
           /\ DOMAIN t \subseteq DOMAIN vs
           /\ \A p \in DOMAIN t :
                /\ t[p].size = vs[p].size
                /\ t[p].data = IF p \in keys THEN MergeData(vs[p].data, TopData)
                                             ELSE vs[p].data
<1> DEFINE e == [p \in DOMAIN vs |->
                   IF p \in keys THEN [vs[p] EXCEPT !.data = MergeData(@, TopData)]
                                 ELSE vs[p]]
           S == {p \in DOMAIN e : ~ IsTop(e[p].data)}
           t == Restricted(e, S)
<1>1. MergedWithTop(vs, keys) = t
  BY DEF MergedWithTop, clear_top_values
<1>2. \A p \in DOMAIN vs :
        /\ e[p] \in Value /\ e[p].size = vs[p].size
        /\ e[p].data = IF p \in keys THEN MergeData(vs[p].data, TopData)
                                     ELSE vs[p].data
  BY DataAssumption DEF WellFormed, IsRegion, Value
<1>3. /\ DOMAIN t = S /\ S \subseteq DOMAIN vs
      /\ \A p \in S : t[p] = e[p] /\ ~ IsTop(e[p].data)
  BY DEF Restricted
<1>4. WellFormed(t)
  <2>1. IsRegion(t)
    BY <1>2, <1>3 DEF WellFormed, IsRegion, Restricted
  <2>2. Disjoint(t)
    BY <1>2, <1>3 DEF WellFormed, Disjoint
  <2>3. NoTopStored(t)
    BY <1>3 DEF NoTopStored
  <2> QED  BY <2>1, <2>2, <2>3 DEF WellFormed
<1> QED  BY <1>1, <1>2, <1>3, <1>4

(* The keys Intersecting finds are all the values sharing bytes with a      *)
(* range.                                                                  *)
LEMMA IntersectingComplete ==
  ASSUME NEW vs, WellFormed(vs), NEW start \in Int, NEW end \in Int,
         NEW p \in DOMAIN vs, p \notin Intersecting(vs, start, end)
  PROVE  p + vs[p].size <= start \/ end <= p
<1>1. /\ p \in Int /\ vs[p].size \in Nat
      /\ \A q \in DOMAIN vs : q \in Int /\ (p < q => p + vs[p].size <= q)
  BY PositionsAssumption, SizesAssumption
     DEF WellFormed, IsRegion, Disjoint, Value
<1>2. CASE p < start /\ IsPrevious(vs, p, start)
  BY <1>1, <1>2 DEF Intersecting
<1>3. CASE p < start /\ ~ IsPrevious(vs, p, start)
  <2>1. PICK q \in DOMAIN vs : q < start /\ ~ q <= p
    BY <1>3 DEF IsPrevious
  <2> QED  BY <1>1, <2>1
<1>4. CASE ~ p < start
  BY <1>1, <1>4 DEF Intersecting
<1> QED  BY <1>2, <1>3, <1>4

(* Merging two well-formed regions.                                        *)
LEMMA MergeInnerKeeps ==
  ASSUME NEW l, NEW r, WellFormed(l), WellFormed(r)
  PROVE  LET t == merge_inner(l, r) IN
           /\ WellFormed(t)
           /\ \A p \in DOMAIN t :
                /\ p \in DOMAIN l \cup DOMAIN r
                /\ t[p] = merge_or_merge_with_top(l, r, p)
                /\ MergeIsolated(l, r, p)
<1> DEFINE D == {q \in DOMAIN l \cup DOMAIN r : MergeIsolated(l, r, q)}
           e == [p \in D |-> merge_or_merge_with_top(l, r, p)]
           S == {p \in DOMAIN e : ~ IsTop(e[p].data)}
           t == Restricted(e, S)
<1>1. merge_inner(l, r) = t
  BY DEF merge_inner, clear_top_values
<1>2. \A p \in DOMAIN l : l[p] \in Value /\ p \in Int /\ l[p].size \in Nat
                          /\ Span(p, l[p].size) \subseteq Positions /\ p \in Positions
  BY PositionsAssumption, SizesAssumption DEF WellFormed, IsRegion, Value
<1>3. \A p \in DOMAIN r : r[p] \in Value /\ p \in Int /\ r[p].size \in Nat
                          /\ Span(p, r[p].size) \subseteq Positions /\ p \in Positions
  BY PositionsAssumption, SizesAssumption DEF WellFormed, IsRegion, Value
<1>4. ASSUME NEW p \in D
      PROVE  /\ e[p] \in Value /\ Span(p, e[p].size) \subseteq Positions
             /\ p \in Positions /\ p \in Int /\ e[p].size \in Nat
             /\ p + e[p].size <= compute_range_end(l, r, p)
  <2>1. CASE p \in DOMAIN l /\ p \in DOMAIN r
    BY <1>2, <1>3, <2>1, DataAssumption
       DEF merge_or_merge_with_top, compute_range_end, Value
  <2>2. CASE p \in DOMAIN l /\ p \notin DOMAIN r
    BY <1>2, <2>2, DataAssumption
       DEF merge_or_merge_with_top, compute_range_end, Value
  <2>3. CASE p \notin DOMAIN l /\ p \in DOMAIN r
    BY <1>3, <2>3, DataAssumption
       DEF merge_or_merge_with_top, compute_range_end, Value
  <2> QED  BY <2>1, <2>2, <2>3
<1>5. /\ DOMAIN t = S /\ S \subseteq D
      /\ \A p \in S : t[p] = e[p] /\ ~ IsTop(e[p].data)
  BY DEF Restricted
<1>6. IsRegion(t)
  BY <1>4, <1>5 DEF IsRegion, Restricted
<1>7. Disjoint(t)
  <2> SUFFICES ASSUME NEW p \in S, NEW q \in S, p < q
               PROVE  p + e[p].size <= q
    BY <1>5 DEF Disjoint
  <2>1. compute_range_end(l, r, p) <= q
    BY <1>5 DEF MergeIsolated
  <2>2. compute_range_end(l, r, p) \in Int
    BY <1>2, <1>3, <1>5 DEF compute_range_end
  <2>3. p \in D /\ q \in D
    BY <1>5
  <2> HIDE DEF D, e
  <2>4. /\ p + e[p].size <= compute_range_end(l, r, p)
        /\ p \in Int /\ e[p].size \in Nat /\ q \in Int
    BY <1>4, <2>3
  <2> QED  BY <2>1, <2>2, <2>4
<1>8. NoTopStored(t)
  BY <1>5 DEF NoTopStored
<1> QED  BY <1>1, <1>5, <1>6, <1>7, <1>8 DEF WellFormed

-----------------------------------------------------------------------------
(* Words of a memory.                                                      *)
LEMMA WordType ==
  ASSUME NEW m \in Memories, NEW p \in Int, NEW s \in Sizes,
         Span(p, s) \subseteq Positions
  PROVE  Word(m, p, s) \in Words(s)
<1>1. s \in Nat
  BY SizesAssumption
<1>2. \A i \in 0..(s - 1) : p + i \in Positions
  BY <1>1 DEF Span
<1> QED  BY <1>2 DEF Word, Words, Memories

(* The word below a value that shares no byte with a changed span.         *)
LEMMA WordKept ==
  ASSUME NEW m \in Memories, NEW n \in Memories,
         NEW S, \A b \in Positions \ S : n[b] = m[b],
         NEW p \in Int, NEW s \in Nat, Span(p, s) \subseteq Positions,
         Span(p, s) \cap S = {}
  PROVE  Word(n, p, s) = Word(m, p, s)
<1>1. \A i \in 0..(s - 1) : n[p + i] = m[p + i]
  BY DEF Span
<1> QED  BY <1>1 DEF Word

(* Facts about a value stored in a well-formed region.                     *)
LEMMA StoredValue ==
  ASSUME NEW vs, WellFormed(vs), NEW p \in DOMAIN vs
  PROVE  /\ p \in Int /\ p \in Positions
         /\ vs[p].size \in Sizes /\ vs[p].size \in Nat /\ vs[p].size > 0
         /\ vs[p].data \in Data
         /\ Span(p, vs[p].size) \subseteq Positions
BY PositionsAssumption, SizesAssumption DEF WellFormed, IsRegion, Value

(* Clearing an interval is sound for every change inside the interval.     *)
LEMMA ClearIntervalSound ==
  ASSUME NEW vs, WellFormed(vs), NEW pos \in Int, NEW n \in Nat \ {0},
         NEW m \in Memories, NEW m2 \in Memories, Sound(vs, m),
         \A b \in Positions \ Span(pos, n) : m2[b] = m[b]
  PROVE  Sound(clear_interval(vs, pos, n), m2)
<1> DEFINE c == clear_interval(vs, pos, n)
<1>1. /\ DOMAIN c \subseteq DOMAIN vs
      /\ \A p \in DOMAIN c : c[p] = vs[p] /\ (p + vs[p].size <= pos \/ pos + n <= p)
  BY ClearIntervalClears
<1> HIDE DEF c
<1> SUFFICES ASSUME NEW p \in DOMAIN c
             PROVE  Describes(c[p].data, Word(m2, p, c[p].size))
  BY DEF Sound, c
<1>2. /\ p \in Int /\ vs[p].size \in Nat /\ Span(p, vs[p].size) \subseteq Positions
  BY <1>1, StoredValue
<1>3. Span(p, vs[p].size) \cap Span(pos, n) = {}
  BY <1>1, <1>2 DEF Span
<1>4. Word(m2, p, vs[p].size) = Word(m, p, vs[p].size)
  BY <1>2, <1>3, WordKept
<1> QED  BY <1>1, <1>4 DEF Sound

\* n differs from m inside of S only; the values outside of keys are not in S.
ChangedOnly(m, n, S) == \A b \in Positions \ S : n[b] = m[b]
Untouched(vs, keys, S) ==
  \A p \in DOMAIN vs \ keys : Span(p, vs[p].size) \cap S = {}

(* Merging with Top is sound for every change below the merged values.     *)
LEMMA MergedWithTopSound ==
  ASSUME NEW vs, WellFormed(vs), NEW keys, NEW S,
         NEW m \in Memories, NEW m2 \in Memories, Sound(vs, m),
         ChangedOnly(m, m2, S), Untouched(vs, keys, S)
  PROVE  Sound(MergedWithTop(vs, keys), m2)
<1> DEFINE t == MergedWithTop(vs, keys)
<1>1. /\ DOMAIN t \subseteq DOMAIN vs
      /\ \A p \in DOMAIN t :
           /\ t[p].size = vs[p].size
           /\ t[p].data = IF p \in keys THEN MergeData(vs[p].data, TopData)
                                        ELSE vs[p].data
  BY MergedWithTopKeeps
<1> HIDE DEF t
<1> SUFFICES ASSUME NEW p \in DOMAIN t
             PROVE  Describes(t[p].data, Word(m2, p, t[p].size))
  BY DEF Sound, t
<1>2. /\ p \in Int /\ vs[p].size \in Nat /\ vs[p].size \in Sizes
      /\ Span(p, vs[p].size) \subseteq Positions /\ vs[p].data \in Data
  BY <1>1, StoredValue
<1>3. CASE p \in keys
  <2>1. Word(m2, p, vs[p].size) \in Words(vs[p].size)
    BY <1>2, WordType
  <2>2. Describes(MergeData(vs[p].data, TopData), Word(m2, p, vs[p].size))
    BY <1>2, <2>1, DescribesAssumption, DataAssumption
  <2> QED  BY <1>1, <1>3, <2>2
<1>4. CASE p \notin keys
  <2>1. Word(m2, p, vs[p].size) = Word(m, p, vs[p].size)
    <3>1. Span(p, vs[p].size) \cap S = {}
      BY <1>1, <1>4 DEF Untouched
    <3> QED  BY <1>2, <3>1, WordKept DEF ChangedOnly
  <2> QED  BY <1>1, <1>4, <2>1 DEF Sound
<1> QED  BY <1>3, <1>4

(* A merged region is sound for a memory that one of the two regions is    *)
(* sound for.                                                              *)
LEMMA MergeSound ==
  ASSUME NEW l, NEW r, WellFormed(l), WellFormed(r),
         NEW m \in Memories, Sound(l, m) \/ Sound(r, m)
  PROVE  WellFormed(merge(l, r)) /\ Sound(merge(l, r), m)
<1>1. CASE l = r
  BY <1>1 DEF merge
<1>2. CASE l # r
  <2> DEFINE t == merge_inner(l, r)
  <2>1. /\ WellFormed(t)
        /\ \A p \in DOMAIN t :
             /\ p \in DOMAIN l \cup DOMAIN r
             /\ t[p] = merge_or_merge_with_top(l, r, p)
    BY MergeInnerKeeps
  <2> HIDE DEF t
  <2>2. ASSUME NEW p \in DOMAIN t
        PROVE  Describes(t[p].data, Word(m, p, t[p].size))
    <3>1. /\ p \in Int /\ t[p].size \in Sizes /\ t[p].data \in Data
          /\ Span(p, t[p].size) \subseteq Positions
          /\ ~ IsTop(t[p].data)
      BY <2>1, StoredValue DEF WellFormed, NoTopStored
    <3>2. Word(m, p, t[p].size) \in Words(t[p].size)
      BY <3>1, WordType
    <3>3. /\ p \in DOMAIN l => /\ l[p].data \in Data /\ l[p] \in Value
                               /\ Sound(l, m) => Describes(l[p].data, Word(m, p, l[p].size))
          /\ p \in DOMAIN r => /\ r[p].data \in Data /\ r[p] \in Value
                               /\ Sound(r, m) => Describes(r[p].data, Word(m, p, r[p].size))
      BY StoredValue DEF Sound, WellFormed, IsRegion
    <3>4. \A d, e \in Data :
            Describes(d, Word(m, p, t[p].size)) \/ Describes(e, Word(m, p, t[p].size))
              => Describes(MergeData(d, e), Word(m, p, t[p].size))
      BY <3>1, <3>2, DescribesAssumption
    <3>5. Describes(TopData, Word(m, p, t[p].size)) /\ TopData \in Data
      BY <3>1, <3>2, DescribesAssumption, DataAssumption
    <3>6. t[p] = merge_or_merge_with_top(l, r, p)
      BY <2>1
    <3>7. CASE p \in DOMAIN l /\ p \notin DOMAIN r
      <4>1. t[p].data = MergeData(l[p].data, TopData)
        BY <3>3, <3>6, <3>7 DEF merge_or_merge_with_top, Value
      <4> QED  BY <3>3, <3>4, <3>5, <3>7, <4>1
    <3>8. CASE p \notin DOMAIN l /\ p \in DOMAIN r
      <4>1. t[p].data = MergeData(r[p].data, TopData)
        BY <3>3, <3>6, <3>8 DEF merge_or_merge_with_top, Value
      <4> QED  BY <3>3, <3>4, <3>5, <3>8, <4>1
    <3>9. CASE p \in DOMAIN l /\ p \in DOMAIN r
      <4>1. l[p].size = r[p].size /\ t[p].size = l[p].size
            /\ t[p].data = MergeData(l[p].data, r[p].data)
        BY <3>1, <3>3, <3>6, <3>9 DEF merge_or_merge_with_top, Value, IsTop
      <4>2. Describes(l[p].data, Word(m, p, t[p].size))
              \/ Describes(r[p].data, Word(m, p, t[p].size))
        BY <3>3, <3>9, <4>1
      <4> QED  BY <3>3, <3>4, <3>9, <4>1, <4>2
    <3> QED  BY <2>1, <3>7, <3>8, <3>9
  <2>3. Sound(t, m)
    BY <2>2 DEF Sound
  <2> QED  BY <1>2, <2>1, <2>3 DEF merge, t
<1> QED  BY <1>1, <1>2
(* Inserting is sound for a write of a word that the value represents.     *)
LEMMA InsertSound ==
  ASSUME NEW vs, WellFormed(vs), NEW v \in Value, NEW pos \in Positions,
         NEW m \in Memories, NEW m2 \in Memories, Sound(vs, m),
         ChangedOnly(m, m2, Span(pos, v.size)), Span(pos, v.size) \subseteq Positions,
         Describes(v.data, Word(m2, pos, v.size))
  PROVE  /\ WellFormed(insert_at_byte_index(vs, v, pos))
         /\ Sound(insert_at_byte_index(vs, v, pos), m2)
<1> DEFINE c == clear_interval(vs, pos, v.size)
           t == insert_at_byte_index(vs, v, pos)
<1>1. pos \in Int /\ v.size \in Nat \ {0} /\ v.size \in Sizes /\ v.data \in Data
  BY PositionsAssumption, SizesAssumption DEF Value
<1>2. /\ WellFormed(c) /\ DOMAIN c \subseteq DOMAIN vs
      /\ \A p \in DOMAIN c : c[p] = vs[p] /\ (p + vs[p].size <= pos \/ pos + v.size <= p)
  BY <1>1, ClearIntervalClears
<1>3. Sound(c, m2)
  BY <1>1, ClearIntervalSound DEF ChangedOnly
<1> HIDE DEF c, t
<1>4. CASE IsTop(v.data)
  BY <1>2, <1>3, <1>4 DEF insert_at_byte_index, c
<1>5. CASE ~ IsTop(v.data)
  <2>1. t = Put(c, pos, v)
    BY <1>5 DEF insert_at_byte_index, c, t
  <2>2. /\ DOMAIN t = DOMAIN c \cup {pos}
        /\ \A p \in DOMAIN t : t[p] = IF p = pos THEN v ELSE c[p]
        /\ t = [p \in DOMAIN t |-> t[p]]
    BY <2>1 DEF Put
  <2>3. IsRegion(t)
    BY <1>2, <2>2 DEF WellFormed, IsRegion
  <2>4. Disjoint(t)
    <3> SUFFICES ASSUME NEW p \in DOMAIN t, NEW q \in DOMAIN t, p < q
                 PROVE  p + t[p].size <= q
      BY DEF Disjoint
    <3>1. CASE p = pos
      <4>1. q \in DOMAIN c /\ q \in Int /\ vs[q].size \in Nat /\ vs[q].size > 0
        BY <1>1, <1>2, <2>2, <3>1, StoredValue
      <4> QED  BY <1>1, <1>2, <2>2, <3>1, <4>1
    <3>2. CASE p # pos /\ q = pos
      <4>1. p \in DOMAIN c /\ p \in Int /\ vs[p].size \in Nat
        BY <1>2, <2>2, <3>2, StoredValue
      <4> QED  BY <1>1, <1>2, <2>2, <3>2, <4>1
    <3>3. CASE p # pos /\ q # pos
      BY <1>2, <2>2, <3>3 DEF WellFormed, Disjoint
    <3> QED  BY <3>1, <3>2, <3>3
  <2>5. NoTopStored(t)
    BY <1>2, <1>5, <2>2 DEF WellFormed, NoTopStored
  <2>6. Sound(t, m2)
    BY <1>3, <2>2 DEF Sound
  <2> QED  BY <2>3, <2>4, <2>5, <2>6 DEF WellFormed, t
<1> QED  BY <1>4, <1>5

(* Shifting a region keeps it well-formed, and its values describe the     *)
(* shifted words.                                                          *)
LEMMA ShiftKeeps ==
  ASSUME NEW vs, WellFormed(vs), NEW offset \in Int,
         \A p \in DOMAIN vs : Span(p + offset, vs[p].size) \subseteq Positions
  PROVE  LET t == add_offset_to_all_indices(vs, offset) IN
           /\ WellFormed(t)
           /\ DOMAIN t = {q + offset : q \in DOMAIN vs}
           /\ \A q \in DOMAIN vs : t[q + offset] = vs[q]
<1> DEFINE t == add_offset_to_all_indices(vs, offset)
<1>1. \A p \in DOMAIN vs :
        /\ p \in Int /\ vs[p].size \in Nat /\ vs[p].size > 0
        /\ Span(p, vs[p].size) \subseteq Positions
        /\ Span(p + offset, vs[p].size) \subseteq Positions
  BY StoredValue
<1>2. /\ DOMAIN t = {q + offset : q \in DOMAIN vs}
      /\ \A q \in DOMAIN vs : t[q + offset] = vs[q]
      /\ t = [p \in DOMAIN t |-> t[p]]
  <2>1. t = [p \in {q + offset : q \in DOMAIN vs} |-> vs[p - offset]]
    BY DEF add_offset_to_all_indices
  <2>2. \A q \in DOMAIN vs : (q + offset) - offset = q
    BY <1>1
  <2> HIDE DEF t
  <2> QED  BY <2>1, <2>2
<1> HIDE DEF t
<1>3. \A q \in DOMAIN vs : q + offset \in Positions
  BY <1>1 DEF Span
<1>4. IsRegion(t)
  BY <1>1, <1>2, <1>3 DEF WellFormed, IsRegion
<1>5. Disjoint(t)
  <2> SUFFICES ASSUME NEW p \in DOMAIN vs, NEW q \in DOMAIN vs,
                      p + offset < q + offset
               PROVE  p + offset + vs[p].size <= q + offset
    BY <1>2 DEF Disjoint
  <2>1. p < q
    BY <1>1
  <2>2. p + vs[p].size <= q
    BY <2>1 DEF WellFormed, Disjoint
  <2> QED  BY <1>1, <2>2
<1>6. NoTopStored(t)
  BY <1>2 DEF WellFormed, NoTopStored
<1> QED  BY <1>2, <1>4, <1>5, <1>6 DEF WellFormed, t

-----------------------------------------------------------------------------
(* Each operation preserves the inductive invariant.                       *)

LEMMA InsertPreserves ==
  ASSUME IInv, NEW v \in Value, NEW pos \in Positions, Insert(v, pos)
  PROVE  IInv'
<1>1. /\ mem' \in Memories /\ ChangedOnly(mem, mem', Span(pos, v.size))
      /\ Span(pos, v.size) \subseteq Positions
      /\ Describes(v.data, Word(mem', pos, v.size))
      /\ values' = insert_at_byte_index(values, v, pos)
  BY DEF Insert, KeptOutside, ChangedOnly
<1> QED  BY <1>1, InsertSound DEF IInv

LEMMA RemovePreserves ==
  ASSUME IInv, NEW pos \in Positions, NEW n \in Sizes, Remove(pos, n)
  PROVE  IInv'
<1>1. pos \in Int /\ n \in Nat \ {0}
  BY PositionsAssumption, SizesAssumption
<1>2. mem' \in Memories /\ \A b \in Positions \ Span(pos, n) : mem'[b] = mem[b]
  BY DEF Remove, KeptOutside
<1>3. values' = clear_interval(values, pos, n)
  BY DEF Remove
<1>4. WellFormed(values')
  BY <1>1, <1>3, ClearIntervalClears DEF IInv
<1>5. Sound(values', mem')
  BY <1>1, <1>2, <1>3, ClearIntervalSound DEF IInv
<1> QED  BY <1>2, <1>4, <1>5 DEF IInv

LEMMA MergeWriteTopPreserves ==
  ASSUME IInv, NEW pos \in Positions, NEW n \in Sizes, MergeWriteTop(pos, n)
  PROVE  IInv'
<1>1. pos \in Int /\ n \in Nat \ {0}
  BY PositionsAssumption, SizesAssumption
<1>2. mem' \in Memories /\ \A b \in Positions \ Span(pos, n) : mem'[b] = mem[b]
  BY DEF MergeWriteTop, KeptOutside
<1>3. CASE pos \in DOMAIN values /\ values[pos].size = n
  <2>1. values' = MergedWithTop(values, {pos})
    BY <1>3 DEF MergeWriteTop, merge_write_top
  <2>2. WellFormed(values')
    BY <2>1, MergedWithTopKeeps DEF IInv
  <2>3. \A p \in DOMAIN values \ {pos} : Span(p, values[p].size) \cap Span(pos, n) = {}
    <3> SUFFICES ASSUME NEW p \in DOMAIN values \ {pos}
                 PROVE  Span(p, values[p].size) \cap Span(pos, n) = {}
      OBVIOUS
    <3>1. p \in Int /\ values[p].size \in Nat
      BY StoredValue DEF IInv
    <3>2. p + values[p].size <= pos \/ pos + n <= p
      BY <1>1, <1>3, <3>1 DEF IInv, WellFormed, Disjoint
    <3> QED  BY <1>1, <3>1, <3>2 DEF Span
  <2>4. Sound(MergedWithTop(values, {pos}), mem')
    <3> DEFINE S == Span(pos, n)
    <3>1. ChangedOnly(mem, mem', S) /\ Untouched(values, {pos}, S)
      BY <1>2, <2>3 DEF ChangedOnly, Untouched
    <3>2. WellFormed(values) /\ Sound(values, mem) /\ mem \in Memories /\ mem' \in Memories
      BY <1>2 DEF IInv
    <3> HIDE DEF S
    <3> QED  BY <3>1, <3>2, MergedWithTopSound
  <2> QED  BY <1>2, <2>1, <2>2, <2>4 DEF IInv
<1>4. CASE ~ (pos \in DOMAIN values /\ values[pos].size = n)
  <2>1. values' = clear_interval(values, pos, n)
    BY <1>4 DEF MergeWriteTop, merge_write_top
  <2>2. WellFormed(values')
    BY <1>1, <2>1, ClearIntervalClears DEF IInv
  <2>3. Sound(values', mem')
    BY <1>1, <1>2, <2>1, ClearIntervalSound DEF IInv
  <2> QED  BY <1>2, <2>2, <2>3 DEF IInv
<1> QED  BY <1>3, <1>4

LEMMA MarkIntervalPreserves ==
  ASSUME IInv, NEW start \in Positions, NEW end \in Positions, NEW s \in Sizes,
         MarkIntervalValuesAsTop(start, end, s)
  PROVE  IInv'
<1> DEFINE keys == Intersecting(values, start, end + s)
<1>1. start \in Int /\ end \in Int /\ s \in Nat /\ s > 0 /\ end + s \in Int
  BY PositionsAssumption, SizesAssumption
<1>2. values' = MergedWithTop(values, keys) /\ mem' \in Memories
  BY DEF MarkIntervalValuesAsTop, mark_interval_values_as_top
<1>3. PICK pos \in start..end : KeptOutside(Span(pos, s))
  BY DEF MarkIntervalValuesAsTop
<1>4. \A b \in Positions \ Span(pos, s) : mem'[b] = mem[b]
  BY <1>3 DEF KeptOutside
<1>5. \A p \in DOMAIN values \ keys : Span(p, values[p].size) \cap Span(pos, s) = {}
  <2> SUFFICES ASSUME NEW p \in DOMAIN values, p \notin keys
               PROVE  Span(p, values[p].size) \cap Span(pos, s) = {}
    OBVIOUS
  <2>1. p \in Int /\ values[p].size \in Nat
    BY StoredValue DEF IInv
  <2>2. p + values[p].size <= start \/ end + s <= p
    BY <1>1, IntersectingComplete DEF IInv
  <2> QED  BY <1>1, <1>3, <2>1, <2>2 DEF Span
<1>6. WellFormed(values')
  BY <1>2, MergedWithTopKeeps DEF IInv
<1> HIDE DEF keys
<1>7. Sound(MergedWithTop(values, keys), mem')
  <2> DEFINE S == Span(pos, s)
  <2>1. ChangedOnly(mem, mem', S) /\ Untouched(values, keys, S)
    BY <1>4, <1>5 DEF ChangedOnly, Untouched
  <2>2. WellFormed(values) /\ Sound(values, mem) /\ mem \in Memories /\ mem' \in Memories
    BY <1>2 DEF IInv
  <2> HIDE DEF S
  <2> QED  BY <2>1, <2>2, MergedWithTopSound
<1> QED  BY <1>2, <1>6, <1>7 DEF IInv

LEMMA MarkAllPreserves ==
  ASSUME IInv, MarkAllValuesAsTop
  PROVE  IInv'
<1>1. values' = MergedWithTop(values, DOMAIN values) /\ mem' \in Memories
  BY DEF MarkAllValuesAsTop, mark_all_values_as_top
<1>2. WellFormed(values')
  BY <1>1, MergedWithTopKeeps DEF IInv
<1>3. ChangedOnly(mem, mem', Positions)
  BY DEF ChangedOnly
<1>4. Untouched(values, DOMAIN values, Positions)
  BY DEF Untouched
<1>5. Sound(MergedWithTop(values, DOMAIN values), mem')
  BY <1>1, <1>3, <1>4, MergedWithTopSound DEF IInv
<1> QED  BY <1>1, <1>2, <1>5 DEF IInv

LEMMA AddOffsetPreserves ==
  ASSUME IInv, NEW offset \in Offsets, AddOffset(offset)
  PROVE  IInv'
<1>1. offset \in Int
  BY PositionsAssumption DEF Offsets
<1>2. \A p \in DOMAIN values :
        /\ p \in Int /\ values[p].size \in Nat
        /\ Span(p, values[p].size) \subseteq Positions
        /\ Span(p + offset, values[p].size) \subseteq Positions
  BY StoredValue DEF IInv, AddOffset
<1>3. /\ WellFormed(values')
      /\ DOMAIN values' = {q + offset : q \in DOMAIN values}
      /\ \A q \in DOMAIN values : values'[q + offset] = values[q]
  <2>1. CASE offset = 0
    <3>1. values' = values /\ WellFormed(values)
      BY <2>1 DEF AddOffset, IInv
    <3>2. \A q \in DOMAIN values : q + offset = q
      BY <1>2, <2>1
    <3>3. {q + offset : q \in DOMAIN values} = DOMAIN values
      BY <3>2
    <3> QED  BY <3>1, <3>2, <3>3
  <2>2. CASE offset # 0
    <3>1. values' = add_offset_to_all_indices(values, offset)
      BY <2>2 DEF AddOffset
    <3> QED  BY <1>1, <1>2, <3>1, ShiftKeeps DEF IInv
  <2> QED  BY <2>1, <2>2
<1>4. mem' \in Memories
  BY DEF AddOffset
<1>5. Sound(values', mem')
  <2> SUFFICES ASSUME NEW q \in DOMAIN values
               PROVE  Describes(values[q].data, Word(mem', q + offset, values[q].size))
    BY <1>3 DEF Sound
  <2>1. \A i \in 0..(values[q].size - 1) : mem'[(q + offset) + i] = mem[q + i]
    <3> SUFFICES ASSUME NEW i \in 0..(values[q].size - 1)
                 PROVE  mem'[(q + offset) + i] = mem[q + i]
      OBVIOUS
    <3>1. q + i \in Positions /\ (q + offset) + i \in Positions
          /\ (q + offset) + i = (q + i) + offset
      BY <1>1, <1>2 DEF Span
    <3> QED  BY <3>1 DEF AddOffset
  <2>2. Word(mem', q + offset, values[q].size) = Word(mem, q, values[q].size)
    BY <2>1 DEF Word
  <2> QED  BY <2>2 DEF IInv, Sound
<1> QED  BY <1>3, <1>4, <1>5 DEF IInv

LEMMA MergePreserves ==
  ASSUME IInv, NEW other \in Regions, Merge(other)
  PROVE  IInv'
<1>1. WellFormed(other)
  BY DEF Regions
<1>2. mem' = mem
  BY DEF Merge
<1>3. CASE values' = merge(values, other)
  BY <1>1, <1>2, <1>3, MergeSound DEF IInv
<1>4. CASE values' = merge(other, values)
  BY <1>1, <1>2, <1>4, MergeSound DEF IInv
<1> QED  BY <1>3, <1>4 DEF Merge

-----------------------------------------------------------------------------
(* The inductive invariant holds in every state of every run.              *)
THEOREM Invariance == Spec => []IInv
<1>1. Init => IInv
  BY DEF Init, IInv, Empty, WellFormed, IsRegion, Disjoint, NoTopStored, Sound
<1>2. IInv /\ [Next]_vars => IInv'
  <2> SUFFICES ASSUME IInv, [Next]_vars PROVE IInv'
    OBVIOUS
  <2>1. CASE UNCHANGED vars
    BY <2>1 DEF IInv, vars
  <2>2. CASE Next
    BY <2>2, InsertPreserves, RemovePreserves, MergeWriteTopPreserves,
       MarkIntervalPreserves, MarkAllPreserves, AddOffsetPreserves, MergePreserves
       DEF Next
  <2> QED  BY <2>1, <2>2
<1> QED  BY <1>1, <1>2, PTL DEF Spec

(* The region is a map from offsets to sized values inside the tracked     *)
(* memory, whatever operations of mem_region.rs are called.                *)
THEOREM TypeCorrect == Spec => []TypeOK
<1>1. IInv => TypeOK
  BY DEF IInv, WellFormed, TypeOK
<1> QED  BY <1>1, Invariance, PTL

(* No sequence of calls makes two stored values overlap or stores a Top    *)
(* value, so looking at one key before an interval is enough.              *)
THEOREM DisjointCorrect == Spec => []ValuesDisjoint
<1>1. IInv => ValuesDisjoint
  BY DEF IInv, WellFormed, ValuesDisjoint
<1> QED  BY <1>1, Invariance, PTL

(* get() is sound for every value domain, every offset and every size.     *)
THEOREM GetCorrect == Spec => []GetIsSound
<1>1. IInv => GetIsSound
  <2> SUFFICES ASSUME IInv, NEW p \in Positions, NEW s \in Sizes,
                      Span(p, s) \subseteq Positions
               PROVE  Describes(get(values, p, s), Word(mem, p, s))
    BY DEF GetIsSound
  <2>1. CASE p \in DOMAIN values /\ values[p].size = s
    BY <2>1 DEF get, IInv, Sound
  <2>2. CASE ~ (p \in DOMAIN values /\ values[p].size = s)
    <3>1. Word(mem, p, s) \in Words(s)
      BY PositionsAssumption, WordType DEF IInv
    <3> QED  BY <2>2, <3>1, DescribesAssumption DEF get
  <2> QED  BY <2>1, <2>2
<1> QED  BY <1>1, Invariance, PTL

(* A write is read back and leaves the values beside it alone.             *)
THEOREM StrongUpdate == Spec => InsertIsStrongUpdate
<1>1. ASSUME IInv, NEW v \in Value, NEW pos \in Positions, Insert(v, pos)
      PROVE  /\ get(values', pos, v.size) = v.data
             /\ \A q \in DOMAIN values :
                  Span(q, values[q].size) \cap Span(pos, v.size) = {}
                    => q \in DOMAIN values' /\ values'[q] = values[q]
  <2> DEFINE c == clear_interval(values, pos, v.size)
  <2>1. pos \in Int /\ v.size \in Nat \ {0} /\ v.size \in Sizes
    BY PositionsAssumption, SizesAssumption DEF Value
  <2>2. /\ WellFormed(c) /\ DOMAIN c \subseteq DOMAIN values
        /\ \A p \in DOMAIN c :
             c[p] = values[p] /\ (p + values[p].size <= pos \/ pos + v.size <= p)
    BY <1>1, <2>1, ClearIntervalClears DEF IInv
  <2>3. ASSUME NEW q \in DOMAIN values,
               Span(q, values[q].size) \cap Span(pos, v.size) = {}
        PROVE  q \in DOMAIN c /\ q # pos
    <3>1. /\ q \in Int /\ values[q].size \in Nat /\ values[q].size > 0
      BY <1>1, StoredValue DEF IInv
    <3>2. q + values[q].size <= pos \/ pos + v.size <= q
      <4>1. q \in Span(q, values[q].size) /\ pos \in Span(pos, v.size)
        BY <2>1, <3>1 DEF Span
      <4>2. q \notin Span(pos, v.size) /\ pos \notin Span(q, values[q].size)
        BY <2>3, <4>1
      <4> QED  BY <2>1, <3>1, <4>2 DEF Span
    <3>3. q \notin Intersecting(values, pos, pos + v.size)
      BY <2>1, <3>1, <3>2 DEF Intersecting, IsPrevious
    <3>4. DOMAIN c = DOMAIN values \ Intersecting(values, pos, pos + v.size)
      BY DEF clear_interval, Restricted
    <3> QED  BY <2>1, <3>1, <3>2, <3>3, <3>4
  <2> HIDE DEF c
  <2>4. pos \notin DOMAIN c
    <3> SUFFICES ASSUME pos \in DOMAIN c PROVE FALSE
      OBVIOUS
    <3>1. values[pos].size \in Nat /\ values[pos].size > 0
      BY <1>1, <2>2, StoredValue DEF IInv
    <3> QED  BY <2>1, <2>2, <3>1
  <2>5. CASE IsTop(v.data)
    <3>1. values' = c
      BY <1>1, <2>5 DEF Insert, insert_at_byte_index, c
    <3> QED  BY <2>2, <2>3, <2>4, <2>5, <3>1 DEF get, IsTop
  <2>6. CASE ~ IsTop(v.data)
    <3>1. values' = Put(c, pos, v)
      BY <1>1, <2>6 DEF Insert, insert_at_byte_index, c
    <3>2. /\ DOMAIN values' = DOMAIN c \cup {pos}
          /\ \A p \in DOMAIN values' : values'[p] = IF p = pos THEN v ELSE c[p]
      BY <3>1 DEF Put
    <3> QED  BY <2>2, <2>3, <3>2 DEF get
  <2> QED  BY <2>5, <2>6
<1>2. IInv /\ [Next]_vars =>
        [\A v \in Value, p \in Positions :
           Insert(v, p) =>
             /\ get(values', p, v.size) = v.data
             /\ \A q \in DOMAIN values :
                  Span(q, values[q].size) \cap Span(p, v.size) = {}
                    => q \in DOMAIN values' /\ values'[q] = values[q]]_vars
  BY <1>1
<1> QED  BY <1>2, Invariance, PTL DEF Spec, InsertIsStrongUpdate
=============================================================================
