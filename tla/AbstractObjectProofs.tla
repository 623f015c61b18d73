------------------------ MODULE AbstractObjectProofs ------------------------
(***************************************************************************)
(* Proofs about the memory objects of the pointer inference, for any       *)
(* identifiers, offsets, value sizes, incoming objects and replacements.   *)
(*                                                                         *)
(* The lemmas about regions are those of MemRegionProofs, instantiated     *)
(* with the values of DataDomain: the assumptions MemRegion makes of its   *)
(* value domain are proved first.                                          *)
(***************************************************************************)
EXTENDS AbstractObject, TLAPS

R == INSTANCE MemRegionProofs WITH
  Data <- DataSet, TopData <- new_top, MergeData <- DataMerge,
  Describes <- Represented, values <- memory

(* DataDomain is a value domain in the sense of MemRegion.                 *)
LEMMA DataIsValueDomain ==
  /\ Positions \subseteq Int
  /\ Sizes \subseteq Nat \ {0}
  /\ new_top \in DataSet
  /\ \A d, e \in DataSet : DataMerge(d, e) \in DataSet
  /\ \A s \in Sizes : \A w \in R!Words(s) :
       /\ Represented(new_top, w)
       /\ \A d, e \in DataSet :
            Represented(d, w) \/ Represented(e, w) => Represented(DataMerge(d, e), w)
<1>1. \A d, e \in DataSet : DataMerge(d, e) \in DataSet
  BY DEF DataSet, DataMerge
<1>2. \A w : Represented(new_top, w)
  BY DEF Represented, new_top
<1>3. ASSUME NEW d \in DataSet, NEW e \in DataSet, NEW w,
             Represented(d, w) \/ Represented(e, w)
      PROVE  Represented(DataMerge(d, e), w)
  BY <1>3 DEF Represented, Represents, DataMerge, DataSet
<1>. QED BY <1>1, <1>2, <1>3, RegionAssumption DEF new_top, DataSet

-----------------------------------------------------------------------------
(* The regions of AbstractObject are those of the lemmas.                  *)
LEMMA SameRegions ==
  /\ Region!Memories = R!Memories /\ Region!Regions = R!Regions
  /\ Region!Value = R!Value /\ Region!Offsets = R!Offsets /\ Region!Empty = R!Empty
  /\ \A p, s : Region!Span(p, s) = R!Span(p, s)
  /\ \A m, p, s : Region!Word(m, p, s) = R!Word(m, p, s)
BY DEF Region!Memories, R!Memories, Region!Value, R!Value, Region!Offsets, R!Offsets,
       Region!Empty, R!Empty, Region!Span, R!Span, Region!Word, R!Word,
       Region!Regions, R!Regions, Region!WellFormed, R!WellFormed, Region!IsRegion,
       R!IsRegion, Region!Disjoint, R!Disjoint, Region!NoTopStored, R!NoTopStored,
       Region!IsTop, R!IsTop

LEMMA SameOperations ==
  /\ \A vs, a, b : Region!Intersecting(vs, a, b) = R!Intersecting(vs, a, b)
  /\ \A vs, p, i : Region!IsPrevious(vs, p, i) <=> R!IsPrevious(vs, p, i)
  /\ \A vs : Region!clear_top_values(vs) = R!clear_top_values(vs)
  /\ \A vs, K : Region!MergedWithTop(vs, K) = R!MergedWithTop(vs, K)
  /\ \A vs, v, p : Region!insert_at_byte_index(vs, v, p) = R!insert_at_byte_index(vs, v, p)
  /\ \A vs, p, s : Region!get(vs, p, s) = R!get(vs, p, s)
  /\ \A vs, i : Region!add_offset_to_all_indices(vs, i) = R!add_offset_to_all_indices(vs, i)
  /\ \A l, r : Region!merge(l, r) = R!merge(l, r)
<1>1. \A vs, a, b : Region!Intersecting(vs, a, b) = R!Intersecting(vs, a, b)
  BY DEF Region!Intersecting, R!Intersecting, Region!IsPrevious, R!IsPrevious
<1>2. \A vs : Region!clear_top_values(vs) = R!clear_top_values(vs)
  BY DEF Region!clear_top_values, R!clear_top_values, Region!Restricted, R!Restricted,
         Region!IsTop, R!IsTop
<1>3. \A vs, K : Region!MergedWithTop(vs, K) = R!MergedWithTop(vs, K)
  BY <1>2 DEF Region!MergedWithTop, R!MergedWithTop
<1>4. \A vs, v, p : Region!insert_at_byte_index(vs, v, p) = R!insert_at_byte_index(vs, v, p)
  <2>1. \A vs, p, s : Region!clear_interval(vs, p, s) = R!clear_interval(vs, p, s)
    BY <1>1 DEF Region!clear_interval, R!clear_interval, Region!Restricted, R!Restricted
  <2>2. \A vs, p, v : Region!Put(vs, p, v) = R!Put(vs, p, v)
    BY DEF Region!Put, R!Put
  <2>. QED BY <2>1, <2>2 DEF Region!insert_at_byte_index, R!insert_at_byte_index,
                             Region!IsTop, R!IsTop
<1>5. \A l, r : Region!merge(l, r) = R!merge(l, r)
  BY <1>2 DEF Region!merge, R!merge, Region!merge_inner, R!merge_inner,
     Region!MergeIsolated, R!MergeIsolated, Region!compute_range_end, R!compute_range_end,
     Region!merge_or_merge_with_top, R!merge_or_merge_with_top
<1>. QED BY <1>1, <1>2, <1>3, <1>4, <1>5 DEF Region!IsPrevious, R!IsPrevious,
         Region!get, R!get, Region!add_offset_to_all_indices, R!add_offset_to_all_indices

-----------------------------------------------------------------------------
(* What is true of every object that comes in from another state.          *)
LEMMA Incoming ==
  ASSUME NEW o \in CalleeObjects
  PROVE  /\ R!WellFormed(o.memory)
         /\ RegionIds(o.memory) \subseteq o.pointer_targets
<1>1. o \in Objects /\ RegionIds(o.memory) \subseteq o.pointer_targets
  BY CalleeObjectsAssumption
<1>2. o.memory \in R!Regions
  BY <1>1, SameRegions DEF Objects
<1>. QED BY <1>1, <1>2 DEF R!Regions

(* A region is sound for the memories it describes.                        *)
LEMMA DescribedIsSound ==
  ASSUME NEW vs, R!WellFormed(vs), NEW m \in DescribedBy(vs, 0)
  PROVE  m \in R!Memories /\ R!Sound(vs, m)
<1>1. \A p \in DOMAIN vs : p + 0 = p
  BY R!StoredValue, DataIsValueDomain
<1>. QED BY <1>1, SameRegions DEF DescribedBy, R!Sound

(* A region shifted by an offset is sound for the memories it describes at *)
(* that offset.                                                            *)
LEMMA ShiftedIsSound ==
  ASSUME NEW vs, R!WellFormed(vs), NEW offset \in Region!Offsets,
         \A p \in DOMAIN vs : Region!Span(p + offset, vs[p].size) \subseteq Positions
  PROVE  /\ R!WellFormed(R!add_offset_to_all_indices(vs, offset))
         /\ RegionIds(R!add_offset_to_all_indices(vs, offset)) = RegionIds(vs)
         /\ \A m \in DescribedBy(vs, offset) :
              m \in R!Memories /\ R!Sound(R!add_offset_to_all_indices(vs, offset), m)
<1>. DEFINE t == R!add_offset_to_all_indices(vs, offset)
<1>1. offset \in Int
  BY SameRegions, DataIsValueDomain DEF R!Offsets
<1>2. /\ R!WellFormed(t)
      /\ DOMAIN t = {q + offset : q \in DOMAIN vs}
      /\ \A q \in DOMAIN vs : t[q + offset] = vs[q]
  BY <1>1, R!ShiftKeeps, DataIsValueDomain, SameRegions
<1>. HIDE DEF t
<1>3. \A m \in DescribedBy(vs, offset) : m \in R!Memories /\ R!Sound(t, m)
  BY <1>2, SameRegions DEF DescribedBy, R!Sound
<1>4. RegionIds(t) = RegionIds(vs)
  BY <1>2 DEF RegionIds
<1>. QED BY <1>2, <1>3, <1>4 DEF t

LEMMA RegionIdsCovered ==
  ASSUME NEW vs, NEW T
  PROVE  RegionIds(vs) \subseteq T <=> \A p \in DOMAIN vs : vs[p].data.ids \subseteq T
BY DEF RegionIds, referenced_ids

(* Merging with Top or with another region adds no identifiers.            *)
LEMMA MarkedIds ==
  ASSUME NEW vs, R!WellFormed(vs), NEW keys
  PROVE  RegionIds(R!MergedWithTop(vs, keys)) \subseteq RegionIds(vs)
<1>. DEFINE t == R!MergedWithTop(vs, keys)
<1>1. /\ DOMAIN t \subseteq DOMAIN vs
      /\ \A p \in DOMAIN t :
           t[p].data = IF p \in keys THEN DataMerge(vs[p].data, new_top) ELSE vs[p].data
  BY R!MergedWithTopKeeps, DataIsValueDomain
<1>. HIDE DEF t
<1>2. ASSUME NEW p \in DOMAIN t
      PROVE  t[p].data.ids = vs[p].data.ids
  <2>1. CASE p \in keys
    <3>1. t[p].data = DataMerge(vs[p].data, new_top)
      BY <1>1, <2>1
    <3>2. DataMerge(vs[p].data, new_top).ids = vs[p].data.ids \cup {}
      BY DEF DataMerge, new_top
    <3>. QED BY <3>1, <3>2
  <2>2. CASE p \notin keys
    BY <1>1, <2>2
  <2>. QED BY <2>1, <2>2
<1>. QED BY <1>1, <1>2 DEF RegionIds, referenced_ids, t

LEMMA MergedIds ==
  ASSUME NEW l, NEW r, R!WellFormed(l), R!WellFormed(r)
  PROVE  RegionIds(R!merge(l, r)) \subseteq RegionIds(l) \cup RegionIds(r)
<1>. DEFINE t == R!merge_inner(l, r)
<1>1. \A p \in DOMAIN t : /\ p \in DOMAIN l \cup DOMAIN r
                         /\ t[p] = R!merge_or_merge_with_top(l, r, p)
  BY R!MergeInnerKeeps, DataIsValueDomain
<1>2. /\ \A p \in DOMAIN l : l[p] \in R!Value
      /\ \A p \in DOMAIN r : r[p] \in R!Value
  BY DEF R!WellFormed, R!IsRegion
<1>. HIDE DEF t
<1>3. ASSUME NEW p \in DOMAIN t
      PROVE  t[p].data.ids \subseteq RegionIds(l) \cup RegionIds(r)
  <2>1. /\ p \in DOMAIN l => l[p].data.ids \subseteq RegionIds(l)
        /\ p \in DOMAIN r => r[p].data.ids \subseteq RegionIds(r)
    BY RegionIdsCovered
  <2>2. CASE p \in DOMAIN l /\ p \notin DOMAIN r
    BY <1>1, <1>2, <2>1, <2>2 DEF R!merge_or_merge_with_top, R!Value, DataMerge, new_top
  <2>3. CASE p \notin DOMAIN l /\ p \in DOMAIN r
    BY <1>1, <1>2, <2>1, <2>3 DEF R!merge_or_merge_with_top, R!Value, DataMerge, new_top
  <2>4. CASE p \in DOMAIN l /\ p \in DOMAIN r
    BY <1>1, <1>2, <2>1, <2>4 DEF R!merge_or_merge_with_top, R!Value, DataMerge, new_top
  <2>. QED BY <1>1, <2>2, <2>3, <2>4
<1>4. RegionIds(t) \subseteq RegionIds(l) \cup RegionIds(r)
  BY <1>3, RegionIdsCovered
<1>. QED BY <1>4 DEF R!merge, t

(* Operations that only mark values as possibly overwritten.               *)
LEMMA MarkAllSound ==
  ASSUME NEW vs, R!WellFormed(vs), NEW m \in R!Memories, NEW m2 \in R!Memories,
         R!Sound(vs, m)
  PROVE  /\ R!WellFormed(R!MergedWithTop(vs, DOMAIN vs))
         /\ R!Sound(R!MergedWithTop(vs, DOMAIN vs), m2)
<1>1. R!ChangedOnly(m, m2, Positions) /\ R!Untouched(vs, DOMAIN vs, Positions)
  BY DEF R!ChangedOnly, R!Untouched
<1>2. R!WellFormed(R!MergedWithTop(vs, DOMAIN vs))
  BY R!MergedWithTopKeeps, DataIsValueDomain
<1>3. R!Sound(R!MergedWithTop(vs, DOMAIN vs), m2)
  BY <1>1, R!MergedWithTopSound, DataIsValueDomain
<1>. QED BY <1>2, <1>3
-----------------------------------------------------------------------------
(* An object with region vs and the given targets stands for a concrete    *)
(* object with memory m.                                                   *)
StandsFor(vs, targets, m) ==
  /\ R!WellFormed(vs)
  /\ m \in R!Memories
  /\ R!Sound(vs, m)
  /\ RegionIds(vs) \subseteq targets

ObjInv == StandsFor(memory, pointer_targets, mem)

(* A write of v reaches one offset of the target and no other byte.        *)
LEMMA WriteReaches ==
  ASSUME NEW v \in R!Value, NEW target, NEW m \in WrittenAt(v, target)
  PROVE  /\ m \in R!Memories
         /\ \E p \in target : /\ R!Span(p, v.size) \subseteq Positions
                              /\ R!ChangedOnly(mem, m, R!Span(p, v.size))
                              /\ Represented(v.data, R!Word(m, p, v.size))
BY SameRegions DEF WrittenAt, R!ChangedOnly

(* Inserting a value of some identifiers.                                  *)
LEMMA InsertedIds ==
  ASSUME NEW vs, NEW v, NEW p, NEW T,
         RegionIds(vs) \subseteq T, v.data.ids \subseteq T
  PROVE  RegionIds(R!insert_at_byte_index(vs, v, p)) \subseteq T
<1>. DEFINE t == R!insert_at_byte_index(vs, v, p)
<1>1. \A q \in DOMAIN t : t[q] = v \/ (q \in DOMAIN vs /\ t[q] = vs[q])
  BY R!InsertStores, DataIsValueDomain
<1>. HIDE DEF t
<1>2. \A q \in DOMAIN t : t[q].data.ids \subseteq T
  BY <1>1, RegionIdsCovered
<1>. QED BY <1>2, RegionIdsCovered DEF t

(* What is merged into a stored value represents both the bytes before and *)
(* after the write.                                                        *)
LEMMA MergedInSound ==
  ASSUME ObjInv, NEW v \in R!Value, NEW p \in Positions,
         R!Span(p, v.size) \subseteq Positions,
         NEW m \in WrittenAt(v, {p}) \cup {mem}
  PROVE  StandsFor(MergedIn(v, p), pointer_targets \cup referenced_ids(v.data), m)
<1>. DEFINE old == R!get(memory, p, v.size)
            new == [v EXCEPT !.data = DataMerge(old, v.data)]
            T == pointer_targets \cup referenced_ids(v.data)
<1>1. /\ v.size \in Sizes /\ v.data \in DataSet /\ p \in Int
      /\ v = [size |-> v.size, data |-> v.data]
  BY RegionAssumption DEF R!Value
<1>2. old \in DataSet /\ old.ids \subseteq pointer_targets
  <2>1. CASE p \in DOMAIN memory /\ memory[p].size = v.size
    <3>1. old = memory[p].data
      BY <2>1 DEF R!get
    <3>2. memory[p].data \in DataSet
      BY <2>1, R!StoredValue, DataIsValueDomain DEF ObjInv, StandsFor
    <3>. QED BY <2>1, <3>1, <3>2, RegionIdsCovered DEF ObjInv, StandsFor
  <2>2. CASE ~ (p \in DOMAIN memory /\ memory[p].size = v.size)
    <3>1. old = new_top
      BY <2>2 DEF R!get
    <3>. QED BY <3>1, DataIsValueDomain DEF new_top
  <2>. QED BY <2>1, <2>2
<1>3. m \in R!Memories /\ R!ChangedOnly(mem, m, R!Span(p, v.size))
  BY WriteReaches DEF ObjInv, StandsFor, R!ChangedOnly
<1>4. R!Word(m, p, v.size) \in R!Words(v.size)
  BY <1>1, <1>3, R!WordType, DataIsValueDomain
<1>5. Represented(old, R!Word(m, p, v.size)) \/ Represented(v.data, R!Word(m, p, v.size))
  <2>1. CASE m = mem
    <3>1. CASE p \in DOMAIN memory /\ memory[p].size = v.size
      BY <2>1, <3>1 DEF R!get, ObjInv, StandsFor, R!Sound
    <3>2. CASE ~ (p \in DOMAIN memory /\ memory[p].size = v.size)
      BY <3>2 DEF R!get, Represented, new_top
    <3>. QED BY <3>1, <3>2
  <2>2. CASE m \in WrittenAt(v, {p})
    BY <2>2, WriteReaches
  <2>. QED BY <2>1, <2>2
<1>6. new.size = v.size /\ new.data = DataMerge(old, v.data) /\ new \in R!Value
  BY <1>1, <1>2, DataIsValueDomain DEF R!Value
<1>. HIDE DEF old, new
<1>7. Represented(new.data, R!Word(m, p, new.size))
  BY <1>1, <1>2, <1>4, <1>5, <1>6, DataIsValueDomain
<1>8. MergedIn(v, p) = R!insert_at_byte_index(memory, new, p)
  BY SameOperations DEF MergedIn, old, new
<1>9. new.data.ids \subseteq T /\ RegionIds(memory) \subseteq T
  BY <1>2, <1>6 DEF DataMerge, ObjInv, StandsFor, referenced_ids
<1>10. RegionIds(R!insert_at_byte_index(memory, new, p)) \subseteq T
  BY <1>9, InsertedIds
<1>11. /\ R!WellFormed(R!insert_at_byte_index(memory, new, p))
       /\ R!Sound(R!insert_at_byte_index(memory, new, p), m)
  BY <1>3, <1>6, <1>7, R!InsertSound, DataIsValueDomain DEF ObjInv, StandsFor
<1>. QED BY <1>3, <1>8, <1>10, <1>11 DEF StandsFor

LEMMA StrongUpdateSound ==
  ASSUME ObjInv, NEW v \in R!Value, NEW p \in Positions,
         R!Span(p, v.size) \subseteq Positions, NEW m \in WrittenAt(v, {p})
  PROVE  StandsFor(R!insert_at_byte_index(memory, v, p),
                   pointer_targets \cup referenced_ids(v.data), m)
<1>. DEFINE T == pointer_targets \cup referenced_ids(v.data)
<1>1. /\ m \in R!Memories /\ R!ChangedOnly(mem, m, R!Span(p, v.size))
      /\ Represented(v.data, R!Word(m, p, v.size))
  BY WriteReaches
<1>2. RegionIds(memory) \subseteq T /\ v.data.ids \subseteq T
  BY DEF ObjInv, StandsFor, referenced_ids
<1>4. RegionIds(R!insert_at_byte_index(memory, v, p)) \subseteq T
  BY <1>2, InsertedIds
<1>3. /\ R!WellFormed(R!insert_at_byte_index(memory, v, p))
      /\ R!Sound(R!insert_at_byte_index(memory, v, p), m)
  BY <1>1, R!InsertSound, DataIsValueDomain DEF ObjInv, StandsFor
<1>. QED BY <1>1, <1>3, <1>4 DEF StandsFor

LEMMA WrittenValueType == ASSUME NEW v \in WrittenValues PROVE v \in R!Value
BY InputAssumption DEF WrittenValues, R!Value

LEMMA SetValueAtPreserves ==
  ASSUME ObjInv, NEW v \in WrittenValues, NEW p \in Positions,
         SetValueAt(v, p) \/ MergeValueAt(v, p)
  PROVE  ObjInv'
<1>1. v \in R!Value
  BY WrittenValueType
<1>2. /\ R!Span(p, v.size) \subseteq Positions
      /\ pointer_targets' = pointer_targets \cup referenced_ids(v.data)
      /\ \/ /\ memory' = R!insert_at_byte_index(memory, v, p)
            /\ mem' \in WrittenAt(v, {p})
         \/ /\ memory' = MergedIn(v, p)
            /\ mem' \in WrittenAt(v, {p}) \cup {mem}
  BY SameRegions, SameOperations DEF SetValueAt, MergeValueAt
<1>. QED BY <1>1, <1>2, MergedInSound, StrongUpdateSound DEF ObjInv

LEMMA SetValueInIntervalPreserves ==
  ASSUME ObjInv, NEW v \in WrittenValues, NEW start \in Positions, NEW end \in Positions,
         SetValueInInterval(v, start, end)
  PROVE  ObjInv'
<1>. DEFINE keys == R!Intersecting(memory, start, end + v.size)
<1>1. v \in R!Value /\ start \in Int /\ end \in Int /\ v.size \in Nat \ {0}
  BY WrittenValueType, RegionAssumption DEF R!Value
<1>2. /\ memory' = R!MergedWithTop(memory, keys)
      /\ mem' \in WrittenAt(v, start..end) \cup {mem}
      /\ pointer_targets' = pointer_targets \cup referenced_ids(v.data)
  BY SameOperations DEF SetValueInInterval, Region!mark_interval_values_as_top
<1>3. PICK p \in start..end : R!ChangedOnly(mem, mem', R!Span(p, v.size))
  <2>1. CASE mem' = mem
    BY <1>1, <2>1 DEF R!ChangedOnly, SetValueInInterval
  <2>2. CASE mem' \in WrittenAt(v, start..end)
    BY <1>1, <2>2, WriteReaches
  <2>. QED BY <1>2, <2>1, <2>2
<1>4. mem' \in R!Memories
  BY <1>1, <1>2, WriteReaches DEF ObjInv, StandsFor
<1>5. R!Untouched(memory, keys, R!Span(p, v.size))
  <2>. SUFFICES ASSUME NEW q \in DOMAIN memory, q \notin keys
                PROVE  R!Span(q, memory[q].size) \cap R!Span(p, v.size) = {}
    BY DEF R!Untouched
  <2>1. q \in Int /\ memory[q].size \in Nat
    BY R!StoredValue, DataIsValueDomain DEF ObjInv, StandsFor
  <2>2. q + memory[q].size <= start \/ end + v.size <= q
    BY <1>1, R!IntersectingComplete, DataIsValueDomain DEF ObjInv, StandsFor
  <2>. QED BY <1>1, <2>1, <2>2 DEF R!Span
<1>. HIDE DEF keys
<1>6. R!WellFormed(memory') /\ R!Sound(memory', mem')
  <2>. DEFINE S == R!Span(p, v.size)
  <2>1. R!ChangedOnly(mem, mem', S) /\ R!Untouched(memory, keys, S)
    BY <1>3, <1>5
  <2>. HIDE DEF S
  <2>2. R!Sound(R!MergedWithTop(memory, keys), mem')
    BY <1>4, <2>1, R!MergedWithTopSound, DataIsValueDomain DEF ObjInv, StandsFor
  <2>3. R!WellFormed(R!MergedWithTop(memory, keys))
    BY R!MergedWithTopKeeps, DataIsValueDomain DEF ObjInv, StandsFor
  <2>. QED BY <1>2, <2>2, <2>3
<1>7. RegionIds(memory') \subseteq pointer_targets'
  BY <1>2, MarkedIds DEF ObjInv, StandsFor
<1>. QED BY <1>4, <1>6, <1>7 DEF ObjInv, StandsFor

(* Writes to an unknown offset, and objects that are overwritten at one.   *)
LEMMA MarkAllPreserves ==
  ASSUME ObjInv, memory' = Region!mark_all_values_as_top(memory),
         mem' \in R!Memories, pointer_targets \subseteq pointer_targets'
  PROVE  ObjInv'
<1>1. memory' = R!MergedWithTop(memory, DOMAIN memory)
  BY SameOperations DEF Region!mark_all_values_as_top
<1>2. R!WellFormed(memory') /\ R!Sound(memory', mem')
  BY <1>1, MarkAllSound DEF ObjInv, StandsFor
<1>3. RegionIds(memory') \subseteq pointer_targets'
  BY <1>1, MarkedIds DEF ObjInv, StandsFor
<1>. QED BY <1>2, <1>3 DEF ObjInv, StandsFor

LEMMA UnknownOffsetPreserves ==
  ASSUME ObjInv,
         \/ \E v \in WrittenValues : SetValueAnywhere(v)
         \/ \E ids \in SUBSET Ids : AssumeArbitraryWrites(ids)
         \/ \E o \in CalleeObjects : OverwriteAtUnknownOffset(o)
  PROVE  ObjInv'
<1>1. mem' \in R!Memories
  BY WriteReaches, WrittenValueType, SameRegions
     DEF ObjInv, StandsFor, SetValueAnywhere, AssumeArbitraryWrites, OverwriteAtUnknownOffset
<1>2. /\ memory' = Region!mark_all_values_as_top(memory)
      /\ pointer_targets \subseteq pointer_targets'
  BY DEF SetValueAnywhere, AssumeArbitraryWrites, OverwriteAtUnknownOffset
<1>. QED BY <1>1, <1>2, MarkAllPreserves

-----------------------------------------------------------------------------
(* Identifiers change.                                                     *)

(* Changing every stored value and dropping those that became Top.         *)
LEMMA MapDataKeeps ==
  ASSUME NEW vs, R!WellFormed(vs), NEW f, \A d \in DataSet : f[d] \in DataSet
  PROVE  LET t == R!clear_top_values(MapData(vs, f)) IN
           /\ R!WellFormed(t)
           /\ DOMAIN t \subseteq DOMAIN vs
           /\ \A p \in DOMAIN t : t[p].size = vs[p].size /\ t[p].data = f[vs[p].data]
<1>. DEFINE e == MapData(vs, f)
<1>1. DOMAIN e = DOMAIN vs /\ e = [p \in DOMAIN e |-> e[p]]
  BY DEF MapData
<1>2. ASSUME NEW p \in DOMAIN vs
      PROVE  /\ e[p] \in R!Value /\ e[p].size = vs[p].size /\ e[p].data = f[vs[p].data]
             /\ p \in Positions /\ R!Span(p, vs[p].size) \subseteq Positions
  <2>1. vs[p] \in R!Value /\ p \in Positions /\ R!Span(p, vs[p].size) \subseteq Positions
    BY DEF R!WellFormed, R!IsRegion
  <2>2. e[p] = [vs[p] EXCEPT !.data = f[vs[p].data]]
    BY DEF MapData
  <2>. QED BY <2>1, <2>2 DEF R!Value
<1>. HIDE DEF e
<1>3. R!IsRegion(e)
  BY <1>1, <1>2 DEF R!IsRegion
<1>4. R!Disjoint(e)
  BY <1>1, <1>2 DEF R!WellFormed, R!Disjoint
<1>5. /\ R!WellFormed(R!clear_top_values(e))
      /\ DOMAIN R!clear_top_values(e) \subseteq DOMAIN e
      /\ \A p \in DOMAIN R!clear_top_values(e) : R!clear_top_values(e)[p] = e[p]
  BY <1>3, <1>4, R!ClearTopKeeps, DataIsValueDomain
<1>. QED BY <1>1, <1>2, <1>5 DEF e

(* The kind of a represented word is the kind of its bytes.                *)
LEMMA WordKind ==
  ASSUME NEW d, NEW m, NEW p \in Int, NEW s \in Nat, s > 0,
         Represented(d, R!Word(m, p, s)), ~ d.top
  PROVE  \E kind \in Kinds :
           /\ Represents(d, kind)
           /\ \A i \in 0..(s - 1) : m[p + i] = [kind |-> kind, index |-> i]
<1>1. PICK kind \in Kinds :
        /\ Represents(d, kind)
        /\ R!Word(m, p, s) = [i \in DOMAIN R!Word(m, p, s) |-> [kind |-> kind, index |-> i]]
  BY DEF Represented
<1>2. /\ DOMAIN R!Word(m, p, s) = 0..(s - 1)
      /\ \A i \in 0..(s - 1) : R!Word(m, p, s)[i] = m[p + i]
  BY DEF R!Word
<1>3. \A i \in 0..(s - 1) : R!Word(m, p, s)[i] = [kind |-> kind, index |-> i]
  BY <1>1, <1>2
<1>. QED BY <1>1, <1>2, <1>3

LEMMA WordOfKind ==
  ASSUME NEW d, NEW m, NEW p, NEW s, NEW kind \in Kinds, Represents(d, kind),
         \A i \in 0..(s - 1) : m[p + i] = [kind |-> kind, index |-> i]
  PROVE  Represented(d, R!Word(m, p, s))
<1>1. R!Word(m, p, s) = [i \in 0..(s - 1) |-> [kind |-> kind, index |-> i]]
  BY DEF R!Word
<1>2. DOMAIN R!Word(m, p, s) = 0..(s - 1)
  BY DEF R!Word
<1>. QED BY <1>1, <1>2 DEF Represented

LEMMA RemoveIdsPreserves ==
  ASSUME ObjInv, NEW ids \in SUBSET Ids, RemoveIds(ids)
  PROVE  ObjInv'
<1>. DEFINE f == [d \in DataSet |-> LET r == DataRemoveIds(d, ids)
                                    IN  IF is_empty(r) THEN new_top ELSE r]
<1>1. \A d \in DataSet :
        /\ f[d] \in DataSet /\ f[d].ids \subseteq d.ids \ ids
        /\ d.top => f[d].top
        /\ \A kind \in Kinds : Represents(d, kind) /\ kind \notin ids => Represents(f[d], kind)
  BY DEF DataSet, DataRemoveIds, is_empty, new_top, new_empty, Represents
<1>. HIDE DEF f
<1>2. /\ memory' = R!clear_top_values(MapData(memory, f))
      /\ mem' = mem /\ pointer_targets' = pointer_targets \ ids
      /\ \A p \in Positions : mem[p].kind \notin ids
  BY SameOperations DEF RemoveIds, f
<1>3. /\ R!WellFormed(memory') /\ DOMAIN memory' \subseteq DOMAIN memory
      /\ \A p \in DOMAIN memory' : /\ memory'[p].size = memory[p].size
                                   /\ memory'[p].data = f[memory[p].data]
  BY <1>1, <1>2, MapDataKeeps DEF ObjInv, StandsFor
<1>4. ASSUME NEW p \in DOMAIN memory'
      PROVE  Represented(memory'[p].data, R!Word(mem, p, memory'[p].size))
  <2>1. /\ p \in Int /\ p \in Positions /\ memory[p].size \in Nat /\ memory[p].size > 0
        /\ memory[p].data \in DataSet
    BY <1>3, R!StoredValue, DataIsValueDomain DEF ObjInv, StandsFor
  <2>2. Represented(memory[p].data, R!Word(mem, p, memory[p].size))
    BY <1>3 DEF ObjInv, StandsFor, R!Sound
  <2>3. CASE memory[p].data.top
    BY <1>1, <1>3, <2>1, <2>3 DEF Represented
  <2>4. CASE ~ memory[p].data.top
    <3>1. PICK kind \in Kinds :
            /\ Represents(memory[p].data, kind)
            /\ \A i \in 0..(memory[p].size - 1) : mem[p + i] = [kind |-> kind, index |-> i]
      BY <2>1, <2>2, <2>4, WordKind
    <3>2. mem[p] = [kind |-> kind, index |-> 0]
      <4>1. 0 \in 0..(memory[p].size - 1) /\ p + 0 = p
        BY <2>1
      <4>2. mem[p + 0] = [kind |-> kind, index |-> 0]
        BY <3>1, <4>1
      <4>. QED BY <4>1, <4>2
    <3>3. kind \notin ids
      BY <1>2, <2>1, <3>2
    <3>4. Represents(memory'[p].data, kind)
      BY <1>1, <1>3, <2>1, <3>1, <3>3
    <3>. QED BY <1>3, <3>1, <3>4, WordOfKind
  <2>. QED BY <2>3, <2>4
<1>5. ASSUME NEW p \in DOMAIN memory'
      PROVE  memory'[p].data.ids \subseteq pointer_targets'
  <2>1. memory[p].data \in DataSet /\ memory[p].data.ids \subseteq pointer_targets
    BY <1>3, R!StoredValue, DataIsValueDomain, RegionIdsCovered DEF ObjInv, StandsFor
  <2>. QED BY <1>1, <1>2, <1>3, <2>1
<1>6. RegionIds(memory') \subseteq pointer_targets'
  BY <1>5, RegionIdsCovered
<1>. QED BY <1>2, <1>3, <1>4, <1>6 DEF ObjInv, StandsFor, R!Sound

(* Renaming the pointers of a represented word the way a replacement map   *)
(* allows gives a word that the value with replaced identifiers represents.*)
LEMMA RenamedIsRepresented ==
  ASSUME NEW rm \in ReplacementMaps, NEW f \in Renamings(rm),
         NEW d \in DataSet, NEW m \in R!Memories, NEW m2,
         m2 = [q \in Positions |-> [m[q] EXCEPT !.kind = f[@]]],
         NEW p \in Int, NEW s \in Sizes, R!Span(p, s) \subseteq Positions,
         Represented(d, R!Word(m, p, s))
  PROVE  Represented(replace_all_ids(d, rm), R!Word(m2, p, s))
<1>1. s \in Nat /\ s > 0
  BY RegionAssumption
<1>2. CASE d.top
  BY <1>2 DEF Represented, replace_all_ids
<1>3. CASE ~ d.top
  <2>1. PICK kind \in Kinds :
          /\ Represents(d, kind)
          /\ \A i \in 0..(s - 1) : m[p + i] = [kind |-> kind, index |-> i]
    BY <1>1, <1>3, WordKind
  <2>2. f[kind] \in Kinds /\ f[Absolute] = Absolute
        /\ \A id \in Ids \cap DOMAIN rm : Represents(rm[id], f[id])
    BY DEF Renamings
  <2>3. Represents(replace_all_ids(d, rm), f[kind])
    <3>1. CASE kind \in d.ids /\ kind \in DOMAIN rm
      <4>1. kind \in Ids
        BY <3>1 DEF DataSet
      <4>2. Represents(rm[kind], f[kind])
        BY <2>2, <3>1, <4>1
      <4>3. kind \in d.ids \cap DOMAIN rm
        BY <3>1
      <4>4. CASE rm[kind].top
        BY <4>3, <4>4 DEF Represents, replace_all_ids
      <4>5. CASE f[kind] \in rm[kind].ids
        BY <4>3, <4>5 DEF Represents, replace_all_ids
      <4>6. CASE rm[kind].abs /\ f[kind] = Absolute
        BY <4>3, <4>6 DEF Represents, replace_all_ids
      <4>. QED BY <4>2, <4>4, <4>5, <4>6 DEF Represents
    <3>2. CASE kind \in d.ids /\ kind \notin DOMAIN rm
      BY <3>2 DEF Represents, replace_all_ids
    <3>3. CASE d.abs /\ kind = Absolute
      BY <2>2, <3>3 DEF Represents, replace_all_ids
    <3>. QED BY <1>3, <2>1, <3>1, <3>2, <3>3 DEF Represents
  <2>4. ASSUME NEW i \in 0..(s - 1)
        PROVE  m2[p + i] = [kind |-> f[kind], index |-> i]
    <3>1. p + i \in Positions
      BY <1>1 DEF R!Span
    <3>2. m[p + i] = [kind |-> kind, index |-> i]
      BY <2>1
    <3>. QED BY <3>1, <3>2
  <2>. QED BY <2>2, <2>3, <2>4, WordOfKind
<1>. QED BY <1>2, <1>3

LEMMA RenamedIsMemory ==
  ASSUME NEW rm, NEW f \in Renamings(rm), NEW m \in R!Memories
  PROVE  [q \in Positions |-> [m[q] EXCEPT !.kind = f[@]]] \in R!Memories
BY DEF Renamings, R!Memories, Byte

LEMMA ReplacedType ==
  ASSUME NEW rm \in ReplacementMaps, NEW d \in DataSet
  PROVE  replace_all_ids(d, rm) \in DataSet
<1>1. \A id \in DOMAIN rm : rm[id] \in DataSet
  BY InputAssumption
<1>2. UNION {rm[id].ids : id \in d.ids \cap DOMAIN rm} \subseteq Ids
  BY <1>1 DEF DataSet
<1>3. replace_all_ids(d, rm).ids = UNION {rm[id].ids : id \in d.ids \cap DOMAIN rm}
  BY DEF replace_all_ids
<1>. QED BY <1>2 DEF replace_all_ids, DataSet

LEMMA ReplaceIdsPreserves ==
  ASSUME ObjInv, NEW rm \in ReplacementMaps, ReplaceIds(rm)
  PROVE  ObjInv'
<1>. DEFINE g == [d \in DataSet |-> replace_all_ids(d, rm)]
<1>1. \A d \in DataSet : g[d] \in DataSet /\ g[d] = replace_all_ids(d, rm)
  BY ReplacedType
<1>. HIDE DEF g
<1>2. /\ memory' = R!clear_top_values(MapData(memory, g))
      /\ pointer_targets' =
           UNION {referenced_ids(rm[id]) : id \in pointer_targets \cap DOMAIN rm}
  BY SameOperations DEF ReplaceIds, g
<1>3. PICK f \in Renamings(rm) :
        mem' = [p \in Positions |-> [mem[p] EXCEPT !.kind = f[@]]]
  BY DEF ReplaceIds
<1>4. mem' \in R!Memories
  BY <1>3, RenamedIsMemory DEF ObjInv, StandsFor
<1>5. /\ R!WellFormed(memory') /\ DOMAIN memory' \subseteq DOMAIN memory
      /\ \A p \in DOMAIN memory' : /\ memory'[p].size = memory[p].size
                                   /\ memory'[p].data = g[memory[p].data]
  BY <1>1, <1>2, MapDataKeeps DEF ObjInv, StandsFor
<1>6. ASSUME NEW p \in DOMAIN memory'
      PROVE  /\ Represented(memory'[p].data, R!Word(mem', p, memory'[p].size))
             /\ memory'[p].data.ids \subseteq pointer_targets'
  <2>1. /\ p \in Int /\ memory[p].size \in Sizes /\ memory[p].data \in DataSet
        /\ R!Span(p, memory[p].size) \subseteq Positions
        /\ memory[p].data.ids \subseteq pointer_targets
    BY <1>5, R!StoredValue, DataIsValueDomain, RegionIdsCovered DEF ObjInv, StandsFor
  <2>2. Represented(memory[p].data, R!Word(mem, p, memory[p].size))
    BY <1>5 DEF ObjInv, StandsFor, R!Sound
  <2>3. memory'[p].data = replace_all_ids(memory[p].data, rm)
    BY <1>1, <1>5, <2>1
  <2>4. Represented(replace_all_ids(memory[p].data, rm), R!Word(mem', p, memory[p].size))
    BY <1>3, <2>1, <2>2, RenamedIsRepresented DEF ObjInv, StandsFor
  <2>5. replace_all_ids(memory[p].data, rm).ids
          = UNION {rm[id].ids : id \in memory[p].data.ids \cap DOMAIN rm}
    BY DEF replace_all_ids
  <2>6. replace_all_ids(memory[p].data, rm).ids \subseteq pointer_targets'
    BY <1>2, <2>1, <2>5 DEF referenced_ids
  <2>. QED BY <1>5, <2>3, <2>4, <2>6
<1>7. RegionIds(memory') \subseteq pointer_targets'
  BY <1>6, RegionIdsCovered
<1>. QED BY <1>4, <1>5, <1>6, <1>7 DEF ObjInv, StandsFor, R!Sound

-----------------------------------------------------------------------------
(* Whole-object operations.                                                *)

(* Merging with an object that comes in.                                   *)
LEMMA MergePreserves ==
  ASSUME ObjInv, NEW o \in CalleeObjects, MergeObject(o) \/ InsertAgain(o)
  PROVE  ObjInv'
<1>1. R!WellFormed(o.memory) /\ RegionIds(o.memory) \subseteq o.pointer_targets
  BY Incoming
<1>2. /\ memory' = R!merge(memory, o.memory) \/ memory' = R!merge(o.memory, memory)
      /\ mem' \in {mem} \cup DescribedBy(o.memory, 0)
      /\ pointer_targets' = pointer_targets \cup o.pointer_targets
  BY SameOperations DEF MergeObject, InsertAgain
<1>3. mem' \in R!Memories /\ (R!Sound(memory, mem') \/ R!Sound(o.memory, mem'))
  BY <1>1, <1>2, DescribedIsSound DEF ObjInv, StandsFor
<1>4. R!WellFormed(memory)
  BY DEF ObjInv, StandsFor
<1>5. R!WellFormed(memory') /\ R!Sound(memory', mem')
  BY <1>1, <1>2, <1>3, <1>4, R!MergeSound, DataIsValueDomain
<1>6. RegionIds(memory') \subseteq RegionIds(memory) \cup RegionIds(o.memory)
  BY <1>1, <1>2, <1>4, MergedIds
<1>7. RegionIds(memory') \subseteq pointer_targets'
  BY <1>1, <1>2, <1>6 DEF ObjInv, StandsFor
<1>. QED BY <1>3, <1>5, <1>7 DEF ObjInv, StandsFor

(* Inserting the values of one region into another.                        *)
LEMMA InsertAllKeeps ==
  ASSUME NEW vs, R!WellFormed(vs), NEW other, R!IsRegion(other), R!Disjoint(other)
  PROVE  LET t == InsertAll(vs, other) IN
           /\ R!IsRegion(t) /\ R!Disjoint(t)
           /\ \A p \in DOMAIN t :
                \/ p \in DOMAIN other /\ t[p] = other[p]
                \/ p \in DOMAIN vs /\ t[p] = vs[p]
<1>. DEFINE kept == {p \in DOMAIN vs : \A q \in DOMAIN other :
                       p \notin R!Intersecting(vs, q, q + other[q].size)}
            t == InsertAll(vs, other)
<1>1. /\ DOMAIN t = kept \cup DOMAIN other
      /\ t = [p \in DOMAIN t |-> t[p]]
      /\ \A p \in DOMAIN t : t[p] = IF p \in DOMAIN other THEN other[p] ELSE vs[p]
  BY SameOperations DEF InsertAll
<1>2. \A p \in DOMAIN vs :
        /\ p \in Int /\ p \in Positions /\ vs[p].size \in Nat /\ vs[p] \in R!Value
        /\ R!Span(p, vs[p].size) \subseteq Positions
  BY R!StoredValue, DataIsValueDomain DEF R!WellFormed, R!IsRegion
<1>3. \A q \in DOMAIN other :
        /\ q \in Int /\ q \in Positions /\ other[q].size \in Nat /\ other[q] \in R!Value
        /\ R!Span(q, other[q].size) \subseteq Positions
  BY RegionAssumption DEF R!IsRegion, R!Value
<1>4. ASSUME NEW p \in kept, NEW q \in DOMAIN other
      PROVE  p + vs[p].size <= q \/ q + other[q].size <= p
  BY <1>2, <1>3, R!IntersectingComplete, DataIsValueDomain
<1>5. kept \subseteq DOMAIN vs
  OBVIOUS
<1>. HIDE DEF t, kept
<1>6. R!IsRegion(t)
  BY <1>1, <1>2, <1>3, <1>5 DEF R!IsRegion
<1>7. R!Disjoint(t)
  <2>. SUFFICES ASSUME NEW p \in DOMAIN t, NEW q \in DOMAIN t, p < q
                PROVE  p + t[p].size <= q
    BY DEF R!Disjoint
  <2>1. CASE p \in DOMAIN other /\ q \in DOMAIN other
    BY <1>1, <2>1 DEF R!Disjoint
  <2>2. CASE p \in DOMAIN other /\ q \notin DOMAIN other
    <3>1. /\ q \in kept /\ q \in Int /\ vs[q].size \in Nat /\ p \in Int
          /\ other[p].size \in Nat /\ t[p] = other[p]
      BY <1>1, <1>2, <1>3, <1>5, <2>2
    <3>. QED BY <1>4, <2>2, <3>1
  <2>3. CASE p \notin DOMAIN other /\ q \in DOMAIN other
    <3>1. /\ p \in kept /\ q \in Int /\ vs[p].size \in Nat /\ p \in Int
          /\ other[q].size \in Nat /\ t[p] = vs[p]
      BY <1>1, <1>2, <1>3, <1>5, <2>3
    <3>. QED BY <1>4, <2>3, <3>1
  <2>4. CASE p \notin DOMAIN other /\ q \notin DOMAIN other
    BY <1>1, <1>5, <2>4 DEF R!WellFormed, R!Disjoint
  <2>. QED BY <2>1, <2>2, <2>3, <2>4
<1>. QED BY <1>1, <1>5, <1>6, <1>7 DEF t

(* Values that may have been overwritten represent every memory.           *)
LEMMA MarkedRepresents ==
  ASSUME NEW vs, R!WellFormed(vs), NEW keys,
         NEW p \in DOMAIN R!MergedWithTop(vs, keys), p \in keys, NEW w
  PROVE  Represented(R!MergedWithTop(vs, keys)[p].data, w)
<1>1. R!MergedWithTop(vs, keys)[p].data = DataMerge(vs[p].data, new_top)
  BY R!MergedWithTopKeeps, DataIsValueDomain
<1>2. ASSUME NEW d PROVE DataMerge(d, new_top).top = TRUE
  BY DEF DataMerge, new_top
<1>. QED BY <1>1, <1>2 DEF Represented

LEMMA OverwriteWithPreserves ==
  ASSUME ObjInv, NEW o \in CalleeObjects, NEW offset \in Region!Offsets,
         OverwriteWith(o, offset)
  PROVE  ObjInv'
<1>. DEFINE shifted == R!add_offset_to_all_indices(o.memory, offset)
            marked == R!MergedWithTop(memory, DOMAIN memory)
<1>1. R!WellFormed(o.memory) /\ RegionIds(o.memory) \subseteq o.pointer_targets
  BY Incoming
<1>2. /\ memory' = IF is_unique THEN InsertAll(marked, shifted) ELSE R!merge(memory, shifted)
      /\ mem' \in DescribedBy(o.memory, offset) \cup (IF is_unique THEN {} ELSE {mem})
      /\ pointer_targets' = pointer_targets \cup o.pointer_targets
      /\ \A p \in DOMAIN o.memory :
           Region!Span(p + offset, o.memory[p].size) \subseteq Positions
  BY SameOperations DEF OverwriteWith, Region!mark_all_values_as_top
<1>3. /\ R!WellFormed(shifted)
      /\ RegionIds(shifted) = RegionIds(o.memory)
      /\ \A m \in DescribedBy(o.memory, offset) : m \in R!Memories /\ R!Sound(shifted, m)
  BY <1>1, <1>2, ShiftedIsSound
<1>4. R!WellFormed(memory) /\ mem \in R!Memories /\ R!Sound(memory, mem)
      /\ RegionIds(memory) \subseteq pointer_targets
  BY DEF ObjInv, StandsFor
<1>5. mem' \in R!Memories
  BY <1>2, <1>3, <1>4
<1>. HIDE DEF shifted
<1>6. CASE ~ is_unique
  <2>1. R!Sound(memory, mem') \/ R!Sound(shifted, mem')
    BY <1>2, <1>3, <1>4, <1>6
  <2>2. R!WellFormed(memory') /\ R!Sound(memory', mem')
    BY <1>2, <1>3, <1>4, <1>5, <1>6, <2>1, R!MergeSound, DataIsValueDomain
  <2>3. RegionIds(memory') \subseteq RegionIds(memory) \cup RegionIds(shifted)
    BY <1>2, <1>3, <1>4, <1>6, MergedIds
  <2>4. RegionIds(memory') \subseteq pointer_targets'
    BY <1>1, <1>2, <1>3, <1>4, <2>3
  <2>. QED BY <1>5, <2>2, <2>4 DEF ObjInv, StandsFor
<1>7. CASE is_unique
  <2>1. /\ R!WellFormed(marked) /\ RegionIds(marked) \subseteq RegionIds(memory)
        /\ DOMAIN marked \subseteq DOMAIN memory
    BY <1>4, R!MergedWithTopKeeps, DataIsValueDomain, MarkedIds
  <2>2. \A p \in DOMAIN marked : \A w : Represented(marked[p].data, w)
    BY <1>4, <2>1, MarkedRepresents
  <2>. HIDE DEF marked
  <2>3. memory' = InsertAll(marked, shifted)
    BY <1>2, <1>7
  <2>4. R!Sound(shifted, mem')
    BY <1>2, <1>3, <1>7
  <2>5. /\ R!IsRegion(memory') /\ R!Disjoint(memory')
        /\ \A p \in DOMAIN memory' :
             \/ p \in DOMAIN shifted /\ memory'[p] = shifted[p]
             \/ p \in DOMAIN marked /\ memory'[p] = marked[p]
    BY <1>3, <2>1, <2>3, InsertAllKeeps DEF R!WellFormed
  <2>6. R!NoTopStored(memory')
    BY <1>3, <2>1, <2>5 DEF R!WellFormed, R!NoTopStored
  <2>7. R!Sound(memory', mem')
    BY <2>2, <2>4, <2>5 DEF R!Sound
  <2>8. RegionIds(marked) \subseteq pointer_targets' /\ RegionIds(shifted) \subseteq pointer_targets'
    BY <1>1, <1>2, <1>3, <1>4, <2>1
  <2>9. \A p \in DOMAIN memory' : memory'[p].data.ids \subseteq pointer_targets'
    BY <2>5, <2>8, RegionIdsCovered
  <2>10. RegionIds(memory') \subseteq pointer_targets'
    BY <2>9, RegionIdsCovered
  <2>. QED BY <1>5, <2>5, <2>6, <2>7, <2>10 DEF ObjInv, StandsFor, R!WellFormed
<1>. QED BY <1>6, <1>7

LEMMA AddOffsetPreserves ==
  ASSUME ObjInv, NEW offset \in Region!Offsets, AddOffsetToAllIndices(offset)
  PROVE  ObjInv'
<1>1. R!AddOffset(offset) /\ offset \in R!Offsets /\ pointer_targets' = pointer_targets
  BY SameRegions, SameOperations DEF AddOffsetToAllIndices, Region!AddOffset, R!AddOffset
<1>2. R!IInv
  BY DEF ObjInv, StandsFor, R!IInv
<1>3. R!IInv'
  BY <1>1, <1>2, R!AddOffsetPreserves, DataIsValueDomain
<1>4. R!WellFormed(memory') /\ mem' \in R!Memories /\ R!Sound(memory', mem')
  BY <1>3 DEF R!IInv
<1>5. RegionIds(memory') = RegionIds(memory)
  <2>1. CASE offset = 0
    BY <1>1, <2>1 DEF R!AddOffset
  <2>2. CASE offset # 0
    <3>1. /\ memory' = R!add_offset_to_all_indices(memory, offset)
          /\ \A p \in DOMAIN memory :
               Region!Span(p + offset, memory[p].size) \subseteq Positions
      BY <1>1, <2>2, SameRegions DEF R!AddOffset
    <3>. QED BY <3>1, ShiftedIsSound DEF ObjInv, StandsFor
  <2>. QED BY <2>1, <2>2
<1>. QED BY <1>1, <1>4, <1>5 DEF ObjInv, StandsFor

LEMMA AddUnknownOffsetPreserves ==
  ASSUME ObjInv, AddUnknownOffset
  PROVE  ObjInv'
<1>1. memory' = R!Empty /\ mem' \in R!Memories
  BY SameRegions DEF AddUnknownOffset
<1>2. DOMAIN memory' = {} /\ memory' = [p \in DOMAIN memory' |-> memory'[p]]
  BY <1>1 DEF R!Empty
<1>. QED BY <1>1, <1>2 DEF ObjInv, StandsFor, R!WellFormed, R!IsRegion, R!Disjoint,
                             R!NoTopStored, R!Sound, RegionIds

-----------------------------------------------------------------------------
(* Return from a callee to the global memory object of the caller.         *)

(* A value that is not marked as possibly overwritten has no byte in a     *)
(* writable global variable.                                               *)
LEMMA UnmarkedNotWritable ==
  ASSUME NEW vs, R!WellFormed(vs), NEW iv \in IntervalMaps, NEW p \in DOMAIN vs,
         \A i \in DOMAIN iv : iv[i] => p \notin IntervalKeys(vs, iv, i),
         NEW b \in R!Span(p, vs[p].size)
  PROVE  ~ Writable(iv, b)
<1>. SUFFICES ASSUME NEW i \in DOMAIN iv, iv[i], InInterval(iv, i, b) PROVE FALSE
  BY DEF Writable
<1>1. p \in Int /\ vs[p].size \in Nat /\ b \in Int /\ p <= b /\ b < p + vs[p].size
  BY R!StoredValue, DataIsValueDomain DEF R!Span
<1>2. \A j \in DOMAIN iv : j \in Int
  BY InputAssumption, RegionAssumption
<1>3. i <= b /\ \A j \in DOMAIN iv : i < j => b < j
  BY DEF InInterval
<1>4. CASE i <= p
  <2>1. InInterval(iv, i, p)
    BY <1>1, <1>2, <1>3, <1>4 DEF InInterval
  <2>. QED BY <2>1 DEF IntervalKeys
<1>5. CASE p < i
  <2>1. \A q \in DOMAIN vs : q \in Int /\ (p < q => p + vs[p].size <= q)
    BY R!StoredValue, DataIsValueDomain DEF R!WellFormed, R!Disjoint
  <2>2. Region!IsPrevious(vs, p, i)
    BY <1>1, <1>2, <1>3, <1>5, <2>1 DEF Region!IsPrevious
  <2>3. p + vs[p].size > i
    BY <1>1, <1>2, <1>3
  <2>. QED BY <2>2, <2>3 DEF IntervalKeys
<1>. QED BY <1>1, <1>2, <1>4, <1>5

LEMMA MergeGlobalPreserves ==
  ASSUME ObjInv, NEW o \in CalleeObjects, NEW iv \in IntervalMaps, NEW rm \in ReplacementMaps,
         MergeGlobalMemFromCallee(o, iv, rm)
  PROVE  ObjInv'
<1>. DEFINE keys == UNION {IntervalKeys(memory, iv, i) : i \in {j \in DOMAIN iv : iv[j]}}
            marked == R!MergedWithTop(memory, keys)
            new == [p \in {q \in DOMAIN o.memory : Writable(iv, q)} |->
                      [o.memory[p] EXCEPT !.data = replace_all_ids(@, rm)]]
            e == InsertAll(marked, new)
<1>1. R!WellFormed(o.memory)
  BY Incoming
<1>2. /\ memory' = R!clear_top_values(e)
      /\ pointer_targets' = pointer_targets \cup RegionIds(new)
      /\ \A p \in Positions : ~ Writable(iv, p) => mem'[p] = mem[p]
  BY SameOperations DEF MergeGlobalMemFromCallee, PotentiallyOverwritten
<1>3. \E callee \in DescribedBy(o.memory, 0) : \E f \in Renamings(rm) :
        mem' = [p \in Positions |-> [callee[p] EXCEPT !.kind = f[@]]]
  BY DEF MergeGlobalMemFromCallee
<1>4. PICK callee \in DescribedBy(o.memory, 0) : \E f \in Renamings(rm) :
        mem' = [p \in Positions |-> [callee[p] EXCEPT !.kind = f[@]]]
  BY <1>3
<1>5. PICK f \in Renamings(rm) :
        mem' = [p \in Positions |-> [callee[p] EXCEPT !.kind = f[@]]]
  BY <1>4
<1>6. callee \in R!Memories /\ R!Sound(o.memory, callee)
  BY <1>1, DescribedIsSound
<1>7. mem' \in R!Memories
  BY <1>5, <1>6, RenamedIsMemory
<1>8. R!WellFormed(memory) /\ mem \in R!Memories /\ R!Sound(memory, mem)
      /\ RegionIds(memory) \subseteq pointer_targets
  BY DEF ObjInv, StandsFor
<1>9. \A p \in DOMAIN o.memory :
        /\ p \in Int /\ p \in Positions /\ o.memory[p].size \in Sizes
        /\ o.memory[p].data \in DataSet /\ o.memory[p] \in R!Value
        /\ R!Span(p, o.memory[p].size) \subseteq Positions
  BY <1>1, R!StoredValue, DataIsValueDomain DEF R!WellFormed, R!IsRegion
<1>10. /\ DOMAIN new \subseteq DOMAIN o.memory
       /\ new = [p \in DOMAIN new |-> new[p]]
       /\ \A p \in DOMAIN new :
            new[p] = [o.memory[p] EXCEPT !.data = replace_all_ids(o.memory[p].data, rm)]
  OBVIOUS
<1>. HIDE DEF new
<1>11. ASSUME NEW p \in DOMAIN new
       PROVE  /\ new[p] \in R!Value /\ new[p].size = o.memory[p].size
              /\ new[p].data = replace_all_ids(o.memory[p].data, rm)
  BY <1>9, <1>10, ReplacedType DEF R!Value
<1>12. R!IsRegion(new) /\ R!Disjoint(new)
  <2>1. R!IsRegion(new)
    BY <1>9, <1>10, <1>11 DEF R!IsRegion
  <2>2. R!Disjoint(new)
    BY <1>1, <1>10, <1>11 DEF R!WellFormed, R!Disjoint
  <2>. QED BY <2>1, <2>2
<1>13. R!Sound(new, mem')
  <2>. SUFFICES ASSUME NEW p \in DOMAIN new
                PROVE  Represented(new[p].data, R!Word(mem', p, new[p].size))
    BY DEF R!Sound
  <2>1. Represented(o.memory[p].data, R!Word(callee, p, o.memory[p].size))
    BY <1>6, <1>10 DEF R!Sound
  <2>2. Represented(replace_all_ids(o.memory[p].data, rm),
                    R!Word(mem', p, o.memory[p].size))
    BY <1>5, <1>6, <1>9, <1>10, <2>1, RenamedIsRepresented
  <2>. QED BY <1>11, <2>2
<1>14. R!WellFormed(marked) /\ RegionIds(marked) \subseteq RegionIds(memory)
  BY <1>8, R!MergedWithTopKeeps, DataIsValueDomain, MarkedIds
<1>15. R!Sound(marked, mem')
  <2>. DEFINE S == {b \in Positions : Writable(iv, b)}
  <2>1. R!ChangedOnly(mem, mem', S)
    BY <1>2 DEF R!ChangedOnly
  <2>2. R!Untouched(memory, keys, S)
    BY <1>8, UnmarkedNotWritable DEF R!Untouched
  <2>. HIDE DEF S, keys
  <2>. QED BY <1>7, <1>8, <2>1, <2>2, R!MergedWithTopSound, DataIsValueDomain
<1>. HIDE DEF marked
<1>16. /\ R!IsRegion(e) /\ R!Disjoint(e)
       /\ \A p \in DOMAIN e :
            \/ p \in DOMAIN new /\ e[p] = new[p]
            \/ p \in DOMAIN marked /\ e[p] = marked[p]
  BY <1>12, <1>14, InsertAllKeeps
<1>. HIDE DEF e
<1>17. /\ R!WellFormed(memory') /\ DOMAIN memory' \subseteq DOMAIN e
       /\ \A p \in DOMAIN memory' : memory'[p] = e[p]
  BY <1>2, <1>16, R!ClearTopKeeps, DataIsValueDomain
<1>18. R!Sound(memory', mem')
  BY <1>13, <1>15, <1>16, <1>17 DEF R!Sound
<1>19. RegionIds(marked) \subseteq pointer_targets' /\ RegionIds(new) \subseteq pointer_targets'
  BY <1>2, <1>8, <1>14
<1>20. \A p \in DOMAIN memory' : memory'[p].data.ids \subseteq pointer_targets'
  BY <1>16, <1>17, <1>19, RegionIdsCovered
<1>21. RegionIds(memory') \subseteq pointer_targets'
  BY <1>20, RegionIdsCovered
<1>. QED BY <1>7, <1>17, <1>18, <1>21 DEF ObjInv, StandsFor

-----------------------------------------------------------------------------
(* The inductive invariant holds in every state of every run.              *)
THEOREM ObjectInvariance == ObjSpec => []ObjInv
<1>1. ObjInit => ObjInv
  <2>. SUFFICES ASSUME ObjInit PROVE ObjInv
    OBVIOUS
  <2>1. memory = R!Empty /\ mem \in R!Memories
    BY SameRegions DEF ObjInit
  <2>2. DOMAIN memory = {} /\ memory = [p \in DOMAIN memory |-> memory[p]]
    BY <2>1 DEF R!Empty
  <2>. QED BY <2>1, <2>2 DEF ObjInv, StandsFor, R!WellFormed, R!IsRegion, R!Disjoint,
                               R!NoTopStored, R!Sound, RegionIds
<1>2. ObjInv /\ [ObjNext]_vars_object => ObjInv'
  <2>. SUFFICES ASSUME ObjInv, [ObjNext]_vars_object PROVE ObjInv'
    OBVIOUS
  <2>1. CASE UNCHANGED vars_object \/ MarkAsNotUnique \/ BecomeUnifiedObject
    <3>1. memory' = memory /\ mem' = mem /\ pointer_targets' = pointer_targets
      BY <2>1 DEF vars_object, MarkAsNotUnique, BecomeUnifiedObject
    <3>. QED BY <3>1 DEF ObjInv, StandsFor
  <2>2. CASE \E v \in WrittenValues, p \in Positions : SetValueAt(v, p) \/ MergeValueAt(v, p)
    BY <2>2, SetValueAtPreserves
  <2>3. CASE \E v \in WrittenValues, p, q \in Positions : SetValueInInterval(v, p, q)
    BY <2>3, SetValueInIntervalPreserves
  <2>4. CASE \/ \E v \in WrittenValues : SetValueAnywhere(v)
             \/ \E ids \in SUBSET Ids : AssumeArbitraryWrites(ids)
             \/ \E o \in CalleeObjects : OverwriteAtUnknownOffset(o)
    BY <2>4, UnknownOffsetPreserves
  <2>5. CASE \E ids \in SUBSET Ids : RemoveIds(ids)
    BY <2>5, RemoveIdsPreserves
  <2>6. CASE \E m \in ReplacementMaps : ReplaceIds(m)
    BY <2>6, ReplaceIdsPreserves
  <2>7. CASE \E o \in CalleeObjects, off \in Region!Offsets : OverwriteWith(o, off)
    BY <2>7, OverwriteWithPreserves
  <2>8. CASE \E o \in CalleeObjects : MergeObject(o) \/ InsertAgain(o)
    BY <2>8, MergePreserves
  <2>9. CASE \E o \in CalleeObjects, iv \in IntervalMaps, m \in ReplacementMaps :
               MergeGlobalMemFromCallee(o, iv, m)
    BY <2>9, MergeGlobalPreserves
  <2>10. CASE \E off \in Region!Offsets : AddOffsetToAllIndices(off)
    BY <2>10, AddOffsetPreserves
  <2>11. CASE AddUnknownOffset
    BY <2>11, AddUnknownOffsetPreserves
  <2>. QED BY <2>1, <2>2, <2>3, <2>4, <2>5, <2>6, <2>7, <2>8, <2>9, <2>10, <2>11 DEF ObjNext
<1>. QED BY <1>1, <1>2, PTL DEF ObjSpec

(* The pointer targets of an object cover the identifiers of every value   *)
(* stored in it, after any sequence of writes, calls, returns and merges.  *)
THEOREM TargetsCovered == ObjSpec => []TargetsCoverMemory
<1>1. ObjInv => TargetsCoverMemory
  BY DEF ObjInv, StandsFor, TargetsCoverMemory
<1>. QED BY <1>1, ObjectInvariance, PTL

(* get_value() represents the bytes of every concrete object the abstract  *)
(* object stands for, unique or not.                                       *)
THEOREM ObjectGetCorrect == ObjSpec => []ObjectGetIsSound
<1>1. ObjInv => ObjectGetIsSound
  <2>. SUFFICES ASSUME ObjInv, NEW p \in Positions, NEW s \in Sizes,
                       R!Span(p, s) \subseteq Positions
                PROVE  Represented(R!get(memory, p, s), R!Word(mem, p, s))
    BY SameRegions, SameOperations DEF ObjectGetIsSound, Region!GetIsSound
  <2>1. CASE p \in DOMAIN memory /\ memory[p].size = s
    BY <2>1 DEF R!get, ObjInv, StandsFor, R!Sound
  <2>2. CASE ~ (p \in DOMAIN memory /\ memory[p].size = s)
    BY <2>2 DEF R!get, Represented, new_top
  <2>. QED BY <2>1, <2>2
<1>. QED BY <1>1, ObjectInvariance, PTL
=============================================================================
