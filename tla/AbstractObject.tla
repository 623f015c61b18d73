--------------------------- MODULE AbstractObject ---------------------------
(***************************************************************************)
(* A memory object of the pointer inference                                *)
(* (analysis/pointer_inference/object): a MemRegion of DataDomain values   *)
(* together with the set of identifiers the object may hold pointers to,   *)
(* the uniqueness flag and the object type.                                *)
(*                                                                         *)
(* An object that is not unique stands for several concrete objects.  mem  *)
(* is the memory of one of them, chosen once and for all: a write to the   *)
(* abstract object then may or may not reach it.                           *)
(***************************************************************************)
EXTENDS Integers, DataDomain

CONSTANTS
  Positions, Sizes,
  ObjectTypes,      \* Stack, Heap, GlobalMem
  NoType,           \* None
  WrittenData,      \* the values the analysed program writes
  CalleeObjects,    \* the objects that come in from other states
  ReplacementMaps,  \* the identifier replacements at calls and returns
  IntervalMaps      \* the global variables known to caller and callee: each
                    \* start index mapped to whether both may write to it

ASSUME RegionAssumption == Positions \subseteq Int /\ Sizes \subseteq Nat \ {0}

\* A concrete byte: which kind of word it belongs to and its index in it.
Byte == [kind : Kinds, index : UNION {0..(s - 1) : s \in Sizes}]

Represented(d, w) ==
  d.top \/ \E kind \in Kinds :
             /\ Represents(d, kind)
             /\ w = [i \in DOMAIN w |-> [kind |-> kind, index |-> i]]

VARIABLES memory, mem, pointer_targets, is_unique, type_

Region == INSTANCE MemRegion WITH
  Data <- DataSet, TopData <- new_top, MergeData <- DataMerge,
  Describes <- Represented, values <- memory

vars_object == <<memory, mem, pointer_targets, is_unique, type_>>

-----------------------------------------------------------------------------
(* Objects as they come in from other states.                              *)

RegionIds(vs) == UNION {referenced_ids(vs[p].data) : p \in DOMAIN vs}

Objects ==
  [memory : Region!Regions, pointer_targets : SUBSET Ids,
   is_unique : BOOLEAN, type_ : ObjectTypes \cup {NoType}]

ASSUME CalleeObjectsAssumption ==
  \A o \in CalleeObjects :
    /\ o \in Objects
    /\ RegionIds(o.memory) \subseteq o.pointer_targets

ASSUME InputAssumption ==
  /\ WrittenData \subseteq DataSet
  /\ \A m \in ReplacementMaps :
       /\ DOMAIN m \subseteq Ids
       /\ \A id \in DOMAIN m : m[id] \in DataSet
  /\ \A iv \in IntervalMaps :
       /\ DOMAIN iv \subseteq Positions
       /\ \A i \in DOMAIN iv : iv[i] \in BOOLEAN

\* The concrete memories a region is about, seen from a base shifted by offset.
DescribedBy(vs, offset) ==
  {m \in Region!Memories : \A p \in DOMAIN vs :
     /\ Region!Span(p + offset, vs[p].size) \subseteq Positions
     /\ Represented(vs[p].data, Region!Word(m, p + offset, vs[p].size))}

ObjInit ==
  /\ memory = Region!Empty
  /\ mem \in Region!Memories
  /\ pointer_targets = {}
  /\ is_unique = TRUE
  /\ type_ \in ObjectTypes \cup {NoType}

-----------------------------------------------------------------------------
(* Writes.  target is the set of offsets the write may go to: one offset,  *)
(* an interval of offsets, or all of them (an unknown offset).             *)

\* The concrete write: value arrives at one of the offsets.
WrittenAt(v, target) ==
  {m \in Region!Memories : \E p \in target :
     /\ Region!Span(p, v.size) \subseteq Positions
     /\ \A q \in Positions \ Region!Span(p, v.size) : m[q] = mem[q]
     /\ Represented(v.data, Region!Word(m, p, v.size))}

MergedIn(v, p) ==
  Region!insert_at_byte_index(memory,
    [v EXCEPT !.data = DataMerge(Region!get(memory, p, v.size), v.data)], p)

\* Mutant: the uniqueness flag is not consulted.
SetValueAlwaysStrong(v, p) ==
  /\ Region!Span(p, v.size) \subseteq Positions
  /\ memory' = Region!insert_at_byte_index(memory, v, p)
  /\ mem' \in WrittenAt(v, {p}) \cup (IF is_unique THEN {} ELSE {mem})
  /\ pointer_targets' = pointer_targets \cup referenced_ids(v.data)
  /\ UNCHANGED <<is_unique, type_>>

\* set_value at a known offset: a strong update if the object is unique.
SetValueAt(v, p) ==
  /\ Region!Span(p, v.size) \subseteq Positions
  /\ memory' = IF is_unique THEN Region!insert_at_byte_index(memory, v, p) ELSE MergedIn(v, p)
  /\ mem' \in WrittenAt(v, {p}) \cup (IF is_unique THEN {} ELSE {mem})
  /\ pointer_targets' = pointer_targets \cup referenced_ids(v.data)
  /\ UNCHANGED <<is_unique, type_>>

\* merge_value: the pointer of the write has several targets, so the object
\* may not be the one that is written.
MergeValueAt(v, p) ==
  /\ Region!Span(p, v.size) \subseteq Positions
  /\ memory' = MergedIn(v, p)
  /\ mem' \in WrittenAt(v, {p}) \cup {mem}
  /\ pointer_targets' = pointer_targets \cup referenced_ids(v.data)
  /\ UNCHANGED <<is_unique, type_>>

\* set_value and merge_value with an interval of offsets.
SetValueInInterval(v, start, end) ==
  /\ start < end
  /\ memory' = Region!mark_interval_values_as_top(memory, start, end, v.size)
  /\ mem' \in WrittenAt(v, start..end) \cup {mem}
  /\ pointer_targets' = pointer_targets \cup referenced_ids(v.data)
  /\ UNCHANGED <<is_unique, type_>>

\* set_value and merge_value at an offset nothing is known about.
SetValueAnywhere(v) ==
  /\ memory' = Region!mark_all_values_as_top(memory)
  /\ mem' \in WrittenAt(v, Positions) \cup {mem}
  /\ pointer_targets' = pointer_targets \cup referenced_ids(v.data)
  /\ UNCHANGED <<is_unique, type_>>

AssumeArbitraryWrites(ids) ==
  /\ memory' = Region!mark_all_values_as_top(memory)
  /\ mem' \in Region!Memories
  /\ pointer_targets' = pointer_targets \cup ids
  /\ UNCHANGED <<is_unique, type_>>

-----------------------------------------------------------------------------
(* Identifiers change when a value crosses a function boundary.            *)

MapData(vs, f) == [p \in DOMAIN vs |-> [vs[p] EXCEPT !.data = f[@]]]

\* Precondition of the concrete side: no pointer to a removed identifier is
\* left in the memory.
RemoveIds(ids) ==
  /\ \A p \in Positions : mem[p].kind \notin ids
  /\ memory' = Region!clear_top_values(MapData(memory,
       [d \in DataSet |-> LET r == DataRemoveIds(d, ids)
                          IN  IF is_empty(r) THEN new_top ELSE r]))
  /\ pointer_targets' = pointer_targets \ ids
  /\ UNCHANGED <<mem, is_unique, type_>>

\* Mutant: the set of pointer targets keeps the old identifiers.
ReplaceIdsInMemoryOnly(m) ==
  /\ memory' = Region!clear_top_values(MapData(memory,
       [d \in DataSet |-> replace_all_ids(d, m)]))
  /\ \E f \in Renamings(m) :
       mem' = [p \in Positions |-> [mem[p] EXCEPT !.kind = f[@]]]
  /\ UNCHANGED <<pointer_targets, is_unique, type_>>

ReplaceIds(m) ==
  /\ memory' = Region!clear_top_values(MapData(memory,
       [d \in DataSet |-> replace_all_ids(d, m)]))
  /\ pointer_targets' =
       UNION {referenced_ids(m[id]) : id \in pointer_targets \cap DOMAIN m}
  /\ \E f \in Renamings(m) :
       mem' = [p \in Positions |-> [mem[p] EXCEPT !.kind = f[@]]]
  /\ UNCHANGED <<is_unique, type_>>

-----------------------------------------------------------------------------
(* Whole-object operations.                                                *)

MarkAsNotUnique ==
  /\ is_unique' = FALSE
  /\ UNCHANGED <<memory, mem, pointer_targets, type_>>

\* The end of generate_target_objects_for_new_locations: in the caller the
\* object stands for one object of unknown type.
BecomeUnifiedObject ==
  /\ is_unique' = TRUE
  /\ type_' = NoType
  /\ UNCHANGED <<memory, mem, pointer_targets>>

\* The values of vs that share no bytes with a value of other, and the values
\* of other.  Inserting the values of other one by one removes the same keys,
\* as they share no bytes.
InsertAll(vs, other) ==
  LET kept == {p \in DOMAIN vs : \A q \in DOMAIN other :
                 p \notin Region!Intersecting(vs, q, q + other[q].size)}
  IN  [p \in kept \cup DOMAIN other |-> IF p \in DOMAIN other THEN other[p] ELSE vs[p]]

\* overwrite_with: the callee's view of the object replaces the caller's.
OverwriteWith(o, offset) ==
  /\ \A p \in DOMAIN o.memory : Region!Span(p + offset, o.memory[p].size) \subseteq Positions
  /\ memory' = LET shifted == Region!add_offset_to_all_indices(o.memory, offset)
               IN  IF is_unique THEN InsertAll(Region!mark_all_values_as_top(memory), shifted)
                                ELSE Region!merge(memory, shifted)
  /\ mem' \in DescribedBy(o.memory, offset) \cup (IF is_unique THEN {} ELSE {mem})
  /\ is_unique' = (is_unique /\ o.is_unique)
  /\ pointer_targets' = pointer_targets \cup o.pointer_targets
  /\ UNCHANGED type_

OverwriteAtUnknownOffset(o) ==
  /\ memory' = Region!mark_all_values_as_top(memory)
  /\ mem' \in Region!Memories
  /\ is_unique' = (is_unique /\ o.is_unique)
  /\ pointer_targets' = pointer_targets \cup o.pointer_targets
  /\ UNCHANGED type_

AddOffsetToAllIndices(offset) ==
  /\ Region!AddOffset(offset)
  /\ UNCHANGED <<pointer_targets, is_unique, type_>>

AddUnknownOffset ==
  /\ memory' = Region!Empty
  /\ mem' \in Region!Memories
  /\ UNCHANGED <<pointer_targets, is_unique, type_>>

same_or_none(s, t) == IF s = t THEN s ELSE NoType

\* AbstractObject::merge, with self on either side.
MergeObject(o) ==
  /\ \/ memory' = Region!merge(memory, o.memory)
     \/ memory' = Region!merge(o.memory, memory)
  /\ mem' \in {mem} \cup DescribedBy(o.memory, 0)
  /\ is_unique' = (is_unique /\ o.is_unique)
  /\ type_' = same_or_none(type_, o.type_)
  /\ pointer_targets' = pointer_targets \cup o.pointer_targets

\* AbstractObjectList::insert for an identifier that already has an object.
\* With a new, empty object this is add_abstract_object.
InsertAgain(o) ==
  /\ memory' = Region!merge(memory, o.memory)
  /\ mem' \in {mem} \cup DescribedBy(o.memory, 0)
  /\ is_unique' = FALSE
  /\ type_' = same_or_none(type_, o.type_)
  /\ pointer_targets' = pointer_targets \cup o.pointer_targets

-----------------------------------------------------------------------------
(* Return from a callee: the global memory object of the caller takes over *)
(* the values of the global variables that both may write to.  An index    *)
(* stands for the interval up to the next index.                           *)

InInterval(iv, i, p) == i <= p /\ \A j \in DOMAIN iv : i < j => p < j

\* The last index at or before p exists and is writable.
Writable(iv, p) == \E i \in DOMAIN iv : iv[i] /\ InInterval(iv, i, p)

IntervalKeys(vs, iv, i) ==
  {p \in DOMAIN vs : \/ Region!IsPrevious(vs, p, i) /\ p + vs[p].size > i
                     \/ InInterval(iv, i, p)}

PotentiallyOverwritten(vs, iv) ==
  Region!MergedWithTop(vs, UNION {IntervalKeys(vs, iv, i) : i \in {j \in DOMAIN iv : iv[j]}})

MergeGlobalMemFromCallee(o, iv, m) ==
  LET marked == PotentiallyOverwritten(memory, iv)
      new == [p \in {q \in DOMAIN o.memory : Writable(iv, q)} |->
                [o.memory[p] EXCEPT !.data = replace_all_ids(@, m)]]
  IN  /\ memory' = Region!clear_top_values(InsertAll(marked, new))
      /\ pointer_targets' = pointer_targets \cup RegionIds(new)
      /\ \E callee \in DescribedBy(o.memory, 0), f \in Renamings(m) :
           mem' = [p \in Positions |-> [callee[p] EXCEPT !.kind = f[@]]]
      /\ \A p \in Positions : ~ Writable(iv, p) => mem'[p] = mem[p]
      /\ UNCHANGED <<is_unique, type_>>

-----------------------------------------------------------------------------
WrittenValues == [size : Sizes, data : WrittenData]

ObjNext ==
  \/ \E v \in WrittenValues, p \in Positions : SetValueAt(v, p) \/ MergeValueAt(v, p)
  \/ \E v \in WrittenValues, p, q \in Positions : SetValueInInterval(v, p, q)
  \/ \E v \in WrittenValues : SetValueAnywhere(v)
  \/ \E ids \in SUBSET Ids : AssumeArbitraryWrites(ids) \/ RemoveIds(ids)
  \/ \E m \in ReplacementMaps : ReplaceIds(m)
  \/ MarkAsNotUnique \/ BecomeUnifiedObject
  \/ \E o \in CalleeObjects, off \in Region!Offsets : OverwriteWith(o, off)
  \/ \E o \in CalleeObjects : OverwriteAtUnknownOffset(o) \/ MergeObject(o) \/ InsertAgain(o)
  \/ \E o \in CalleeObjects, iv \in IntervalMaps, m \in ReplacementMaps :
       MergeGlobalMemFromCallee(o, iv, m)
  \/ \E off \in Region!Offsets : AddOffsetToAllIndices(off)
  \/ AddUnknownOffset

ObjSpec == ObjInit /\ [][ObjNext]_vars_object

-----------------------------------------------------------------------------
(* Properties.                                                             *)

\* pointer_targets is "an upper approximation of all possible targets for
\* which pointers may exist inside the memory region": every identifier in a
\* stored value is in it, after every renaming, removal, overwrite and merge.
TargetsCoverMemory == RegionIds(memory) \subseteq pointer_targets

\* get_value(): what the object returns represents the bytes of every concrete
\* object it stands for, whether it is unique or not.
ObjectGetIsSound == Region!GetIsSound
=============================================================================
