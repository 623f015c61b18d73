-------------------------- MODULE MCAbstractObject --------------------------
EXTENDS AbstractObject, TLC

CONSTANTS a, b, Heap

Pointer(id, size) ==
  [size |-> size, data |-> [ids |-> {id}, abs |-> FALSE, top |-> FALSE]]
MaybePointer(id, size) ==
  [size |-> size, data |-> [ids |-> {id}, abs |-> FALSE, top |-> TRUE]]

Pos1 == 0..1

\* A new object, one whose value overlaps everything, one with a value that can
\* be shifted, and one that is not unique and has two values, of which one may
\* be anything.
MCCalleeObjects ==
  {[memory |-> Region!Empty, pointer_targets |-> {}, is_unique |-> TRUE, type_ |-> NoType],
   [memory |-> (0 :> Pointer(a, 2)), pointer_targets |-> {a},
    is_unique |-> TRUE, type_ |-> Heap],
   [memory |-> (0 :> Pointer(b, 1)), pointer_targets |-> {b},
    is_unique |-> TRUE, type_ |-> NoType],
   [memory |-> (0 :> Pointer(b, 1) @@ 1 :> MaybePointer(a, 1)),
    pointer_targets |-> {a, b}, is_unique |-> FALSE, type_ |-> Heap]}

MCWrittenData ==
  {new_top, Pointer(a, 1).data, MaybePointer(b, 1).data}

\* a is lost; a becomes b and b may be anything; a and b swap.
MCReplacementMaps ==
  {(b :> Pointer(b, 1).data),
   (a :> Pointer(b, 1).data @@ b :> MaybePointer(a, 1).data),
   (a :> Pointer(b, 1).data @@ b :> Pointer(a, 1).data)}
\* One writable variable; a writable one followed by one that is not.
MCIntervalMaps == {(1 :> TRUE), (0 :> TRUE @@ 1 :> FALSE)}
=============================================================================
