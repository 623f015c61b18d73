---------------------------- MODULE MCPointerData ---------------------------
(* One-byte values have eight values and two-byte values 64.               *)
EXTENDS PointerData

CONSTANTS Stack, Heap

MCIds == {Stack, Heap}
MCBase == [k \in {Stack, Heap, Absolute} |->
             CASE k = Stack -> 3 [] k = Heap -> -2 [] k = Absolute -> 0]

\* All intervals of a size with one of the strides.
IntervalsOf(size, strides) ==
  {i \in [size : {size}, start : Values(size), end : Values(size), stride : strides] :
     /\ i.start <= i.end
     /\ IF i.stride = 0 THEN i.start = i.end
        ELSE i.start < i.end /\ (i.end - i.start) % i.stride = 0}

Plain(i) == DataFrom(DomainFrom(i))
Hinted(i, lower, upper, delay) == DataFrom(Domain(i, lower, upper, delay))
I(start, end, stride) == NewInterval(1, start, end, stride)
J(start, end, stride) == NewInterval(2, start, end, stride)
Pointer(id, i) == from_target(id, DomainFrom(i))
HintedPointer(id, i, lower, upper) == from_target(id, Domain(i, lower, upper, 0))

Pointers ==
  {Pointer(Stack, I(0, 0, 0)), Pointer(Stack, I(-2, 2, 2)), Pointer(Heap, I(1, 3, 1)),
   Data(1, [id \in {Stack, Heap} |-> DomainFrom(I(0, 2, 2))], DomainFrom(I(-1, -1, 0)), FALSE),
   Data(1, [id \in {Stack} |-> DomainFrom(I(1, 1, 0))], None, TRUE),
   HintedPointer(Stack, I(-2, 0, 2), -4, 2), HintedPointer(Heap, I(0, 1, 1), None, 3),
   new_top(1)}

MCRegisters ==
  {Plain(i) : i \in IntervalsOf(1, {0, 1, 2, 3, 7})}
  \cup {Hinted(I(0, 0, 0), -2, 2, 0), Hinted(I(-1, 1, 2), -3, 3, 2), Hinted(I(0, 1, 1), None, 3, 1)}
  \cup {Plain(J(-32, 31, 1)), Plain(J(-9, 7, 4)), Plain(J(-8, -1, 1)), Hinted(J(3, 5, 2), None, 11, 2),
        Hinted(J(0, 0, 0), -6, 20, 0)}
  \cup Pointers

MCOperands ==
  {Plain(I(-4, -4, 0)), Plain(I(-1, -1, 0)), Plain(I(1, 1, 0)),
   Plain(I(-3, 3, 3)), Plain(I(-1, 3, 2)), Plain(J(-32, -32, 0)), Hinted(J(6, 12, 3), None, 15, 0),
   Hinted(I(2, 2, 0), 0, 3, 0)}
  \cup {Pointer(Stack, I(0, 1, 1)), Pointer(Heap, I(-1, -1, 0)), HintedPointer(Stack, I(1, 1, 0), -3, 3),
        Data(1, [id \in {Heap} |-> DomainFrom(I(2, 2, 0))], DomainFrom(I(0, 1, 1)), FALSE)}

\* Single values, and all operands with hints.  Only Top contains all single
\* values of a size.
MCLoopOperands ==
  {Hinted(J(6, 12, 3), None, 15, 0), Hinted(I(2, 2, 0), 0, 3, 0), HintedPointer(Stack, I(1, 1, 0), -3, 3)}
    \cup {Plain(IntervalFrom(1, v)) : v \in Values(1)}
    \cup {Plain(IntervalFrom(2, v)) : v \in {-32, 31} \cup -12..12}

MCReplacementMaps ==
  {[id \in {Stack} |-> Pointer(Heap, I(1, 1, 0))],
   [id \in {Stack, Heap} |-> Pointer(Stack, I(0, 1, 1))],
   [id \in {Heap} |-> Plain(I(3, 3, 0))]}
=============================================================================
