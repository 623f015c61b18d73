---------------------------- MODULE MCMemRegion ----------------------------
(***************************************************************************)
(* A value domain for MemRegion, as the DataDomain of the pointer          *)
(* inference: an element is a set of pointer targets and a flag for Top    *)
(* values, and merging with Top only sets the flag.                        *)
(***************************************************************************)
EXTENDS MemRegion, TLC

CONSTANT Targets

MCTop == [ids |-> {}, top |-> TRUE]

MCData ==
  {[ids |-> S, top |-> b] : S \in SUBSET Targets \ {{}}, b \in BOOLEAN} \cup {MCTop}

MCMerge(d, e) == [ids |-> d.ids \cup e.ids, top |-> d.top \/ e.top]

\* A pointer to target t is the word t, t+1, ..., modulo the byte values.
MCDescribes(d, w) ==
  d.top \/ \E t \in d.ids : \A i \in DOMAIN w : w[i] = (t + i) % Cardinality(Byte)

Pos3 == 0..3
Bytes2 == 0..1
=============================================================================
