----------------------------- MODULE DataDomain -----------------------------
(***************************************************************************)
(* The abstract domain of abstract_domain/data.rs, with the offsets        *)
(* abstracted away: a value is a set of base identifiers it may point to,  *)
(* whether it may be an absolute value, and whether it may be of fully     *)
(* unknown origin (contains_top_values).                                   *)
(***************************************************************************)
EXTENDS FiniteSets

CONSTANT Ids

DataSet == [ids : SUBSET Ids, abs : BOOLEAN, top : BOOLEAN]

new_top == [ids |-> {}, abs |-> FALSE, top |-> TRUE]
new_empty == [ids |-> {}, abs |-> FALSE, top |-> FALSE]

\* new_top is the only top value: no target, no absolute value, flag set.
is_empty(d) == d = new_empty

DataMerge(d, e) ==
  [ids |-> d.ids \cup e.ids, abs |-> d.abs \/ e.abs, top |-> d.top \/ e.top]

referenced_ids(d) == d.ids

DataRemoveIds(d, S) == [d EXCEPT !.ids = @ \ S]

\* m is the replacement map.  Adding the old offset to a replacement value
\* changes offsets only.
replace_all_ids(d, m) ==
  LET found == d.ids \cap DOMAIN m
  IN  [ids |-> UNION {m[id].ids : id \in found},
       abs |-> d.abs \/ \E id \in found : m[id].abs,
       top |-> d.top \/ ~ d.ids \subseteq DOMAIN m \/ \E id \in found : m[id].top]

-----------------------------------------------------------------------------
(* What a value represents: a concrete word is a pointer to the object of  *)
(* an identifier or an absolute value.                                     *)

CONSTANT Absolute

Kinds == Ids \cup {Absolute}

Represents(d, kind) ==
  d.top \/ kind \in d.ids \/ (d.abs /\ kind = Absolute)

\* The renamings of concrete pointers a replacement map stands for: a pointer
\* to id becomes what the replacement value of id represents.
Renamings(m) ==
  {f \in [Kinds -> Kinds] :
     /\ f[Absolute] = Absolute
     /\ \A id \in Ids \cap DOMAIN m : Represents(m[id], f[id])}
=============================================================================
