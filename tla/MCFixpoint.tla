----------------------------- MODULE MCFixpoint -----------------------------
(***************************************************************************)
(* Instances of Fixpoint: gen/kill problems over the subsets of Facts on    *)
(* four small graphs, chosen so that loops, self loops, parallel edges,    *)
(* edges without information flow and non-monotone transfers all occur.    *)
(***************************************************************************)
EXTENDS Fixpoint

CONSTANT Facts  \* {"x", "y"} or {"x"}

MCValue == {{}} \cup {{f} : f \in Facts} \cup {Facts}
MCEdge == 1 .. 4

MCLeq(u, v) == u \subseteq v
Union(u, v) == u \cup v

GenKill(gen, kill) == [v \in MCValue |-> (v \ kill) \cup (gen \cap Facts)]
(* An edge that is only taken when the fact holds. *)
OnlyIf(fact) == [v \in MCValue |-> IF fact \in v THEN v ELSE NoValue]
Complement == [v \in MCValue |-> Facts \ v]
Never == [v \in MCValue |-> NoValue]

Loop ==
    [start |-> <<0, 1, 2, 1>>, end |-> <<1, 2, 0, 0>>,
     update |-> <<GenKill({"x"}, {}), GenKill({"y"}, {"x"}), OnlyIf("y"), Never>>]

Dag ==
    [start |-> <<0, 0, 1, 1>>, end |-> <<1, 2, 2, 2>>,
     update |-> <<OnlyIf("x"), GenKill({}, {"x"}), GenKill({"y"}, {}), OnlyIf("y")>>]

SelfLoop ==
    [start |-> <<0, 1, 1, 2>>, end |-> <<1, 1, 2, 2>>,
     update |-> <<GenKill({}, {}), GenKill({"x"}, {"y"}), OnlyIf("x"), GenKill({"y"}, {})>>]

NonMonotone ==
    [start |-> <<0, 1, 1, 2>>, end |-> <<1, 1, 2, 0>>,
     update |-> <<Complement, Complement, OnlyIf("y"), Complement>>]

MCContexts == {Loop, Dag, SelfLoop, NonMonotone}
=============================================================================
