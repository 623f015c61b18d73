---------------------------- MODULE CallerProofs ----------------------------
(***************************************************************************)
(* Proofs about the command line caller and the computations it starts,    *)
(* for every list of inputs that satisfies the assumptions of Caller: any  *)
(* selection of modules and any normalised program.                        *)
(*                                                                         *)
(*   NoMissingResults       by RunInv: what a module unwraps is computed.  *)
(*   DominatorsAreExact     by StatsInv: values never fall below the       *)
(*                          blocks on all paths, and what is stable along  *)
(*                          all edges cannot be above them.                *)
(*   LoopsAreEnteredAtHead  from exact dominators: a backward search that  *)
(*                          stops at the head meets only blocks that the   *)
(*                          head dominates.                                *)
(*   CallOrders             by OrderInv: a search finds a call exactly if  *)
(*                          a path without repetition leads to it.         *)
(*   NodeValuesClimb        by UafInv: a merge never loses an object, a    *)
(*                          flag or a shorter path.                        *)
(*   CausesAreReported      a cause is dropped only if its root was seen   *)
(*                          with a cause that is kept.                     *)
(*   FreedUses              by SoundInv: a handled node passed its objects *)
(*                          on and flags only what a warning names, so the *)
(*                          freed objects of an execution are recorded     *)
(*                          where it arrives, or named.                    *)
(*   CallGraphs             by StatsInv: a chain of calls can be cut where *)
(*                          it meets a function again, before and after    *)
(*                          each call; a graph has at most as many nodes   *)
(*                          as edges and components together.              *)
(*                                                                         *)
(* Recursive functions over 0..k get their values from the lemma           *)
(* Iteration; what they compute is shown by the lemma Induction, which     *)
(* takes the numbers with a property as a set.                             *)
(***************************************************************************)
EXTENDS CallerExecutions, FiniteSetTheorems, SequenceTheorems, WellFoundedInduction, NaturalsInduction, TLAPS

\* A set of natural numbers has a least element.
LEMMA LeastNat ==
  ASSUME NEW T, T \subseteq Nat, T # {}
  PROVE  \E n \in T : \A m \in T : n <= m
<1> DEFINE R == {ss \in Nat \X Nat : ss[1] < ss[2]}
<1>1. IsWellFoundedOn(R, Nat)
  BY NatLessThanWellFounded DEF OpToRel
<1>2. PICK x \in T : \A y \in T : ~ (<<y, x>> \in R)
  <2> HIDE DEF R
  <2> QED BY <1>1, WFMin
<1>3. \A y \in T : x <= y
  <2> SUFFICES ASSUME NEW y \in T PROVE x <= y
    OBVIOUS
  <2>1. <<y, x>> \in Nat \X Nat
    OBVIOUS
  <2>2. ~(y < x)
    BY <1>2, <2>1
  <2> QED BY <2>2
<1> QED BY <1>3

\* Induction, for the numbers in a set.
LEMMA Induction ==
  ASSUME NEW S, 0 \in S, \A n \in Nat : n \in S => n + 1 \in S
  PROVE  \A n \in Nat : n \in S
<1> DEFINE T == {n \in Nat : n \notin S}
<1> SUFFICES ASSUME T # {} PROVE FALSE
  OBVIOUS
<1>1. PICK n \in T : \A m \in T : n <= m
  <2>1. T \subseteq Nat
    OBVIOUS
  <2> HIDE DEF T
  <2> QED BY <2>1, LeastNat
<1>2. n \in Nat /\ n # 0 /\ n - 1 \in Nat
  BY <1>1
<1>3. n - 1 \in S
  BY <1>1, <1>2
<1> QED BY <1>1, <1>2, <1>3

\* s starts with x0 and follows the k steps of F.
Iterates(s, k, X, x0, F) ==
  s \in [0..k -> X] /\ s[0] = x0 /\ \A i \in 1..k : s[i] = F[<<i, s[i - 1]>>]

\* A finite iteration exists as a function.
LEMMA Iteration ==
  ASSUME NEW k \in Nat, NEW X, NEW x0 \in X, NEW F \in [(1..k) \X X -> X]
  PROVE  \E s : Iterates(s, k, X, x0, F)
<1> DEFINE Ok(n, s) == s[0] = x0 /\ \A i \in 1..n : s[i] = F[<<i, s[i - 1]>>]
           S == {n \in Nat : n <= k => \E s \in [0..n -> X] : Ok(n, s)}
<1>1. 0 \in S
  <2>1. [i \in 0..0 |-> x0] \in [0..0 -> X] /\ Ok(0, [i \in 0..0 |-> x0])
    OBVIOUS
  <2> QED BY <2>1
<1>2. \A n \in Nat : n \in S => n + 1 \in S
  <2> SUFFICES ASSUME NEW n \in Nat, n \in S, n + 1 <= k
               PROVE  \E s \in [0..(n + 1) -> X] : Ok(n + 1, s)
    OBVIOUS
  <2>1. PICK s \in [0..n -> X] : Ok(n, s)
    OBVIOUS
  <2> DEFINE t == [i \in 0..(n + 1) |-> IF i <= n THEN s[i] ELSE F[<<n + 1, s[n]>>]]
  <2>2. <<n + 1, s[n]>> \in (1..k) \X X
    OBVIOUS
  <2>3. t \in [0..(n + 1) -> X]
    BY <2>2
  <2>4. \A i \in 1..(n + 1) : t[i] = F[<<i, t[i - 1]>>]
    <3> SUFFICES ASSUME NEW i \in 1..(n + 1) PROVE t[i] = F[<<i, t[i - 1]>>]
      OBVIOUS
    <3>1. t[i - 1] = s[i - 1]
      OBVIOUS
    <3>2. CASE i <= n
      BY <2>1, <3>1, <3>2
    <3>3. CASE i = n + 1
      <4>1. t[i] = F[<<n + 1, s[n]>>]
        BY <3>3
      <4>2. i - 1 = n
        BY <3>3
      <4> HIDE DEF t
      <4> QED BY <3>1, <3>3, <4>1, <4>2
    <3> QED BY <3>2, <3>3
  <2>5. t[0] = x0
    BY <2>1
  <2> QED BY <2>3, <2>4, <2>5
<1>3. k \in S
  <2> HIDE DEF S
  <2> QED BY <1>1, <1>2, Induction
<1> QED BY <1>3 DEF Iterates

-----------------------------------------------------------------------------
(* Reachable nodes *)

\* What the rounds of a search compute.
LEMMA RoundsValue ==
  ASSUME NEW nodes, NEW edges, IsFiniteSet(edges)
  PROVE  LET r == Rounds(nodes, edges)
             k == Cardinality(edges)
         IN  /\ k \in Nat
             /\ r[0] = nodes
             /\ \A i \in 1..k : r[i] = Successors(r[i - 1], edges)
<1> DEFINE k == Cardinality(edges)
           X == SUBSET (nodes \cup {e[3] : e \in edges})
           F == [x \in (1..k) \X X |-> Successors(x[2], edges)]
           Is(r) == r = [i \in 0..k |-> IF i = 0 THEN nodes ELSE Successors(r[i - 1], edges)]
<1>1. k \in Nat
  BY FS_CardinalityType
<1>2. F \in [(1..k) \X X -> X]
  BY DEF Successors
<1>3. \E s : Iterates(s, k, X, nodes, F)
  <2>1. nodes \in X
    OBVIOUS
  <2> HIDE DEF F, X, k
  <2> QED BY <1>1, <1>2, <2>1, Iteration
<1>4. PICK s : Iterates(s, k, X, nodes, F)
  BY <1>3
<1>5. Is(s)
  <2>1. s \in [0..k -> X] /\ s[0] = nodes /\ \A i \in 1..k : s[i] = F[<<i, s[i - 1]>>]
    <3> HIDE DEF F, X, k
    <3> QED BY <1>4 DEF Iterates
  <2>2. \A i \in 1..k : <<i, s[i - 1]>> \in (1..k) \X X
    <3> HIDE DEF X, k
    <3> QED BY <1>1, <2>1
  <2>3. \A i \in 1..k : s[i] = Successors(s[i - 1], edges)
    BY <2>1, <2>2
  <2> HIDE DEF F, X, k
  <2> QED BY <1>1, <2>1, <2>3
<1>6. Is(CHOOSE r : Is(r))
  BY <1>5
<1>7. Rounds(nodes, edges) = CHOOSE r : Is(r)
  BY DEF Rounds
<1>8. Is(Rounds(nodes, edges))
  <2> HIDE DEF Is
  <2> QED BY <1>6, <1>7
<1>9. Rounds(nodes, edges)[0] = nodes
  <2>1. 0 \in 0..k
    BY <1>1
  <2> QED BY <2>1, <1>8
<1>10. ASSUME NEW i \in 1..k
       PROVE  Rounds(nodes, edges)[i] = Successors(Rounds(nodes, edges)[i - 1], edges)
  <2>1. i \in 0..k /\ i # 0
    BY <1>1
  <2> QED BY <2>1, <1>8
<1> QED BY <1>1, <1>9, <1>10

\* The edges lead from nodes of S only to nodes of S.
Closed(S, edges) == \A e \in edges : e[1] \in S => e[3] \in S

\* The rounds only add nodes, and none that a closed set has not.
LEMMA RoundsGrow ==
  ASSUME NEW nodes, NEW edges, IsFiniteSet(edges), NEW S, nodes \subseteq S, Closed(S, edges)
  PROVE  \A i \in 0..Cardinality(edges) :
           nodes \subseteq Rounds(nodes, edges)[i] /\ Rounds(nodes, edges)[i] \subseteq S
<1> DEFINE k == Cardinality(edges)
           r == Rounds(nodes, edges)
           T == {i \in Nat : i <= k => nodes \subseteq r[i] /\ r[i] \subseteq S}
<1> HIDE DEF k, r
<1>1. k \in Nat /\ r[0] = nodes /\ \A i \in 1..k : r[i] = Successors(r[i - 1], edges)
  BY RoundsValue DEF k, r
<1>2. 0 \in T
  BY <1>1
<1>3. \A i \in Nat : i \in T => i + 1 \in T
  <2> SUFFICES ASSUME NEW i \in Nat, i \in T, i + 1 <= k
               PROVE  nodes \subseteq r[i + 1] /\ r[i + 1] \subseteq S
    OBVIOUS
  <2>1. nodes \subseteq r[i] /\ r[i] \subseteq S
    BY <1>1
  <2>2. r[i + 1] = Successors(r[i], edges)
    BY <1>1
  <2> QED BY <2>1, <2>2 DEF Successors, Closed
<1>4. \A i \in Nat : i \in T
  <2> HIDE DEF T
  <2> QED BY <1>2, <1>3, Induction
<1> QED BY <1>1, <1>4 DEF k, r

\* Reach is the least closed set with the given nodes.
LEMMA ReachLeast ==
  ASSUME NEW nodes, NEW edges, IsFiniteSet(edges), NEW S, nodes \subseteq S, Closed(S, edges)
  PROVE  Reach(nodes, edges) \subseteq S
BY RoundsGrow, FS_CardinalityType DEF Reach

\* A search finds its start and whatever the edges lead to.
LEMMA ReachClosed ==
  ASSUME NEW nodes, NEW edges, IsFiniteSet(edges)
  PROVE  nodes \subseteq Reach(nodes, edges) /\ Closed(Reach(nodes, edges), edges)
<1> DEFINE k == Cardinality(edges)
           r == Rounds(nodes, edges)
           Used(i) == {e \in edges : e[3] \in r[i]}
           T == {i \in Nat : i <= k => Closed(r[i], edges) \/ Cardinality(Used(i)) >= i}
<1> HIDE DEF k, r
<1>1. k \in Nat /\ r[0] = nodes /\ \A i \in 1..k : r[i] = Successors(r[i - 1], edges)
  BY RoundsValue DEF k, r
<1>2. nodes \subseteq r[k]
  <2> DEFINE All == nodes \cup {e[3] : e \in edges}
  <2>1. Closed(All, edges)
    BY DEF Closed
  <2>2. nodes \subseteq All
    OBVIOUS
  <2> HIDE DEF All
  <2> QED BY <1>1, <2>1, <2>2, RoundsGrow DEF k, r
<1>3. ASSUME NEW i PROVE IsFiniteSet(Used(i)) /\ Cardinality(Used(i)) \in Nat
  BY FS_Subset, FS_CardinalityType
<1> HIDE DEF Used
<1>4. 0 \in T
  BY <1>3
<1>5. \A i \in Nat : i \in T => i + 1 \in T
  <2> SUFFICES ASSUME NEW i \in Nat, i \in T, i + 1 <= k
               PROVE  Closed(r[i + 1], edges) \/ Cardinality(Used(i + 1)) >= i + 1
    OBVIOUS
  <2>1. r[i + 1] = Successors(r[i], edges)
    BY <1>1
  <2>2. CASE Closed(r[i], edges)
    <3>1. r[i + 1] = r[i]
      BY <2>1, <2>2 DEF Successors, Closed
    <3> QED BY <3>1, <2>2
  <2>3. CASE ~Closed(r[i], edges)
    <3>1. PICK e \in edges : e[1] \in r[i] /\ e[3] \notin r[i]
      BY <2>3 DEF Closed
    <3>2. e \notin Used(i) /\ Used(i) \cup {e} \subseteq Used(i + 1)
      BY <2>1, <3>1 DEF Successors, Used
    <3>3. Cardinality(Used(i)) >= i
      BY <1>1, <2>3
    <3>4. Cardinality(Used(i) \cup {e}) = Cardinality(Used(i)) + 1
      BY <1>3, <3>2, FS_AddElement
    <3>5. Cardinality(Used(i) \cup {e}) <= Cardinality(Used(i + 1))
      BY <1>3, <3>2, FS_Subset
    <3> QED BY <1>3, <3>3, <3>4, <3>5
  <2> QED BY <2>2, <2>3
<1>6. \A i \in Nat : i \in T
  <2> HIDE DEF T
  <2> QED BY <1>4, <1>5, Induction
<1>7. Closed(r[k], edges)
  <2>1. CASE Cardinality(Used(k)) >= k
    <3>1. Used(k) \in SUBSET edges
      BY DEF Used
    <3>2. Used(k) = edges
      BY <1>1, <1>3, <2>1, <3>1, FS_Subset DEF k
    <3> QED BY <3>2 DEF Closed, Used
  <2> QED BY <1>1, <1>6, <2>1
<1> QED BY <1>2, <1>7 DEF Reach, k, r

-----------------------------------------------------------------------------
(* Paths *)

\* The nodes a path from a may visit, and the paths without repetition.
NodesFrom(a, edges) == {a} \cup {e[3] : e \in edges}
IsSimple(q, a, edges) ==
  /\ q \in Seq(NodesFrom(a, edges))
  /\ Len(q) >= 1
  /\ q[1] = a
  /\ \A i \in 1..(Len(q) - 1) : \E e \in edges : e[1] = q[i] /\ e[3] = q[i + 1]
  /\ \A i, j \in 1..Len(q) : q[i] = q[j] => i = j

\* The recursive function PathRounds has the values its definition names.
LEMMA PathRoundsValue ==
  ASSUME NEW a, NEW edges, IsFiniteSet(edges)
  PROVE  LET r == PathRounds(a, edges)
             k == Cardinality(edges)
         IN  /\ k \in Nat
             /\ r[0] = {<<a>>}
             /\ \A i \in 1..k : r[i] = Longer(r[i - 1], edges)
<1> DEFINE k == Cardinality(edges)
           X == SUBSET Seq(NodesFrom(a, edges))
           F == [x \in (1..k) \X X |-> Longer(x[2], edges)]
           Is(r) == r = [i \in 0..k |-> IF i = 0 THEN {<<a>>} ELSE Longer(r[i - 1], edges)]
<1>1. k \in Nat
  BY FS_CardinalityType
<1>2. F \in [(1..k) \X X -> X]
  <2> SUFFICES ASSUME NEW x \in X PROVE Longer(x, edges) \in X
    OBVIOUS
  <2>1. ASSUME NEW q \in x, NEW e \in edges PROVE Append(q, e[3]) \in Seq(NodesFrom(a, edges))
    <3>1. e[3] \in NodesFrom(a, edges)
      BY DEF NodesFrom
    <3> QED BY <3>1
  <2> QED BY <2>1 DEF Longer
<1>3. PICK s : Iterates(s, k, X, {<<a>>}, F)
  <2>1. {<<a>>} \in X
    BY DEF NodesFrom
  <2> HIDE DEF F, X, k
  <2> QED BY <1>1, <1>2, <2>1, Iteration
<1>4. Is(s)
  <2>1. s \in [0..k -> X] /\ s[0] = {<<a>>} /\ \A i \in 1..k : s[i] = F[<<i, s[i - 1]>>]
    <3> HIDE DEF F, X, k
    <3> QED BY <1>3 DEF Iterates
  <2>2. \A i \in 1..k : <<i, s[i - 1]>> \in (1..k) \X X
    <3> HIDE DEF X, k
    <3> QED BY <1>1, <2>1
  <2>3. \A i \in 1..k : s[i] = Longer(s[i - 1], edges)
    BY <2>1, <2>2
  <2> HIDE DEF F, X, k
  <2> QED BY <1>1, <2>1, <2>3
<1>5. Is(CHOOSE r : Is(r))
  BY <1>4
<1>6. PathRounds(a, edges) = CHOOSE r : Is(r)
  BY DEF PathRounds
<1>7. Is(PathRounds(a, edges))
  <2> HIDE DEF Is
  <2> QED BY <1>5, <1>6
<1>8. PathRounds(a, edges)[0] = {<<a>>}
  <2>1. 0 \in 0..k
    BY <1>1
  <2> QED BY <2>1, <1>7
<1>9. ASSUME NEW i \in 1..k
      PROVE  PathRounds(a, edges)[i] = Longer(PathRounds(a, edges)[i - 1], edges)
  <2>1. i \in 0..k /\ i # 0
    BY <1>1
  <2> QED BY <2>1, <1>7
<1> QED BY <1>1, <1>8, <1>9

\* A path goes on along an edge to a node it has not visited.
LEMMA AppendSimple ==
  ASSUME NEW a, NEW edges, NEW q, IsSimple(q, a, edges), NEW e \in edges,
         e[1] = Last(q), e[3] \notin Range(q)
  PROVE  IsSimple(Append(q, e[3]), a, edges)
<1> DEFINE r == Append(q, e[3])
           N == NodesFrom(a, edges)
<1>1. e[3] \in N /\ q \in Seq(N)
  BY DEF NodesFrom, IsSimple
<1>2. /\ r \in Seq(N) /\ Len(r) = Len(q) + 1 /\ Len(q) \in Nat
      /\ r[Len(q) + 1] = e[3] /\ \A i \in 1..Len(q) : r[i] = q[i]
  <2> HIDE DEF N
  <2> QED BY <1>1
<1>3. \A i \in 1..Len(q) : q[i] # e[3]
  BY <1>1 DEF Range
<1> HIDE DEF r
<1>4. Len(q) >= 1 /\ r[1] = a
  BY <1>2 DEF IsSimple
<1>5. ASSUME NEW i \in 1..(Len(r) - 1) PROVE \E d \in edges : d[1] = r[i] /\ d[3] = r[i + 1]
  <2>1. CASE i = Len(q)
    BY <1>2, <1>4, <2>1 DEF Last
  <2>2. CASE i # Len(q)
    <3>1. i \in 1..(Len(q) - 1)
      BY <1>2, <2>2
    <3>2. r[i] = q[i] /\ r[i + 1] = q[i + 1]
      BY <1>2, <3>1
    <3> QED BY <3>1, <3>2 DEF IsSimple
  <2> QED BY <2>1, <2>2
<1>6. ASSUME NEW i \in 1..Len(r), NEW j \in 1..Len(r), r[i] = r[j] PROVE i = j
  <2>1. CASE i = Len(q) + 1 /\ j # Len(q) + 1
    BY <1>2, <1>3, <1>6, <2>1
  <2>2. CASE j = Len(q) + 1 /\ i # Len(q) + 1
    BY <1>2, <1>3, <1>6, <2>2
  <2>3. CASE i \in 1..Len(q) /\ j \in 1..Len(q)
    BY <1>2, <1>6, <2>3 DEF IsSimple
  <2> QED BY <1>2, <2>1, <2>2, <2>3
<1> QED BY <1>2, <1>4, <1>5, <1>6 DEF IsSimple, r

\* The first nodes of a path are a path.
LEMMA PrefixSimple ==
  ASSUME NEW a, NEW edges, NEW q, IsSimple(q, a, edges), NEW m \in 1..Len(q)
  PROVE  LET r == SubSeq(q, 1, m)
         IN  /\ IsSimple(r, a, edges)
             /\ Len(r) = m
             /\ Last(r) = q[m]
             /\ Range(r) \subseteq Range(q)
             /\ \A i \in 1..m : r[i] = q[i]
<1> DEFINE r == SubSeq(q, 1, m)
           N == NodesFrom(a, edges)
<1>1. q \in Seq(N) /\ Len(q) \in Nat
  BY DEF IsSimple
<1>2. r \in Seq(N) /\ Len(r) = m /\ \A i \in 1..m : r[i] = q[i]
  <2> HIDE DEF N
  <2> QED BY <1>1, SubSeqProperties
<1> HIDE DEF r
<1>3. ASSUME NEW i \in 1..(Len(r) - 1) PROVE \E e \in edges : e[1] = r[i] /\ e[3] = r[i + 1]
  <2>1. i \in 1..(Len(q) - 1) /\ r[i] = q[i] /\ r[i + 1] = q[i + 1]
    BY <1>1, <1>2
  <2> QED BY <2>1 DEF IsSimple
<1>4. ASSUME NEW i \in 1..Len(r), NEW j \in 1..Len(r), r[i] = r[j] PROVE i = j
  <2>1. i \in 1..Len(q) /\ j \in 1..Len(q) /\ q[i] = q[j]
    BY <1>1, <1>2, <1>4
  <2> QED BY <2>1 DEF IsSimple
<1>5. r[1] = a /\ Len(r) >= 1 /\ Last(r) = q[m]
  BY <1>1, <1>2 DEF IsSimple, Last
<1>6. Range(r) \subseteq Range(q)
  BY <1>1, <1>2 DEF Range
<1> QED BY <1>2, <1>3, <1>4, <1>5, <1>6 DEF IsSimple, r

\* A path uses every edge at most once.
LEMMA SimpleShort ==
  ASSUME NEW a, NEW edges, IsFiniteSet(edges), NEW q, IsSimple(q, a, edges)
  PROVE  Len(q) <= Cardinality(edges) + 1
<1> DEFINE D == 1..(Len(q) - 1)
           f == [i \in D |-> CHOOSE e \in edges : e[3] = q[i + 1]]
<1>1. Len(q) \in Nat /\ Len(q) >= 1
  BY DEF IsSimple
<1>2. \A i \in D : f[i] \in edges /\ f[i][3] = q[i + 1]
  BY DEF IsSimple
<1>3. \A i, j \in D : f[i] = f[j] => i = j
  <2> SUFFICES ASSUME NEW i \in D, NEW j \in D, f[i] = f[j] PROVE i = j
    OBVIOUS
  <2>1. q[i + 1] = q[j + 1]
    BY <1>2
  <2>2. i + 1 \in 1..Len(q) /\ j + 1 \in 1..Len(q)
    BY <1>1
  <2>3. i + 1 = j + 1
    BY <2>1, <2>2 DEF IsSimple
  <2> QED BY <2>3
<1>4. f \in Injection(D, edges)
  BY <1>2, <1>3 DEF Injection, IsInjective
<1>5. Cardinality(D) <= Cardinality(edges)
  <2> HIDE DEF D, f
  <2> QED BY <1>4, FS_Injection
<1>6. Cardinality(D) = Len(q) - 1
  BY <1>1, FS_Interval
<1> QED BY <1>1, <1>5, <1>6, FS_CardinalityType

\* The rounds compute the paths of growing length.
LEMMA PathRoundsAre ==
  ASSUME NEW a, NEW edges, IsFiniteSet(edges)
  PROVE  \A i \in 0..Cardinality(edges) : \A q :
           q \in PathRounds(a, edges)[i] <=> IsSimple(q, a, edges) /\ Len(q) <= i + 1
<1> DEFINE k == Cardinality(edges)
           r == PathRounds(a, edges)
           N == NodesFrom(a, edges)
           T == {i \in Nat : i <= k => \A q : q \in r[i] <=> IsSimple(q, a, edges) /\ Len(q) <= i + 1}
<1> HIDE DEF k, r
<1>1. k \in Nat /\ r[0] = {<<a>>} /\ \A i \in 1..k : r[i] = Longer(r[i - 1], edges)
  BY PathRoundsValue DEF k, r
<1>2. 0 \in T
  <2>1. IsSimple(<<a>>, a, edges) /\ Len(<<a>>) = 1
    BY DEF IsSimple, NodesFrom
  <2>2. ASSUME NEW q, IsSimple(q, a, edges), Len(q) <= 1 PROVE q = <<a>>
    <3>1. q \in Seq(N) /\ Len(q) >= 1 /\ q[1] = a
      BY <2>2 DEF IsSimple
    <3> HIDE DEF N
    <3>2. Len(q) = 1
      <4>1. Len(q) \in Nat
        BY <3>1
      <4>2. ASSUME NEW l \in Nat, l >= 1, l <= 1 PROVE l = 1
        BY <4>2
      <4> QED BY <2>2, <3>1, <4>1, <4>2
    <3> QED BY <3>1, <3>2
  <2>3. ASSUME NEW q, q \in r[0] PROVE IsSimple(q, a, edges) /\ Len(q) <= 1
    <3>1. q = <<a>>
      BY <1>1, <2>3
    <3> QED BY <2>1, <3>1
  <2>4. ASSUME NEW q, IsSimple(q, a, edges), Len(q) <= 1 PROVE q \in r[0]
    <3>1. q = <<a>>
      BY <2>2, <2>4
    <3> QED BY <1>1, <3>1
  <2>5. \A q : q \in r[0] <=> IsSimple(q, a, edges) /\ Len(q) <= 1
    BY <2>3, <2>4
  <2>6. 0 + 1 = 1
    OBVIOUS
  <2> QED BY <1>1, <2>5, <2>6
<1>3. \A i \in Nat : i \in T => i + 1 \in T
  <2> SUFFICES ASSUME NEW i \in Nat, i \in T, i + 1 <= k, NEW q
               PROVE  q \in r[i + 1] <=> IsSimple(q, a, edges) /\ Len(q) <= i + 2
    OBVIOUS
  <2>1. \A p : p \in r[i] <=> IsSimple(p, a, edges) /\ Len(p) <= i + 1
    BY <1>1
  <2>2. r[i + 1] = Longer(r[i], edges)
    BY <1>1
  <2>3. ASSUME q \in r[i + 1] PROVE IsSimple(q, a, edges) /\ Len(q) <= i + 2
    <3>1. CASE q \in r[i]
      <4>1. IsSimple(q, a, edges) /\ Len(q) <= i + 1
        BY <2>1, <3>1
      <4>2. Len(q) \in Nat
        BY <4>1 DEF IsSimple
      <4> QED BY <4>1, <4>2
    <3>2. CASE q \notin r[i]
      <4>1. PICK p \in r[i], e \in edges : e[1] = Last(p) /\ e[3] \notin Range(p) /\ q = Append(p, e[3])
        BY <2>2, <2>3, <3>2 DEF Longer
      <4>2. IsSimple(p, a, edges) /\ Len(p) <= i + 1
        BY <2>1
      <4>3. Len(q) = Len(p) + 1 /\ Len(p) \in Nat
        BY <4>1, <4>2 DEF IsSimple
      <4> QED BY <4>1, <4>2, <4>3, AppendSimple
    <3> QED BY <3>1, <3>2
  <2>4. ASSUME IsSimple(q, a, edges), Len(q) <= i + 2 PROVE q \in r[i + 1]
    <3>1. Len(q) \in Nat /\ q \in Seq(N)
      BY <2>4 DEF IsSimple
    <3>2. CASE Len(q) <= i + 1
      BY <2>1, <2>2, <2>4, <3>2 DEF Longer
    <3>3. CASE Len(q) = i + 2
      <4> DEFINE p == SubSeq(q, 1, i + 1)
      <4>1. i + 1 \in 1..Len(q)
        BY <3>3
      <4>2. /\ IsSimple(p, a, edges) /\ Len(p) = i + 1 /\ Last(p) = q[i + 1]
            /\ \A j \in 1..(i + 1) : p[j] = q[j]
        BY <2>4, <4>1, PrefixSimple
      <4> HIDE DEF p
      <4>3. p \in r[i] /\ p \in Seq(N)
        <5>1. p \in Seq(N)
          BY <4>2 DEF IsSimple
        <5>2. p \in r[i]
          BY <2>1, <4>2
        <5> QED BY <5>1, <5>2
      <4>4. PICK e \in edges : e[1] = q[i + 1] /\ e[3] = q[i + 2]
        <5>1. i + 1 \in 1..(Len(q) - 1) /\ (i + 1) + 1 = i + 2
          BY <3>3
        <5> QED BY <2>4, <5>1 DEF IsSimple
      <4>5. e[3] \notin Range(p)
        <5> SUFFICES ASSUME NEW j \in DOMAIN p, p[j] = q[i + 2] PROVE FALSE
          BY <4>4 DEF Range
        <5>1. j \in 1..(i + 1)
          BY <4>2, <4>3
        <5>2. j \in 1..Len(q) /\ i + 2 \in 1..Len(q) /\ q[j] = q[i + 2]
          BY <3>3, <4>2, <5>1
        <5>3. j = i + 2
          BY <2>4, <5>2 DEF IsSimple
        <5> QED BY <5>1, <5>3
      <4>6. q = Append(p, e[3])
        <5>1. e[3] \in N
          BY DEF NodesFrom
        <5> HIDE DEF N
        <5> QED BY <3>1, <3>3, <4>2, <4>3, <4>4, <5>1
      <4>7. <<p, e>> \in r[i] \X edges
        BY <4>3
      <4> QED BY <2>2, <4>2, <4>4, <4>5, <4>6, <4>7 DEF Longer
    <3> QED BY <2>4, <3>1, <3>2, <3>3
  <2> QED BY <2>3, <2>4
<1>4. \A i \in Nat : i \in T
  <2> HIDE DEF T
  <2> QED BY <1>2, <1>3, Induction
<1> QED BY <1>1, <1>4 DEF k, r

\* PathsFrom has the paths without a node twice.
LEMMA PathsFromAre ==
  ASSUME NEW a, NEW edges, IsFiniteSet(edges)
  PROVE  \A q : q \in PathsFrom(a, edges) <=> IsSimple(q, a, edges)
<1>1. Cardinality(edges) \in 0..Cardinality(edges)
  BY FS_CardinalityType
<1> QED BY <1>1, PathRoundsAre, SimpleShort DEF PathsFrom

\* Along an edge a path goes on, or goes back to where it met the node.
LEMMA StepOn ==
  ASSUME NEW a, NEW edges, IsFiniteSet(edges), NEW q \in PathsFrom(a, edges),
         NEW e \in edges, e[1] = Last(q)
  PROVE  \E r \in PathsFrom(a, edges) : Last(r) = e[3] /\ Range(r) \subseteq Range(q) \cup {e[3]}
<1> DEFINE N == NodesFrom(a, edges)
<1>1. IsSimple(q, a, edges)
  BY PathsFromAre
<1>2. q \in Seq(N) /\ Len(q) \in Nat
  BY <1>1 DEF IsSimple
<1>3. CASE e[3] \in Range(q)
  <2>1. PICK m \in 1..Len(q) : q[m] = e[3]
    BY <1>2, <1>3 DEF Range
  <2>2. /\ IsSimple(SubSeq(q, 1, m), a, edges)
        /\ Last(SubSeq(q, 1, m)) = q[m]
        /\ Range(SubSeq(q, 1, m)) \subseteq Range(q)
    BY <1>1, PrefixSimple
  <2>3. SubSeq(q, 1, m) \in PathsFrom(a, edges)
    BY <2>2, PathsFromAre
  <2> QED BY <2>1, <2>2, <2>3
<1>4. CASE e[3] \notin Range(q)
  <2> DEFINE r == Append(q, e[3])
  <2>1. r \in PathsFrom(a, edges)
    BY <1>1, <1>4, AppendSimple, PathsFromAre
  <2>2. e[3] \in N
    BY DEF NodesFrom
  <2>3. DOMAIN r = 1..(Len(q) + 1) /\ DOMAIN q = 1..Len(q) /\ Len(r) = Len(q) + 1
        /\ \A i \in 1..(Len(q) + 1) : r[i] = IF i <= Len(q) THEN q[i] ELSE e[3]
    <3> HIDE DEF N
    <3> QED BY <1>2, <2>2
  <2> HIDE DEF r
  <2>4. Last(r) = e[3]
    BY <1>2, <2>3 DEF Last
  <2>5. Range(r) \subseteq Range(q) \cup {e[3]}
    BY <1>2, <2>3 DEF Range
  <2> QED BY <2>1, <2>4, <2>5
<1> QED BY <1>3, <1>4

\* The shortest path, the ends of a path, and the path before the last node.
LEMMA PathStart ==
  ASSUME NEW a, NEW edges, IsFiniteSet(edges)
  PROVE  <<a>> \in PathsFrom(a, edges) /\ Last(<<a>>) = a /\ Range(<<a>>) = {a}
<1>1. IsSimple(<<a>>, a, edges) /\ Last(<<a>>) = a /\ Range(<<a>>) = {a}
  BY DEF IsSimple, NodesFrom, Last, Range
<1> QED BY <1>1, PathsFromAre

\* A path visits its start and its end.
LEMMA PathEnds ==
  ASSUME NEW a, NEW edges, IsFiniteSet(edges), NEW q \in PathsFrom(a, edges)
  PROVE  a \in Range(q) /\ Last(q) \in Range(q)
<1>1. q \in Seq(NodesFrom(a, edges)) /\ Len(q) >= 1 /\ q[1] = a
  BY PathsFromAre DEF IsSimple
<1> QED BY <1>1 DEF Last, Range

\* A path that goes somewhere is a shorter path and one more edge.
LEMMA PathBefore ==
  ASSUME NEW a, NEW edges, IsFiniteSet(edges), NEW q \in PathsFrom(a, edges), Last(q) # a
  PROVE  \E r \in PathsFrom(a, edges), e \in edges :
           /\ e[1] = Last(r) /\ e[3] = Last(q)
           /\ Range(q) = Range(r) \cup {Last(q)} /\ Last(q) \notin Range(r)
           /\ Len(q) \in Nat /\ Len(r) \in Nat /\ Len(r) < Len(q)
<1> DEFINE N == NodesFrom(a, edges)
           m == Len(q) - 1
           r == SubSeq(q, 1, m)
<1>1. IsSimple(q, a, edges)
  BY PathsFromAre
<1>2. q \in Seq(N) /\ Len(q) \in Nat /\ Len(q) >= 1 /\ q[1] = a
  BY <1>1 DEF IsSimple
<1>3. Len(q) # 1
  BY <1>2 DEF Last
<1>4. m \in 1..Len(q) /\ m \in 1..(Len(q) - 1) /\ m + 1 = Len(q)
  <2>1. ASSUME NEW l \in Nat, l >= 1, l # 1
        PROVE  l - 1 \in 1..l /\ l - 1 \in 1..(l - 1) /\ (l - 1) + 1 = l
    BY <2>1
  <2> HIDE DEF N
  <2> QED BY <1>2, <1>3, <2>1
<1>5. /\ IsSimple(r, a, edges) /\ Len(r) = m /\ Last(r) = q[m]
      /\ \A i \in 1..m : r[i] = q[i]
  <2> HIDE DEF m
  <2> QED BY <1>1, <1>4, PrefixSimple
<1>6. PICK e \in edges : e[1] = q[m] /\ e[3] = q[m + 1]
  BY <1>1, <1>4 DEF IsSimple
<1>7. r \in PathsFrom(a, edges)
  BY <1>5, PathsFromAre
<1>8. DOMAIN r = 1..m /\ DOMAIN q = 1..(m + 1) /\ m \in Nat
  BY <1>2, <1>4, <1>5 DEF IsSimple
<1> HIDE DEF r, m
<1>9. Range(q) = Range(r) \cup {Last(q)}
  <2>1. \A i \in 1..(m + 1) : i = m + 1 \/ i \in 1..m
    BY <1>8
  <2>2. 1..m \subseteq 1..(m + 1) /\ m + 1 \in 1..(m + 1)
    BY <1>8
  <2>3. Last(q) = q[m + 1]
    BY <1>4 DEF Last
  <2> QED BY <1>5, <1>8, <2>1, <2>2, <2>3 DEF Range
<1>10. Last(q) \notin Range(r)
  <2> SUFFICES ASSUME NEW i \in 1..m, r[i] = Last(q) PROVE FALSE
    BY <1>8 DEF Range
  <2>1. q[i] = q[m + 1] /\ i \in 1..Len(q) /\ m + 1 \in 1..Len(q)
    BY <1>4, <1>5, <1>8 DEF Last
  <2>2. i = m + 1
    BY <1>1, <2>1 DEF IsSimple
  <2> QED BY <1>8, <2>2
<1>11. Len(q) \in Nat /\ Len(r) \in Nat /\ Len(r) < Len(q)
  BY <1>4, <1>5, <1>8
<1> QED BY <1>4, <1>5, <1>6, <1>7, <1>9, <1>10, <1>11 DEF Last

\* What holds at the start and is passed on by every edge holds for all paths.
LEMMA PathInduction ==
  ASSUME NEW a, NEW edges, IsFiniteSet(edges), NEW S,
         <<a>> \in S,
         \A r, q \in PathsFrom(a, edges) : \A e \in edges :
           r \in S /\ e[1] = Last(r) /\ e[3] = Last(q) /\ Range(q) = Range(r) \cup {Last(q)} => q \in S
  PROVE  PathsFrom(a, edges) \subseteq S
<1> DEFINE P == PathsFrom(a, edges)
           Bad == {q \in P : q \notin S}
           Lengths == {Len(q) : q \in Bad}
<1> SUFFICES ASSUME Bad # {} PROVE FALSE
  OBVIOUS
<1>1. Lengths \subseteq Nat /\ Lengths # {}
  <2>1. \A q \in P : Len(q) \in Nat
    BY PathsFromAre DEF IsSimple
  <2> QED BY <2>1
<1>2. PICK n \in Lengths : \A m \in Lengths : n <= m
  <2> HIDE DEF Lengths
  <2> QED BY <1>1, LeastNat
<1>3. PICK q \in Bad : n = Len(q)
  BY <1>2
<1>4. q \in PathsFrom(a, edges) /\ q \notin S /\ Last(q) # a
  <2>1. q \in PathsFrom(a, edges) /\ q \notin S
    BY <1>3
  <2>2. ASSUME Last(q) = a PROVE q = <<a>>
    <3> DEFINE N == NodesFrom(a, edges)
    <3>1. q \in Seq(N) /\ Len(q) >= 1 /\ q[1] = a /\ \A i, j \in 1..Len(q) : q[i] = q[j] => i = j
      BY <2>1, PathsFromAre DEF IsSimple
    <3> HIDE DEF N
    <3>2. 1 \in 1..Len(q) /\ Len(q) \in 1..Len(q) /\ q[1] = q[Len(q)]
      BY <2>2, <3>1 DEF Last
    <3>3. Len(q) = 1
      BY <3>1, <3>2
    <3> QED BY <3>1, <3>3
  <2> QED BY <2>1, <2>2
<1>5. PICK r \in PathsFrom(a, edges), e \in edges :
        /\ e[1] = Last(r) /\ e[3] = Last(q)
        /\ Range(q) = Range(r) \cup {Last(q)} /\ Last(q) \notin Range(r)
        /\ Len(q) \in Nat /\ Len(r) \in Nat /\ Len(r) < Len(q)
  <2> HIDE DEF P, Bad, Lengths
  <2> QED BY <1>4, PathBefore
<1>6. r \notin Bad
  <2> SUFFICES ASSUME r \in Bad PROVE FALSE
    OBVIOUS
  <2>1. Len(r) \in Lengths
    OBVIOUS
  <2> HIDE DEF Lengths
  <2> QED BY <1>2, <1>3, <1>5, <2>1
<1> QED BY <1>4, <1>5, <1>6

-----------------------------------------------------------------------------
(* The control flow graphs *)

\* The image of a finite set is finite.
LEMMA ImageFinite ==
  ASSUME NEW S, IsFiniteSet(S), NEW T, NEW f \in [S -> T], T = {f[x] : x \in S}
  PROVE  IsFiniteSet(T)
<1>1. f \in Surjection(S, T)
  BY DEF Surjection
<1> QED BY <1>1, FS_Surjection

\* A block of a normalised program has finitely many jump edges,
LEMMA JumpsFinite ==
  ASSUME NEW p, NEW b, BlockIsNormal(p, b)
  PROVE  IsFiniteSet(PlainJumps(p, b))
<1> DEFINE jmps == p.blks[b].jmps
           j == jmps[1]
           Two == {<<End(b), "Jump", Start(jmps[k].target), k>> : k \in 1..2}
           Ind == {<<End(b), "Jump", Start(t)>> : t \in j.targets}
<1>1. IsFiniteSet(Two)
  <2>1. IsFiniteSet(1..2)
    <3>1. 1 \in Int /\ 2 \in Int
      OBVIOUS
    <3> QED BY <3>1, FS_Interval, Zenon
  <2>2. [k \in 1..2 |-> <<End(b), "Jump", Start(jmps[k].target), k>>] \in [1..2 -> Two]
    OBVIOUS
  <2>3. Two = {[k \in 1..2 |-> <<End(b), "Jump", Start(jmps[k].target), k>>][i] : i \in 1..2}
    OBVIOUS
  <2> HIDE DEF Two
  <2> QED BY <2>1, <2>2, <2>3, ImageFinite
<1>2. j.kind = "BranchInd" => IsFiniteSet(Ind)
  <2> SUFFICES ASSUME j.kind = "BranchInd" PROVE IsFiniteSet(Ind)
    OBVIOUS
  <2>1. IsFiniteSet(j.targets)
    BY DEF BlockIsNormal, JmpTargets
  <2>2. [t \in j.targets |-> <<End(b), "Jump", Start(t)>>] \in [j.targets -> Ind]
    OBVIOUS
  <2>3. Ind = {[t \in j.targets |-> <<End(b), "Jump", Start(t)>>][i] : i \in j.targets}
    OBVIOUS
  <2> HIDE DEF Ind
  <2> QED BY <2>1, <2>2, <2>3, ImageFinite
<1>3. \A x : IsFiniteSet({x}) /\ IsFiniteSet({})
  BY FS_Singleton, FS_EmptySet
<1>4. PlainJumps(p, b) = Two \/ (j.kind = "BranchInd" /\ PlainJumps(p, b) = Ind) \/ PlainJumps(p, b) = {}
      \/ \E x : PlainJumps(p, b) = {x}
  <2>1. CASE Len(jmps) = 2
    <3>0. j.kind = "CBranch"
      BY <2>1 DEF BlockIsNormal
    <3>1. PlainJumps(p, b) = Two
      BY <2>1, <3>0 DEF PlainJumps
    <3> HIDE DEF Two, Ind
    <3> QED BY <3>1
  <2>2. CASE Len(jmps) # 2 /\ j.kind = "Branch"
    <3>1. PlainJumps(p, b) = {<<End(b), "Jump", Start(j.target)>>}
      BY <2>2 DEF PlainJumps
    <3> HIDE DEF Two, Ind
    <3> QED BY <3>1
  <2>3. CASE Len(jmps) # 2 /\ j.kind \in {"ExternCall", "CallInd", "CallOther"}
    <3>1. PlainJumps(p, b) = {<<End(b), "ExternCallStub", Start(j.return)>>}
      BY <2>3 DEF PlainJumps
    <3> HIDE DEF Two, Ind
    <3> QED BY <3>1
  <2>4. CASE Len(jmps) # 2 /\ j.kind = "BranchInd"
    <3>1. PlainJumps(p, b) = Ind
      BY <2>4 DEF PlainJumps
    <3> HIDE DEF Two, Ind
    <3> QED BY <2>4, <3>1
  <2>5. CASE Len(jmps) # 2 /\ j.kind \notin {"Branch", "ExternCall", "CallInd", "CallOther", "BranchInd"}
    <3>1. PlainJumps(p, b) = {}
      BY <2>5 DEF PlainJumps
    <3> HIDE DEF Two, Ind
    <3> QED BY <3>1
  <2> HIDE DEF Two, Ind
  <2> QED BY <2>1, <2>2, <2>3, <2>4, <2>5
<1> HIDE DEF Two, Ind
<1> QED BY <1>1, <1>2, <1>3, <1>4

\* finitely many edges around a call with finitely many returning blocks,
LEMMA CallEdgesFinite ==
  ASSUME NEW p, NEW b, NEW rs, IsFiniteSet(rs)
  PROVE  IsFiniteSet(CallEdges(p, b, rs))
<1> DEFINE A == {<<CallSource(b), "CrCallStub", CallReturn(b, r)>> : r \in rs}
           B == {<<CallReturn(b, r), "ReturnCombine", Start(FirstJmp(p, b).return)>> : r \in rs}
           C == {<<End(b), "CallCombine", CallSource(b)>>}
<1>1. IsFiniteSet(A)
  <2>1. [r \in rs |-> <<CallSource(b), "CrCallStub", CallReturn(b, r)>>] \in [rs -> A]
    OBVIOUS
  <2>2. A = {[r \in rs |-> <<CallSource(b), "CrCallStub", CallReturn(b, r)>>][i] : i \in rs}
    OBVIOUS
  <2> HIDE DEF A
  <2> QED BY <2>1, <2>2, ImageFinite
<1>2. IsFiniteSet(B)
  <2>1. [r \in rs |-> <<CallReturn(b, r), "ReturnCombine", Start(FirstJmp(p, b).return)>>] \in [rs -> B]
    OBVIOUS
  <2>2. B = {[r \in rs |-> <<CallReturn(b, r), "ReturnCombine", Start(FirstJmp(p, b).return)>>][i] : i \in rs}
    OBVIOUS
  <2> HIDE DEF B
  <2> QED BY <2>1, <2>2, ImageFinite
<1>3. IsFiniteSet(C) /\ IsFiniteSet({})
  BY FS_Singleton, FS_EmptySet
<1>4. IsFiniteSet((C \cup A) \cup B)
  <2> HIDE DEF A, B, C
  <2> QED BY <1>1, <1>2, <1>3, FS_Union
<1>5. CallEdges(p, b, rs) = {} \/ CallEdges(p, b, rs) = (C \cup A) \cup B
  BY DEF CallEdges
<1> HIDE DEF A, B, C
<1> QED BY <1>3, <1>4, <1>5

\* Graphs over finitely many blocks are finite.
LEMMA GraphFinite ==
  ASSUME NEW B, IsFiniteSet(B), NEW J, \A b \in B : IsFiniteSet(J[b])
  PROVE  IsFiniteSet({add_block(b) : b \in B} \cup UNION {J[b] : b \in B})
<1> DEFINE A == {add_block(b) : b \in B}
           U == {J[b] : b \in B}
<1>1. IsFiniteSet(A)
  <2>1. [b \in B |-> add_block(b)] \in [B -> A] /\ A = {[b \in B |-> add_block(b)][i] : i \in B}
    OBVIOUS
  <2> HIDE DEF A
  <2> QED BY <2>1, ImageFinite
<1>2. IsFiniteSet(U) /\ \A T \in U : IsFiniteSet(T)
  <2>1. [b \in B |-> J[b]] \in [B -> U] /\ U = {[b \in B |-> J[b]][i] : i \in B}
    OBVIOUS
  <2>2. \A T \in U : IsFiniteSet(T)
    OBVIOUS
  <2> HIDE DEF U
  <2> QED BY <2>1, <2>2, ImageFinite
<1>3. IsFiniteSet(UNION U)
  <2> HIDE DEF U
  <2> QED BY <1>2, FS_UNION
<1> HIDE DEF A
<1>4. IsFiniteSet(A \cup UNION U)
  <2> HIDE DEF U
  <2> QED BY <1>1, <1>3, FS_Union
<1> QED BY <1>4 DEF A

\* and so the control flow graph of a function is finite.
LEMMA CfgFinite ==
  ASSUME NEW p, IsNormal(p), NEW f
  PROVE  IsFiniteSet(IntraproceduralCfg(p, f))
<1> DEFINE B == BlocksOf(p, f)
           J == [b \in B |-> add_jump(p, b)]
<1>1. IsFiniteSet(B)
  <2>1. B \in SUBSET (DOMAIN p.blks) /\ IsFiniteSet(DOMAIN p.blks)
    BY DEF BlocksOf, IsNormal
  <2> HIDE DEF B
  <2> QED BY <2>1, FS_Subset
<1>2. \A b \in B : IsFiniteSet(J[b])
  <2> SUFFICES ASSUME NEW b \in B PROVE IsFiniteSet(PlainJumps(p, b) \cup CallEdges(p, b, {None}))
    BY DEF add_jump
  <2>1. BlockIsNormal(p, b)
    BY DEF BlocksOf, IsNormal
  <2>2. IsFiniteSet({None})
    BY FS_Singleton
  <2> QED BY <2>1, <2>2, JumpsFinite, CallEdgesFinite, FS_Union
<1>3. IsFiniteSet({add_block(b) : b \in B} \cup UNION {J[b] : b \in B})
  <2> HIDE DEF B, J
  <2> QED BY <1>1, <1>2, GraphFinite
<1>4. IntraproceduralCfg(p, f) = {add_block(b) : b \in B} \cup UNION {J[b] : b \in B}
  BY DEF IntraproceduralCfg
<1> QED BY <1>3, <1>4

\* The edge e of the block b, in a graph with the blocks B.
EdgeOf(e, b, B) ==
  \/ e[1] = Start(b) /\ e[2] = "Block" /\ e[3] = End(b)
  \/ e[1] = End(b) /\ e[2] \in {"Jump", "ExternCallStub"} /\ \E t \in B : e[3] = Start(t)
  \/ e[1] = End(b) /\ e[2] = "CallCombine" /\ e[3] = CallSource(b)
  \/ e[1] = CallSource(b) /\ e[2] = "CrCallStub" /\ \E r : e[3] = CallReturn(b, r)
  \/ e[2] = "ReturnCombine" /\ (\E r : e[1] = CallReturn(b, r)) /\ \E t \in B : e[3] = Start(t)

\* Jump edges lead from the end of a block to the start of one of its function.
LEMMA JumpEdges ==
  ASSUME NEW p, NEW b, BlockIsNormal(p, b), NEW e \in PlainJumps(p, b)
  PROVE  /\ e[1] = End(b) /\ e[2] \in {"Jump", "ExternCallStub"}
         /\ \E t \in BlocksOf(p, p.blks[b].sub) : e[3] = Start(t)
<1> DEFINE jmps == p.blks[b].jmps
           j == jmps[1]
           B == BlocksOf(p, p.blks[b].sub)
<1>1. DOMAIN jmps = {1} \/ DOMAIN jmps = {1, 2}
  BY DEF BlockIsNormal
<1>2. \A k \in DOMAIN jmps : JmpTargets(jmps[k]) \subseteq B
  BY DEF BlockIsNormal
<1>3. Len(jmps) = 2 => /\ jmps[1].kind = "CBranch" /\ jmps[2].kind = "Branch" /\ DOMAIN jmps = {1, 2}
  BY DEF BlockIsNormal
<1> HIDE DEF jmps, B
<1>4. CASE Len(jmps) = 2
  <2>1. PICK k \in 1..2 : e = <<End(b), "Jump", Start(jmps[k].target), k>>
    BY <1>3, <1>4 DEF PlainJumps, jmps
  <2>2. k = 1 \/ k = 2
    OBVIOUS
  <2>3. jmps[k].target \in B
    BY <1>2, <1>3, <1>4, <2>2 DEF JmpTargets
  <2> QED BY <2>1, <2>3 DEF B
<1>5. CASE Len(jmps) # 2
  <2>1. JmpTargets(j) \subseteq B
    BY <1>1, <1>2
  <2>2. CASE j.kind = "Branch"
    <3>1. e = <<End(b), "Jump", Start(j.target)>>
      BY <1>5, <2>2 DEF PlainJumps, jmps
    <3>2. j.target \in B
      BY <2>1, <2>2 DEF JmpTargets
    <3> QED BY <3>1, <3>2 DEF B
  <2>3. CASE j.kind \in {"ExternCall", "CallInd", "CallOther"}
    <3>1. e = <<End(b), "ExternCallStub", Start(j.return)>>
      BY <1>5, <2>3 DEF PlainJumps, jmps
    <3>2. j.return \in B
      BY <2>1, <2>3 DEF JmpTargets
    <3> QED BY <3>1, <3>2 DEF B
  <2>4. CASE j.kind = "BranchInd"
    <3>1. PICK t \in j.targets : e = <<End(b), "Jump", Start(t)>>
      BY <1>5, <2>4 DEF PlainJumps, jmps
    <3>2. t \in B
      BY <2>1, <2>4 DEF JmpTargets
    <3> QED BY <3>1, <3>2 DEF B
  <2>5. j.kind \in {"Branch", "ExternCall", "CallInd", "CallOther", "BranchInd"}
    BY <1>5 DEF PlainJumps, jmps
  <2> QED BY <2>2, <2>3, <2>4, <2>5
<1> QED BY <1>4, <1>5

\* The interprocedural graph has the same jump edges but those of CallOther.
LEMMA InterJumps ==
  ASSUME NEW p, NEW b, BlockIsNormal(p, b)
  PROVE  /\ add_jump_edge(p, b) \subseteq PlainJumps(p, b)
         /\ IsFiniteSet(add_jump_edge(p, b))
         /\ FirstJmp(p, b).kind # "CallOther" => add_jump_edge(p, b) = PlainJumps(p, b)
<1>1. add_jump_edge(p, b) \subseteq PlainJumps(p, b)
  BY DEF add_jump_edge
<1>2. FirstJmp(p, b).kind # "CallOther" => add_jump_edge(p, b) = PlainJumps(p, b)
  BY DEF add_jump_edge
<1>3. IsFiniteSet(add_jump_edge(p, b))
  BY <1>1, JumpsFinite, FS_Subset
<1> QED BY <1>1, <1>2, <1>3

\* The edges around a call stay in the function of the calling block.
LEMMA CallEdgesAre ==
  ASSUME NEW p, NEW b, BlockIsNormal(p, b), NEW rs, NEW e \in CallEdges(p, b, rs)
  PROVE  EdgeOf(e, b, BlocksOf(p, p.blks[b].sub)) /\ FirstJmp(p, b).kind = "Call"
<1> DEFINE j == FirstJmp(p, b)
           B == BlocksOf(p, p.blks[b].sub)
<1>1. j.kind = "Call"
  BY DEF CallEdges
<1>2. j.return \in B
  <2>1. 1 \in DOMAIN p.blks[b].jmps
    BY DEF BlockIsNormal
  <2>2. JmpTargets(j) \subseteq B
    BY <2>1 DEF BlockIsNormal, FirstJmp
  <2> QED BY <1>1, <2>2 DEF JmpTargets
<1> HIDE DEF B
<1>3. CASE e = <<End(b), "CallCombine", CallSource(b)>>
  BY <1>1, <1>3 DEF EdgeOf
<1>4. CASE \E r \in rs : e = <<CallSource(b), "CrCallStub", CallReturn(b, r)>>
  BY <1>1, <1>4 DEF EdgeOf
<1>5. CASE \E r \in rs : e = <<CallReturn(b, r), "ReturnCombine", Start(j.return)>>
  BY <1>1, <1>2, <1>5 DEF EdgeOf, B
<1> QED BY <1>1, <1>3, <1>4, <1>5 DEF CallEdges

\* The edges of the graph of a function.
LEMMA CfgEdges ==
  ASSUME NEW p, IsNormal(p), NEW f, NEW e \in IntraproceduralCfg(p, f)
  PROVE  \E b \in BlocksOf(p, f) : EdgeOf(e, b, BlocksOf(p, f))
<1>1. \A b \in BlocksOf(p, f) : BlockIsNormal(p, b) /\ p.blks[b].sub = f
  BY DEF BlocksOf, IsNormal
<1>2. CASE \E b \in BlocksOf(p, f) : e = add_block(b)
  BY <1>2 DEF add_block, EdgeOf
<1>3. CASE \E b \in BlocksOf(p, f) : e \in PlainJumps(p, b)
  BY <1>1, <1>3, JumpEdges DEF EdgeOf
<1>4. CASE \E b \in BlocksOf(p, f) : e \in CallEdges(p, b, {None})
  BY <1>1, <1>4, CallEdgesAre
<1> QED BY <1>2, <1>3, <1>4 DEF IntraproceduralCfg, add_jump

-----------------------------------------------------------------------------
(* The missing results *)

\* The modules that a filter retains are modules of get_modules, in order.
LEMMA RetainedIsSeq ==
  ASSUME NEW names
  PROVE  Retained(names) \in Seq(Range(get_modules))
<1> DEFINE k == Len(get_modules)
           X == Seq(Range(get_modules))
           Step(i, r) == IF get_modules[i] \in names THEN Append(r, get_modules[i]) ELSE r
           F == [x \in (1..k) \X X |-> Step(x[1], x[2])]
           Is(r) == r = [i \in 0..k |-> IF i = 0 THEN <<>> ELSE Step(i, r[i - 1])]
           r0 == CHOOSE r : Is(r)
<1>1. k \in Nat /\ \A i \in 1..k : get_modules[i] \in Range(get_modules)
  BY DEF get_modules, Range
<1>2. Retained(names) = r0[k]
  BY DEF Retained
<1> HIDE DEF k
<1>3. \A i \in 1..k : \A r \in X : Step(i, r) \in X
  BY <1>1
<1> HIDE DEF Step
<1>4. F \in [(1..k) \X X -> X]
  <2> HIDE DEF X
  <2> QED BY <1>3
<1>5. PICK s : Iterates(s, k, X, <<>>, F)
  <2>1. <<>> \in X
    OBVIOUS
  <2> HIDE DEF F, X
  <2> QED BY <1>1, <1>4, <2>1, Iteration
<1>6. Is(s)
  <2> HIDE DEF X
  <2>1. s \in [0..k -> X] /\ s[0] = <<>> /\ \A i \in 1..k : s[i] = F[<<i, s[i - 1]>>]
    <3> HIDE DEF F
    <3> QED BY <1>5 DEF Iterates
  <2>2. \A i \in 1..k : <<i, s[i - 1]>> \in (1..k) \X X
    BY <1>1, <2>1
  <2>3. \A i \in 1..k : s[i] = Step(i, s[i - 1])
    BY <2>1, <2>2
  <2> HIDE DEF F
  <2> QED BY <1>1, <2>1, <2>3
<1>7. Is(r0)
  BY <1>6
<1> HIDE DEF r0
<1> DEFINE T == {i \in Nat : i <= k => r0[i] \in X}
<1>8. 0 \in T
  <2>1. 0 \in 0..k
    BY <1>1
  <2>2. r0[0] = <<>>
    BY <1>7, <2>1
  <2>3. <<>> \in X
    OBVIOUS
  <2> HIDE DEF X
  <2> QED BY <2>2, <2>3
<1>9. \A i \in Nat : i \in T => i + 1 \in T
  <2> HIDE DEF X
  <2> SUFFICES ASSUME NEW i \in Nat, i \in T, i + 1 <= k PROVE r0[i + 1] \in X
    OBVIOUS
  <2>1. r0[i + 1] = Step(i + 1, r0[i])
    <3>1. i + 1 \in 0..k /\ i + 1 # 0 /\ (i + 1) - 1 = i
      BY <1>1
    <3> QED BY <1>7, <3>1
  <2>2. i + 1 \in 1..k /\ r0[i] \in X
    BY <1>1
  <2> QED BY <1>3, <2>1, <2>2
<1>10. k \in T
  <2> HIDE DEF T
  <2> QED BY <1>1, <1>8, <1>9, Induction
<1> QED BY <1>1, <1>2, <1>10

\* A finite set can be listed.
LEMMA SetToSeqsExist ==
  ASSUME NEW S, IsFiniteSet(S)
  PROVE  SetToSeqs(S) # {} /\ \A s \in SetToSeqs(S) : s \in Seq(S)
<1>1. Cardinality(S) \in Nat
  BY FS_CardinalityType
<1>2. PICK f : f \in Bijection(1..Cardinality(S), S)
  BY FS_CardinalityType DEF ExistsBijection
<1>3. f \in SetToSeqs(S)
  BY <1>2 DEF SetToSeqs, Bijection, Injection, IsInjective
<1>4. \A s \in SetToSeqs(S) : s \in Seq(S)
  BY <1>1 DEF SetToSeqs
<1> QED BY <1>3, <1>4

\* The reasons for which a run may panic: those of ResultsAvailable.
MissingExcused ==
  \/ args.partial # None /\ ~(args.partial \subseteq Range(get_modules) \cup {""})
  \/ args.statistics /\ modules = <<>>
  \/ args.debug = "pi" /\ results = {}

\* Modules that are about to run find all results they unwrap.
RunInv ==
  /\ input \in Inputs
  /\ stage \in {"filtered", "configured", "run", "cwe416"} => modules \in Seq(Range(get_modules))
  /\ stage \in {"run", "cwe416"} => \A m \in Range(modules) : Unwraps(m) \subseteq results
  /\ stage = "cwe416" => modules # <<>>
  /\ stage = "panicked" => MissingExcused

\* The analyses chosen by names serve all modules, and each other.
LEMMA AnalysesSuffice ==
  ASSUME NEW ms
  PROVE  LET found == AnalysesFor(ms)
         IN  /\ \A m \in ms : Unwraps(m) \subseteq found
             /\ \A a \in found : NeededBy(a) \subseteq found
             /\ found = {} \/ NeededBy("pi") \subseteq found
<1> DEFINE strings == ms \cap modules_depending_on_string_abstraction # {}
           pi == strings \/ ms \cap modules_depending_on_pointer_inference # {}
           found == AnalysesFor(ms)
<1>1. found = (IF pi THEN {"signatures", "pi"} ELSE {}) \cup (IF strings THEN {"strings"} ELSE {})
  BY DEF AnalysesFor
<1>2. ASSUME NEW m \in ms PROVE Unwraps(m) \subseteq found
  <2>1. CASE m = "CWE78"
    <3>1. strings
      BY <2>1 DEF modules_depending_on_string_abstraction
    <3> HIDE DEF strings
    <3> QED BY <1>1, <2>1, <3>1 DEF Unwraps
  <2>2. CASE m \in modules_depending_on_pointer_inference
    <3>1. pi
      BY <2>2
    <3>2. {"signatures", "pi"} \subseteq found
      <4> HIDE DEF pi, strings
      <4> QED BY <1>1, <3>1
    <3>3. Unwraps(m) \subseteq {"signatures", "pi"}
      BY <2>2 DEF Unwraps, modules_depending_on_pointer_inference
    <3> QED BY <3>2, <3>3
  <2>3. CASE m # "CWE78" /\ m \notin modules_depending_on_pointer_inference
    <3>1. Unwraps(m) = {}
      BY <2>3 DEF Unwraps, modules_depending_on_pointer_inference
    <3> QED BY <3>1
  <2> QED BY <2>1, <2>2, <2>3
<1>3. \A a \in found : NeededBy(a) \subseteq found
  <2>1. strings => pi
    OBVIOUS
  <2> HIDE DEF strings, pi
  <2>2. CASE pi
    BY <1>1, <2>2 DEF NeededBy
  <2>3. CASE ~pi
    BY <1>1, <2>1, <2>3 DEF NeededBy
  <2> QED BY <2>2, <2>3
<1>4. found = {} \/ NeededBy("pi") \subseteq found
  <2>1. strings => pi
    OBVIOUS
  <2> HIDE DEF strings, pi
  <2> QED BY <1>1, <2>1 DEF NeededBy
<1> QED BY <1>2, <1>3, <1>4

\* The modules that are left to run are among those there were.
LEMMA TailModules ==
  ASSUME NEW S, NEW s \in Seq(S), s # <<>>
  PROVE  Tail(s) \in Seq(S) /\ Range(Tail(s)) \subseteq Range(s) /\ Head(s) \in Range(s)
<1>1. Tail(s) \in Seq(S) /\ Len(Tail(s)) = Len(s) - 1 /\ Len(s) \in Nat /\ Len(s) >= 1
      /\ \A i \in 1..(Len(s) - 1) : Tail(s)[i] = s[i + 1]
  OBVIOUS
<1>2. Head(s) = s[1]
  OBVIOUS
<1>3. Head(s) \in Range(s)
  BY <1>1, <1>2 DEF Range
<1>4. ASSUME NEW i \in DOMAIN Tail(s) PROVE Tail(s)[i] \in Range(s)
  <2>1. i \in 1..(Len(s) - 1) /\ i + 1 \in DOMAIN s
    BY <1>1
  <2> QED BY <1>1, <2>1 DEF Range
<1> QED BY <1>1, <1>3, <1>4 DEF Range

\* A sequence over a set is one over every larger set.
LEMMA SeqOfMore ==
  ASSUME NEW S, NEW T, S \subseteq T, NEW s \in Seq(S)
  PROVE  s \in Seq(T)
<1>1. Len(s) \in Nat /\ s \in [1..Len(s) -> S]
  OBVIOUS
<1>2. s \in [1..Len(s) -> T]
  BY <1>1
<1> QED BY <1>1, <1>2

\* Every step of the caller keeps RunInv, one case per action.
LEMMA RunInvInductive ==
  ASSUME RunInv, [Next]_vars
  PROVE  RunInv'
<1> USE DEF RunInv, MissingExcused
<1>1. CASE UNCHANGED vars
  BY <1>1 DEF vars, args
<1>2. ASSUME NEW s, Exit(s), s \notin {"filtered", "run", "cwe416", "panicked"},
             s = "configured" => stage = "filtered"
      PROVE  RunInv'
  BY <1>2 DEF Exit, args
<1>3. CASE Disassemble
  <2>1. \E s \in {"exited", "failed", "stats", "disassembled"} : Exit(s)
    BY <1>3 DEF Disassemble
  <2> QED BY <1>2, <2>1
<1>4. CASE FilterModules
  <2>1. CASE args.partial # None
    <3> DEFINE names == args.partial \ {""}
               orders == filter_modules_for_partial_run(args.partial)
    <3>1. IsFiniteSet(names)
      BY <2>1, ModuleNamesAreFinite, FS_Difference DEF args
    <3>2. CASE names \subseteq Range(get_modules)
      <4>1. orders = SetToSeqs(names)
        BY <3>2 DEF filter_modules_for_partial_run
      <4>2. orders # {} /\ \A s \in orders : s \in Seq(Range(get_modules))
        <5> HIDE DEF names, orders
        <5>1. orders # {} /\ \A s \in orders : s \in Seq(names)
          BY <3>1, <4>1, SetToSeqsExist
        <5> QED BY <3>2, <5>1, SeqOfMore
      <4> QED BY <1>4, <2>1, <4>2 DEF FilterModules
    <3>3. CASE ~(names \subseteq Range(get_modules))
      <4>1. orders = {}
        BY <3>3 DEF filter_modules_for_partial_run
      <4>2. ~(args.partial \subseteq Range(get_modules) \cup {""})
        BY <3>3
      <4> QED BY <1>4, <2>1, <4>1, <4>2 DEF FilterModules, Exit, args
    <3> QED BY <3>2, <3>3
  <2>2. CASE args.partial = None
    BY <1>4, <2>2, RetainedIsSeq DEF FilterModules
  <2> QED BY <2>1, <2>2
<1>5. CASE ReadConfig
  BY <1>2, <1>5 DEF ReadConfig
<1>6. CASE ComputeAnalyses
  <2>1. /\ \A m \in Range(modules) : Unwraps(m) \subseteq results'
        /\ \A a \in results' : NeededBy(a) \subseteq results'
        /\ results' = {} \/ NeededBy("pi") \subseteq results'
    BY <1>6, AnalysesSuffice DEF ComputeAnalyses
  <2> QED BY <1>6, <2>1 DEF ComputeAnalyses, args
<1>7. CASE RunModule
  <2>1. modules \in Seq(Range(get_modules)) /\ modules # <<>>
    BY <1>7 DEF RunModule
  <2>2. Tail(modules) \in Seq(Range(get_modules)) /\ Range(Tail(modules)) \subseteq Range(modules)
        /\ Head(modules) \in Range(modules)
    BY <2>1, TailModules
  <2>3. Available(Head(modules))
    BY <1>7, <2>2 DEF Available, RunModule
  <2> QED BY <1>7, <2>2, <2>3 DEF RunModule, computation
<1>8. CASE PrintResults
  <2>1. CASE args.statistics /\ ~args.quiet
    BY <1>8, <2>1 DEF PrintResults, Exit, args
  <2>2. CASE ~(args.statistics /\ ~args.quiet)
    BY <1>2, <1>8, <2>2 DEF PrintResults
  <2> QED BY <2>1, <2>2
<1>9. CASE StartCwe416
  <2>1. modules \in Seq(Range(get_modules)) /\ modules # <<>> /\ Head(modules) = "CWE416"
    BY <1>9 DEF StartCwe416
  <2>2. Head(modules) \in Range(modules)
    BY <2>1, TailModules
  <2>3. Available("CWE416")
    BY <1>9, <2>1, <2>2 DEF Available, StartCwe416
  <2> QED BY <1>9, <2>1, <2>3 DEF StartCwe416
<1>10. CASE UpdateNode
  BY <1>10 DEF UpdateNode
<1>11. CASE FinishCwe416
  <2>1. modules \in Seq(Range(get_modules)) /\ modules # <<>>
    BY <1>11 DEF FinishCwe416
  <2>2. Tail(modules) \in Seq(Range(get_modules)) /\ Range(Tail(modules)) \subseteq Range(modules)
    BY <2>1, TailModules
  <2> QED BY <1>11, <2>2 DEF FinishCwe416
<1>12. CASE StartStats \/ StartDominators \/ UpdateDominators \/ FinishDominators
  BY <1>12 DEF StartStats, StartDominators, UpdateDominators, FinishDominators
<1>13. CASE FinishStats
  BY <1>2, <1>13 DEF FinishStats
<1>14. CASE Done
  BY <1>1, <1>14 DEF Done
<1> QED
  BY <1>1, <1>3, <1>4, <1>5, <1>6, <1>7, <1>8, <1>9, <1>10, <1>11, <1>12, <1>13, <1>14 DEF Next

\* No module and no analysis unwraps a missing result, whatever modules were
\* selected: the name lists in run_with_ghidra agree with what modules unwrap.
THEOREM NoMissingResults == Spec => []ResultsAvailable
<1>1. Init => RunInv
  BY DEF Init, RunInv, MissingExcused
<1>2. RunInv /\ [Next]_vars => RunInv'
  BY RunInvInductive
<1>3. RunInv => ResultsAvailable
  BY DEF RunInv, ResultsAvailable, MissingExcused
<1> QED BY <1>1, <1>2, <1>3, PTL DEF Spec

-----------------------------------------------------------------------------
(* Dominators *)

\* The dominators of f are exact: what DominatorsOnAllPaths says of f.
PathsTo(f, n) == {q \in EntryPaths(f) : Last(q) = n}
Dominating(f, n) == {d \in BlocksOf(prog, f) : \A q \in PathsTo(f, n) : d \in BlocksOn(q)}
Exact(f, doms) ==
  /\ DOMAIN doms = {b \in BlocksOf(prog, f) : PathsTo(f, Start(b)) # {}}
  /\ \A b \in DOMAIN doms : doms[b] = Dominating(f, Start(b))

\* Values of the computation for f: never below the dominators, and stable
\* along the edges of nodes that are not in the worklist.
ValuesOf(f) ==
  /\ DOMAIN values = CfgNodes(prog, f)
  /\ worklist \subseteq {n \in CfgNodes(prog, f) : values[n] # None}
  /\ \A n \in CfgNodes(prog, f) : values[n] # None =>
       /\ values[n] \subseteq BlocksOf(prog, f)
       /\ PathsTo(f, n) # {}
       /\ Dominating(f, n) \subseteq values[n]
  /\ values[Start(prog.entry[f])] # None
  /\ values[Start(prog.entry[f])] \subseteq {prog.entry[f]}
  /\ \A e \in IntraproceduralCfg(prog, f) : values[e[1]] # None /\ e[1] \notin worklist =>
       values[e[3]] # None /\ values[e[3]] \subseteq DomUpdate(values[e[1]], e)

\* Finished functions have exact dominators, the current one is on its way.
StatsInv ==
  /\ input \in Inputs
  /\ stage \in {"start", "stats"} => values = Nothing /\ worklist = {}
  /\ stage \notin {"dominators", "exited"} => dominators = Nothing
  /\ stage = "dominators" =>
       /\ functions \subseteq DOMAIN prog.entry
       /\ DOMAIN dominators = DOMAIN prog.entry \ functions
       /\ \/ values = Nothing /\ worklist = {}
          \/ functions # {} /\ ValuesOf(Current)
  /\ \A f \in DOMAIN dominators : f \in DOMAIN prog.entry /\ Exact(f, dominators[f])
  /\ stage = "exited" /\ dominators # Nothing => DOMAIN dominators = DOMAIN prog.entry

\* The function in progress is one of those that are left.
LEMMA CurrentIs ==
  ASSUME input \in Inputs, functions \subseteq DOMAIN prog.entry, functions # {}
  PROVE  Current \in functions
<1> DEFINE T == {prog.entry[f] : f \in functions}
<1>1. T \subseteq Nat /\ T # {}
  BY ProgramsAreNormal DEF IsNormal, prog
<1>2. PICK n \in T : \A m \in T : n <= m
  <2> HIDE DEF T
  <2> QED BY <1>1, LeastNat
<1>3. \E f \in functions : \A g \in functions : prog.entry[f] <= prog.entry[g]
  BY <1>2
<1> QED BY <1>3 DEF Current

\* A block on all paths to a node's successor is on all paths to the node,
\* unless it is the block of the successor.
LEMMA DominatingBack ==
  ASSUME input \in Inputs, NEW f, NEW e \in IntraproceduralCfg(prog, f),
         NEW d \in Dominating(f, e[3]), ~(IsBlock(e[3]) /\ e[3][2] = d)
  PROVE  d \in Dominating(f, e[1])
<1> DEFINE E == IntraproceduralCfg(prog, f)
           a == Start(prog.entry[f])
<1>1. IsFiniteSet(E)
  BY ProgramsAreNormal, CfgFinite DEF prog
<1> SUFFICES ASSUME NEW q \in PathsTo(f, e[1]) PROVE d \in BlocksOn(q)
  BY DEF Dominating
<1>2. q \in PathsFrom(a, E) /\ Last(q) = e[1]
  BY DEF PathsTo, EntryPaths
<1>3. PICK r \in PathsFrom(a, E) : Last(r) = e[3] /\ Range(r) \subseteq Range(q) \cup {e[3]}
  <2> HIDE DEF E, a
  <2>1. e \in E
    BY DEF E
  <2> QED BY <1>1, <1>2, <2>1, StepOn
<1>4. d \in BlocksOn(r)
  BY <1>3 DEF Dominating, PathsTo, EntryPaths
<1>5. PICK n \in Range(r) : IsBlock(n) /\ n[2] = d
  BY <1>4 DEF BlocksOn
<1>6. n \in Range(q)
  BY <1>3, <1>5
<1> QED BY <1>5, <1>6 DEF BlocksOn

\* What an edge leads to from a reachable node is reachable.
LEMMA PathsGoOn ==
  ASSUME input \in Inputs, NEW f, NEW e \in IntraproceduralCfg(prog, f), PathsTo(f, e[1]) # {}
  PROVE  PathsTo(f, e[3]) # {}
<1> DEFINE E == IntraproceduralCfg(prog, f)
           a == Start(prog.entry[f])
<1>1. IsFiniteSet(E)
  BY ProgramsAreNormal, CfgFinite DEF prog
<1>2. PICK q \in PathsFrom(a, E) : Last(q) = e[1]
  BY DEF PathsTo, EntryPaths
<1>3. \E r \in PathsFrom(a, E) : Last(r) = e[3] /\ Range(r) \subseteq Range(q) \cup {e[3]}
  <2> HIDE DEF E, a
  <2>1. e \in E
    BY DEF E
  <2> QED BY <1>1, <1>2, <2>1, StepOn
<1> QED BY <1>3 DEF PathsTo, EntryPaths

\* The value that an edge passes on keeps the dominators of its target.
LEMMA UpdateKeeps ==
  ASSUME input \in Inputs, NEW f, NEW e \in IntraproceduralCfg(prog, f), NEW v,
         v \subseteq BlocksOf(prog, f), Dominating(f, e[1]) \subseteq v
  PROVE  DomUpdate(v, e) \subseteq BlocksOf(prog, f) /\ Dominating(f, e[3]) \subseteq DomUpdate(v, e)
<1>1. PICK b \in BlocksOf(prog, f) : EdgeOf(e, b, BlocksOf(prog, f))
  BY ProgramsAreNormal, CfgEdges DEF prog
<1>2. DomUpdate(v, e) \subseteq BlocksOf(prog, f)
  BY <1>1 DEF EdgeOf, DomUpdate, Start
<1>3. ASSUME NEW d \in Dominating(f, e[3]) PROVE d \in DomUpdate(v, e)
  <2>1. v \subseteq DomUpdate(v, e)
    BY DEF DomUpdate
  <2>2. CASE ~(IsBlock(e[3]) /\ e[3][2] = d)
    BY <2>1, <2>2, DominatingBack
  <2>3. CASE IsBlock(e[3]) /\ e[3][2] = d
    <3>1. CASE e[2] = "Block"
      <4>1. e[1] = Start(b) /\ e[3] = End(b)
        BY <1>1, <3>1 DEF EdgeOf
      <4>2. d = b
        BY <2>3, <4>1 DEF End
      <4>3. b \in Dominating(f, e[1])
        <5> SUFFICES ASSUME NEW q \in PathsTo(f, Start(b)) PROVE b \in BlocksOn(q)
          BY <4>1 DEF Dominating
        <5>1. Start(b) \in Range(q)
          <6>1. IsFiniteSet(IntraproceduralCfg(prog, f))
            BY ProgramsAreNormal, CfgFinite DEF prog
          <6>2. q \in PathsFrom(Start(prog.entry[f]), IntraproceduralCfg(prog, f)) /\ Last(q) = Start(b)
            BY DEF PathsTo, EntryPaths
          <6> QED BY <6>1, <6>2, PathEnds
        <5>2. IsBlock(Start(b)) /\ Start(b)[2] = b
          BY DEF IsBlock, Start
        <5> QED BY <5>1, <5>2 DEF BlocksOn
      <4> QED BY <2>1, <4>2, <4>3
    <3>2. CASE e[2] # "Block"
      <4>1. e[2] \in {"Jump", "ExternCallStub", "ReturnCombine"}
        BY <1>1, <2>3, <3>2 DEF EdgeOf, IsBlock, CallSource, CallReturn
      <4> QED BY <2>3, <4>1 DEF DomUpdate
    <3> QED BY <3>1, <3>2
  <2> QED BY <2>2, <2>3
<1> QED BY <1>2, <1>3

\* A set of blocks is not the missing value.
LEMMA SetsAreNotNone ==
  ASSUME input \in Inputs, NEW f, NEW v, v \subseteq BlocksOf(prog, f)
  PROVE  v # None
<1>1. BlocksOf(prog, f) \subseteq UNION {DOMAIN i.p.blks : i \in Inputs}
  BY DEF BlocksOf, prog
<1> QED BY <1>1, NoneIsNoDominators

\* A step of the computation shrinks values, merges along the edges of its node
\* only and puts the nodes it changed into the worklist.
LEMMA DomStepIs ==
  ASSUME input \in Inputs, NEW f, ValuesOf(f), NEW n \in worklist
  PROVE  LET new == DomStep(prog, f, values, n)
         IN  /\ DOMAIN new = CfgNodes(prog, f)
             /\ \A m \in CfgNodes(prog, f) :
                  /\ values[m] # None => new[m] # None /\ new[m] \subseteq values[m]
                  /\ new[m] # None => /\ new[m] \subseteq BlocksOf(prog, f)
                                      /\ PathsTo(f, m) # {}
                                      /\ Dominating(f, m) \subseteq new[m]
             /\ \A e \in IntraproceduralCfg(prog, f) : e[1] = n =>
                  new[e[3]] # None /\ new[e[3]] \subseteq DomUpdate(values[n], e)
<1> DEFINE E == IntraproceduralCfg(prog, f)
           B == BlocksOf(prog, f)
           new == DomStep(prog, f, values, n)
           In(m) == ({values[m]} \ {None}) \cup {DomUpdate(values[n], e) : e \in {e \in {e \in E : e[1] = n} : e[3] = m}}
<1>1. /\ DOMAIN new = CfgNodes(prog, f)
      /\ \A m \in CfgNodes(prog, f) : new[m] = IF In(m) = {} THEN None ELSE DomMerge(In(m))
  BY DEF DomStep, ValuesOf
<1>2. n \in CfgNodes(prog, f) /\ values[n] # None
  BY DEF ValuesOf
<1>3. \A e \in E : e[3] \in CfgNodes(prog, f)
  BY DEF CfgNodes
<1>4. \A m \in CfgNodes(prog, f) : values[m] # None =>
        values[m] \subseteq B /\ PathsTo(f, m) # {} /\ Dominating(f, m) \subseteq values[m]
  BY DEF ValuesOf
<1>5. ASSUME NEW e \in E, e[1] = n
      PROVE  /\ DomUpdate(values[n], e) \subseteq B
             /\ Dominating(f, e[3]) \subseteq DomUpdate(values[n], e)
             /\ PathsTo(f, e[3]) # {}
  <2>1. values[n] \subseteq B /\ Dominating(f, e[1]) \subseteq values[n] /\ PathsTo(f, e[1]) # {}
    BY <1>2, <1>4, <1>5
  <2> QED BY <2>1, UpdateKeeps, PathsGoOn
<1>6. ASSUME NEW m \in CfgNodes(prog, f), NEW v \in In(m)
      PROVE  v \subseteq B /\ Dominating(f, m) \subseteq v /\ PathsTo(f, m) # {}
  <2>1. CASE v = values[m] /\ values[m] # None
    BY <1>4, <2>1
  <2>2. CASE \E e \in E : e[1] = n /\ e[3] = m /\ v = DomUpdate(values[n], e)
    BY <1>5, <2>2
  <2> QED BY <1>6, <2>1, <2>2
<1>7. ASSUME NEW m \in CfgNodes(prog, f), NEW v \in In(m)
      PROVE  /\ new[m] # None /\ new[m] \subseteq v
             /\ new[m] \subseteq B /\ PathsTo(f, m) # {} /\ Dominating(f, m) \subseteq new[m]
  <2>1. new[m] = DomMerge(In(m))
    BY <1>1, <1>7
  <2>2. \A w \in In(m) : w \subseteq B /\ Dominating(f, m) \subseteq w
    BY <1>6
  <2> HIDE DEF In
  <2>3. new[m] \subseteq v /\ Dominating(f, m) \subseteq new[m]
    BY <2>1, <2>2 DEF DomMerge
  <2>4. new[m] \subseteq B
    BY <2>2, <2>3
  <2> QED BY <1>6, <2>3, <2>4, SetsAreNotNone
<1>8. ASSUME NEW m \in CfgNodes(prog, f), new[m] # None PROVE In(m) # {}
  BY <1>1, <1>8
<1>9. ASSUME NEW m \in CfgNodes(prog, f), values[m] # None PROVE values[m] \in In(m)
  BY <1>9
<1>10. ASSUME NEW e \in E, e[1] = n PROVE DomUpdate(values[n], e) \in In(e[3])
  BY <1>10
<1> HIDE DEF In, new
<1>11. \A m \in CfgNodes(prog, f) : values[m] # None => new[m] # None /\ new[m] \subseteq values[m]
  BY <1>7, <1>9
<1>12. \A m \in CfgNodes(prog, f) : new[m] # None =>
         new[m] \subseteq B /\ PathsTo(f, m) # {} /\ Dominating(f, m) \subseteq new[m]
  BY <1>7, <1>8
<1>13. \A e \in E : e[1] = n => new[e[3]] # None /\ new[e[3]] \subseteq DomUpdate(values[n], e)
  BY <1>3, <1>7, <1>10
<1> QED BY <1>1, <1>11, <1>12, <1>13 DEF new

\* A step of the worklist keeps the invariant of the values.
LEMMA UpdateKeepsValues ==
  ASSUME input \in Inputs, NEW f \in DOMAIN prog.entry, ValuesOf(f), UNCHANGED input, NEW n \in worklist,
         values' = DomStep(prog, f, values, n),
         worklist' = (worklist \ {n}) \cup {m \in DOMAIN values : values'[m] # values[m]}
  PROVE  ValuesOf(f)'
<1> DEFINE E == IntraproceduralCfg(prog, f)
           N == CfgNodes(prog, f)
           a == Start(prog.entry[f])
<1>1. prog' = prog
  BY DEF prog
<1>2. \A m : PathsTo(f, m)' = PathsTo(f, m) /\ Dominating(f, m)' = Dominating(f, m)
  BY <1>1 DEF PathsTo, Dominating, EntryPaths
<1>3. /\ DOMAIN values' = N
      /\ \A m \in N :
           /\ values[m] # None => values'[m] # None /\ values'[m] \subseteq values[m]
           /\ values'[m] # None => /\ values'[m] \subseteq BlocksOf(prog, f)
                                   /\ PathsTo(f, m) # {}
                                   /\ Dominating(f, m) \subseteq values'[m]
      /\ \A e \in E : e[1] = n => values'[e[3]] # None /\ values'[e[3]] \subseteq DomUpdate(values[n], e)
  BY DomStepIs
<1>4. DOMAIN values = N /\ worklist \subseteq {m \in N : values[m] # None}
  BY DEF ValuesOf
<1>5. worklist' \subseteq {m \in N : values'[m] # None}
  <2> SUFFICES ASSUME NEW m \in worklist' PROVE m \in N /\ values'[m] # None
    OBVIOUS
  <2>1. m \in worklist \/ (m \in N /\ values'[m] # values[m])
    BY <1>4
  <2> QED BY <1>3, <1>4, <2>1
<1>6. a \in N
  <2>1. prog.entry[f] \in BlocksOf(prog, f)
    BY ProgramsAreNormal DEF IsNormal, prog
  <2>2. add_block(prog.entry[f]) \in E
    BY <2>1 DEF IntraproceduralCfg
  <2> QED BY <2>2 DEF CfgNodes, add_block
<1>7. values'[a] # None /\ values'[a] \subseteq {prog.entry[f]}
  BY <1>3, <1>6 DEF ValuesOf
<1>8. ASSUME NEW e \in E, values'[e[1]] # None, e[1] \notin worklist'
      PROVE  values'[e[3]] # None /\ values'[e[3]] \subseteq DomUpdate(values'[e[1]], e)
  <2>1. e[1] \in N /\ e[3] \in N
    BY DEF CfgNodes
  <2>2. values'[e[1]] = values[e[1]]
    BY <1>4, <1>8, <2>1
  <2>3. CASE e[1] = n
    BY <1>3, <2>2, <2>3
  <2>4. CASE e[1] # n
    <3>1. e[1] \notin worklist
      BY <1>8, <2>4
    <3>2. values[e[3]] # None /\ values[e[3]] \subseteq DomUpdate(values[e[1]], e)
      BY <1>8, <2>2, <3>1 DEF ValuesOf
    <3> QED BY <1>3, <2>1, <2>2, <3>2
  <2> QED BY <2>3, <2>4
<1> QED BY <1>1, <1>2, <1>3, <1>5, <1>7, <1>8 DEF ValuesOf

\* When no node is left the values are the dominators.
LEMMA ConvergedIsExact ==
  ASSUME input \in Inputs, NEW f \in DOMAIN prog.entry, ValuesOf(f), worklist = {}
  PROVE  Exact(f, compute_dominators(prog, f, values))
<1> DEFINE E == IntraproceduralCfg(prog, f)
           N == CfgNodes(prog, f)
           B == BlocksOf(prog, f)
           a == Start(prog.entry[f])
           doms == compute_dominators(prog, f, values)
           S == {q \in PathsFrom(a, E) : values[Last(q)] # None /\ values[Last(q)] \subseteq BlocksOn(q)}
<1>1. IsFiniteSet(E)
  BY ProgramsAreNormal, CfgFinite DEF prog
<1>2. <<a>> \in S
  <2>1. <<a>> \in PathsFrom(a, E) /\ Last(<<a>>) = a /\ Range(<<a>>) = {a}
    <3> HIDE DEF E, a
    <3> QED BY <1>1, PathStart
  <2>2. IsBlock(a) /\ a[2] = prog.entry[f]
    BY DEF IsBlock, Start
  <2>3. prog.entry[f] \in BlocksOn(<<a>>)
    BY <2>1, <2>2 DEF BlocksOn
  <2> QED BY <2>1, <2>3 DEF ValuesOf
<1>3. ASSUME NEW r \in PathsFrom(a, E), NEW q \in PathsFrom(a, E), NEW e \in E,
             r \in S, e[1] = Last(r), e[3] = Last(q), Range(q) = Range(r) \cup {Last(q)}
      PROVE  q \in S
  <2>1. values[e[1]] # None /\ values[e[1]] \subseteq BlocksOn(r)
    BY <1>3
  <2>2. values[e[3]] # None /\ values[e[3]] \subseteq DomUpdate(values[e[1]], e)
    BY <2>1 DEF ValuesOf
  <2>3. BlocksOn(r) \subseteq BlocksOn(q)
    BY <1>3 DEF BlocksOn
  <2>4. DomUpdate(values[e[1]], e) \subseteq BlocksOn(q)
    <3>1. CASE e[2] \in {"Jump", "ExternCallStub", "ReturnCombine"}
      <4>1. \E t : e[3] = Start(t)
        <5>1. \E b \in B : EdgeOf(e, b, B)
          BY ProgramsAreNormal, CfgEdges DEF prog
        <5> QED BY <3>1, <5>1 DEF EdgeOf
      <4>2. IsBlock(e[3]) /\ e[3] \in Range(q)
        BY <1>3, <4>1 DEF IsBlock, Start
      <4>3. e[3][2] \in BlocksOn(q)
        BY <4>2 DEF BlocksOn
      <4> QED BY <2>1, <2>3, <4>3 DEF DomUpdate
    <3>2. CASE e[2] \notin {"Jump", "ExternCallStub", "ReturnCombine"}
      BY <2>1, <2>3, <3>2 DEF DomUpdate
    <3> QED BY <3>1, <3>2
  <2> QED BY <1>3, <2>2, <2>4
<1>4. PathsFrom(a, E) \subseteq S
  <2> HIDE DEF S, E, a
  <2> QED BY <1>1, <1>2, <1>3, PathInduction
<1>5. ASSUME NEW b \in B PROVE Start(b) \in N
  <2>1. add_block(b) \in E
    BY DEF IntraproceduralCfg
  <2> QED BY <2>1 DEF CfgNodes, add_block
<1>6. \A b \in B : values[Start(b)] # None <=> PathsTo(f, Start(b)) # {}
  BY <1>4, <1>5 DEF ValuesOf, PathsTo, EntryPaths
<1>7. DOMAIN doms = {b \in B : values[Start(b)] # None} /\ \A b \in DOMAIN doms : doms[b] = values[Start(b)]
  BY DEF compute_dominators
<1>8. ASSUME NEW b \in DOMAIN doms PROVE doms[b] = Dominating(f, Start(b))
  <2>1. b \in B /\ values[Start(b)] # None /\ doms[b] = values[Start(b)]
    BY <1>7
  <2>2. Dominating(f, Start(b)) \subseteq values[Start(b)] /\ values[Start(b)] \subseteq B
    BY <1>5, <2>1 DEF ValuesOf
  <2>3. values[Start(b)] \subseteq Dominating(f, Start(b))
    BY <1>4, <2>2 DEF Dominating, PathsTo, EntryPaths
  <2> QED BY <2>1, <2>2, <2>3
<1> HIDE DEF doms
<1> QED BY <1>6, <1>7, <1>8 DEF Exact, doms

\* The computation starts below the dominators.
LEMMA StartKeepsValues ==
  ASSUME input \in Inputs, NEW f \in DOMAIN prog.entry, UNCHANGED input,
         values' = [n \in CfgNodes(prog, f) |->
                      IF n = Start(prog.entry[f]) THEN new_single(prog.entry[f]) ELSE None],
         worklist' = {Start(prog.entry[f])}
  PROVE  ValuesOf(f)'
<1> DEFINE E == IntraproceduralCfg(prog, f)
           N == CfgNodes(prog, f)
           b == prog.entry[f]
           a == Start(b)
<1>1. prog' = prog
  BY DEF prog
<1>2. \A m : PathsTo(f, m)' = PathsTo(f, m) /\ Dominating(f, m)' = Dominating(f, m)
  BY <1>1 DEF PathsTo, Dominating, EntryPaths
<1>3. b \in BlocksOf(prog, f)
  BY ProgramsAreNormal DEF IsNormal, prog
<1>4. a \in N
  <2>1. add_block(b) \in E
    BY <1>3 DEF IntraproceduralCfg
  <2> QED BY <2>1 DEF CfgNodes, add_block
<1>5. <<a>> \in PathsTo(f, a) /\ BlocksOn(<<a>>) = {b}
  <2>1. IsFiniteSet(E)
    BY ProgramsAreNormal, CfgFinite DEF prog
  <2>2. <<a>> \in PathsFrom(a, E) /\ Last(<<a>>) = a /\ Range(<<a>>) = {a}
    <3> HIDE DEF E, a
    <3> QED BY <2>1, PathStart
  <2>3. IsBlock(a) /\ a[2] = b
    BY DEF IsBlock, Start
  <2>4. BlocksOn(<<a>>) = {b}
    <3> HIDE DEF a
    <3> QED BY <2>2, <2>3 DEF BlocksOn
  <2> QED BY <2>2, <2>4 DEF PathsTo, EntryPaths
<1>6. Dominating(f, a) \subseteq {b}
  <2> HIDE DEF a
  <2> QED BY <1>5 DEF Dominating
<1>7. {b} # None
  BY <1>3, SetsAreNotNone
<1>8. values'[a] = {b} /\ DOMAIN values' = N /\ \A n \in N : n # a => values'[n] = None
  BY <1>4 DEF new_single
<1>9. \A e \in E : e[1] \in N
  BY DEF CfgNodes
<1> HIDE DEF a, b, N, E
<1>10. worklist' = {a} /\ PathsTo(f, a) # {} /\ {b} \subseteq BlocksOf(prog, f)
  BY <1>3, <1>5 DEF a, b
<1> QED BY <1>1, <1>2, <1>4, <1>6, <1>7, <1>8, <1>9, <1>10 DEF ValuesOf, N, E, a, b

\* Every step of the caller keeps StatsInv, one case per action.
LEMMA StatsInvInductive ==
  ASSUME StatsInv, [Next]_vars
  PROVE  StatsInv'
<1>1. input' = input
  BY DEF Next, vars, Disassemble, FilterModules, ReadConfig, ComputeAnalyses, RunModule, PrintResults, Exit,
         StartCwe416, UpdateNode, FinishCwe416, StartStats, StartDominators, UpdateDominators,
         FinishDominators, FinishStats, Done
<1>2. prog' = prog
  BY <1>1 DEF prog
<1>3. \A f, doms : Exact(f, doms)' = Exact(f, doms)
  BY <1>2 DEF Exact, PathsTo, Dominating, EntryPaths
<1>4. ASSUME UNCHANGED <<values, worklist, functions, dominators, stage>> PROVE StatsInv'
  <2>1. ValuesOf(Current)' = ValuesOf(Current)
    BY <1>2, <1>4 DEF ValuesOf, Current, PathsTo, Dominating, EntryPaths
  <2>2. \A f \in DOMAIN dominators : Exact(f, dominators[f])'
    BY <1>3, <1>4 DEF StatsInv
  <2> QED BY <1>1, <1>2, <1>3, <1>4, <2>1, <2>2 DEF StatsInv
<1>5. ASSUME stage # "dominators", stage' \notin {"start", "dominators"},
             dominators' = dominators,
             stage' = "exited" => dominators = Nothing \/ stage = "exited",
             stage' = "stats" => stage = "start" /\ UNCHANGED <<values, worklist>>,
             stage = "exited" => stage' = "exited"
      PROVE  StatsInv'
  <2>1. \A f \in DOMAIN dominators : Exact(f, dominators[f])'
    BY <1>3, <1>5 DEF StatsInv
  <2> QED BY <1>1, <1>2, <1>3, <1>5, <2>1 DEF StatsInv
<1>6. CASE UNCHANGED vars
  BY <1>4, <1>6 DEF vars
<1>7. CASE Disassemble
  <2>1. stage = "start" /\ UNCHANGED <<values, worklist, dominators>>
        /\ stage' \in {"exited", "failed", "stats", "disassembled"}
    BY <1>7 DEF Disassemble, Exit, computation
  <2>2. dominators = Nothing
    BY <2>1 DEF StatsInv
  <2> QED BY <1>5, <2>1, <2>2
<1>8. CASE FilterModules \/ ReadConfig \/ ComputeAnalyses \/ RunModule \/ PrintResults \/ StartCwe416 \/ FinishCwe416
  <2>1. /\ stage \in {"disassembled", "filtered", "configured", "run", "cwe416"}
        /\ stage' \in {"filtered", "panicked", "failed", "exited", "configured", "run", "printed", "cwe416"}
        /\ dominators' = dominators
    BY <1>8 DEF FilterModules, ReadConfig, ComputeAnalyses, RunModule, PrintResults, StartCwe416, FinishCwe416,
                Exit, computation
  <2>2. dominators = Nothing
    BY <2>1 DEF StatsInv
  <2> QED BY <1>5, <2>1, <2>2
<1>9. CASE UpdateNode
  BY <1>5, <1>9 DEF UpdateNode
<1>10. CASE StartStats
  <2>1. /\ stage = "stats" /\ stage' = "dominators" /\ functions' = DOMAIN prog.entry
        /\ values' = Nothing /\ worklist' = {} /\ dominators' = Nothing
    BY <1>10 DEF StartStats, StatsInv
  <2>2. DOMAIN Nothing = {}
    BY DEF Nothing
  <2> QED BY <1>1, <1>2, <2>1, <2>2 DEF StatsInv
<1>11. CASE StartDominators
  <2>1. /\ stage = "dominators" /\ stage' = "dominators" /\ functions # {}
        /\ UNCHANGED <<functions, dominators>>
    BY <1>11 DEF StartDominators
  <2>2. Current \in DOMAIN prog.entry
    BY <2>1, CurrentIs DEF StatsInv
  <2> DEFINE f == Current
  <2>3. /\ values' = [n \in CfgNodes(prog, f) |->
                       IF n = Start(prog.entry[f]) THEN new_single(prog.entry[f]) ELSE None]
        /\ worklist' = {Start(prog.entry[f])}
    BY <1>11 DEF StartDominators
  <2>4. f' = f
    BY <1>2, <2>1 DEF Current
  <2>5. PICK g : g = f
    OBVIOUS
  <2> HIDE DEF f
  <2>6. ValuesOf(g)'
    BY <1>1, <2>2, <2>3, <2>5, StartKeepsValues DEF StatsInv, f
  <2>7. ValuesOf(Current)'
    BY <2>4, <2>5, <2>6 DEF f
  <2>8. \A h \in DOMAIN dominators : Exact(h, dominators[h])'
    BY <1>3, <2>1 DEF StatsInv
  <2> QED BY <1>1, <1>2, <1>3, <2>1, <2>7, <2>8 DEF StatsInv
<1>12. CASE UpdateDominators
  <2>1. /\ stage = "dominators" /\ stage' = "dominators" /\ worklist # {}
        /\ UNCHANGED <<functions, dominators>>
    BY <1>12 DEF UpdateDominators
  <2>2. functions # {} /\ ValuesOf(Current) /\ functions \subseteq DOMAIN prog.entry
    BY <2>1 DEF StatsInv
  <2>3. Current \in DOMAIN prog.entry
    BY <2>2, CurrentIs DEF StatsInv
  <2>4. Current' = Current
    BY <1>2, <2>1 DEF Current
  <2>5. PICK f : f = Current
    OBVIOUS
  <2>6. PICK n \in worklist :
          /\ values' = DomStep(prog, f, values, n)
          /\ worklist' = (worklist \ {n}) \cup {m \in DOMAIN values : values'[m] # values[m]}
    BY <1>12, <2>5 DEF UpdateDominators
  <2>7. ValuesOf(f)'
    BY <1>1, <2>2, <2>3, <2>5, <2>6, UpdateKeepsValues DEF StatsInv
  <2>8. ValuesOf(Current)'
    BY <2>4, <2>5, <2>7
  <2>9. \A h \in DOMAIN dominators : Exact(h, dominators[h])'
    BY <1>3, <2>1 DEF StatsInv
  <2> QED BY <1>1, <1>2, <1>3, <2>1, <2>2, <2>8, <2>9 DEF StatsInv
<1>13. CASE FinishDominators
  <2>1. /\ stage = "dominators" /\ stage' = "dominators" /\ values # Nothing /\ worklist = {}
        /\ values' = Nothing /\ worklist' = {} /\ functions' = functions \ {Current}
        /\ dominators' = [f \in DOMAIN dominators \cup {Current} |->
                            IF f = Current THEN compute_dominators(prog, Current, values) ELSE dominators[f]]
    BY <1>13 DEF FinishDominators
  <2>2. functions # {} /\ ValuesOf(Current) /\ functions \subseteq DOMAIN prog.entry
        /\ DOMAIN dominators = DOMAIN prog.entry \ functions
    BY <2>1 DEF StatsInv
  <2>3. PICK f : f = Current
    OBVIOUS
  <2>4. f \in functions
    BY <2>2, <2>3, CurrentIs DEF StatsInv
  <2>5. PICK doms : doms = compute_dominators(prog, f, values)
    OBVIOUS
  <2>6. Exact(f, doms)
    BY <2>1, <2>2, <2>3, <2>4, <2>5, ConvergedIsExact DEF StatsInv
  <2>7. /\ DOMAIN dominators' = DOMAIN dominators \cup {f}
        /\ dominators'[f] = doms
        /\ \A g \in DOMAIN dominators : g # f => dominators'[g] = dominators[g]
    BY <2>1, <2>3, <2>5
  <2>8. DOMAIN dominators' = DOMAIN prog.entry \ functions'
    BY <2>1, <2>2, <2>3, <2>4, <2>7
  <2>9. \A g \in DOMAIN dominators' : g \in DOMAIN prog.entry /\ Exact(g, dominators'[g])
    BY <2>2, <2>4, <2>6, <2>7 DEF StatsInv
  <2>10. \A g \in DOMAIN dominators' : g \in (DOMAIN prog.entry)' /\ Exact(g, dominators[g])'
    <3> SUFFICES ASSUME NEW g \in DOMAIN dominators' PROVE g \in (DOMAIN prog.entry)' /\ Exact(g, dominators[g])'
      OBVIOUS
    <3>1. g \in DOMAIN prog.entry /\ Exact(g, dominators'[g])
      BY <2>9
    <3> QED BY <1>2, <3>1 DEF Exact, PathsTo, Dominating, EntryPaths
  <2> QED BY <1>1, <1>2, <2>1, <2>2, <2>8, <2>10 DEF StatsInv
<1>14. CASE FinishStats
  <2>1. /\ stage = "dominators" /\ stage' = "exited" /\ functions = {}
        /\ UNCHANGED <<values, worklist, functions, dominators>>
    BY <1>14 DEF FinishStats, Exit, computation
  <2>2. DOMAIN dominators = DOMAIN prog.entry
    BY <2>1 DEF StatsInv
  <2>3. \A h \in DOMAIN dominators : Exact(h, dominators[h])'
    BY <1>3, <2>1 DEF StatsInv
  <2> QED BY <1>1, <1>2, <2>1, <2>2, <2>3 DEF StatsInv
<1>15. CASE Done
  BY <1>4, <1>15 DEF Done, vars
<1> QED
  BY <1>6, <1>7, <1>8, <1>9, <1>10, <1>11, <1>12, <1>13, <1>14, <1>15 DEF Next

\* The dominators of --cfg-stats are the blocks on all paths from the entry, for
\* every function and whatever order the worklist had.
THEOREM DominatorsAreExact == Spec => []DominatorsOnAllPaths
<1>1. Init => StatsInv
  BY DEF Init, StatsInv, Nothing
<1>2. StatsInv /\ [Next]_vars => StatsInv'
  BY StatsInvInductive
<1>3. StatsInv => DominatorsOnAllPaths
  <2> SUFFICES ASSUME StatsInv, Finished PROVE DominatorsOnAllPaths
    BY DEF DominatorsOnAllPaths
  <2>1. DOMAIN dominators = DOMAIN prog.entry /\ \A f \in DOMAIN dominators : Exact(f, dominators[f])
    BY DEF StatsInv, Finished
  <2>2. ASSUME NEW f \in DOMAIN prog.entry
        PROVE  LET paths == EntryPaths(f)
                   To(b) == {q \in paths : Last(q) = Start(b)}
               IN  /\ DOMAIN dominators[f] = {b \in BlocksOf(prog, f) : To(b) # {}}
                   /\ \A b \in DOMAIN dominators[f] :
                        dominators[f][b] = {d \in BlocksOf(prog, f) : \A q \in To(b) : d \in BlocksOn(q)}
    BY <2>1 DEF Exact, PathsTo, Dominating
  <2> QED BY <2>2 DEF DominatorsOnAllPaths
<1> QED BY <1>1, <1>2, <1>3, PTL DEF Spec

-----------------------------------------------------------------------------
(* Natural loops *)

\* Where the edges of blocks lead to and come from.
LEMMA BlockEdges ==
  ASSUME input \in Inputs, NEW f, NEW e \in IntraproceduralCfg(prog, f)
  PROVE  /\ \A b : e[1] = Start(b) => e[3] = End(b)
         /\ \A b : e[3] = End(b) => e[1] = Start(b) /\ e[2] = "Block"
         /\ e[2] # "Block" /\ IsBlock(e[1]) /\ IsBlock(e[3]) => e[1] = End(e[1][2]) /\ e[3] = Start(e[3][2])
         /\ IsBlock(e[1]) => e[1][2] \in BlocksOf(prog, f)
         /\ IsBlock(e[3]) => e[3][2] \in BlocksOf(prog, f)
<1>1. PICK c \in BlocksOf(prog, f) : EdgeOf(e, c, BlocksOf(prog, f))
  BY ProgramsAreNormal, CfgEdges DEF prog
<1>2. CASE e[1] = Start(c) /\ e[2] = "Block" /\ e[3] = End(c)
  BY <1>2 DEF Start, End, IsBlock
<1>3. CASE e[1] = End(c) /\ e[2] \in {"Jump", "ExternCallStub"} /\ \E t \in BlocksOf(prog, f) : e[3] = Start(t)
  BY <1>3 DEF Start, End, IsBlock
<1>4. CASE e[1] = End(c) /\ e[2] = "CallCombine" /\ e[3] = CallSource(c)
  BY <1>4 DEF Start, End, IsBlock, CallSource
<1>5. CASE e[1] = CallSource(c) /\ e[2] = "CrCallStub" /\ \E r : e[3] = CallReturn(c, r)
  BY <1>5 DEF Start, End, IsBlock, CallSource, CallReturn
<1>6. CASE e[2] = "ReturnCombine" /\ (\E r : e[1] = CallReturn(c, r)) /\ \E t \in BlocksOf(prog, f) : e[3] = Start(t)
  BY <1>6 DEF Start, End, IsBlock, CallReturn
<1> QED BY <1>1, <1>2, <1>3, <1>4, <1>5, <1>6 DEF EdgeOf

\* A finite graph is finite with its edges reversed.
LEMMA ReversedFinite ==
  ASSUME NEW edges, IsFiniteSet(edges)
  PROVE  IsFiniteSet(Reversed(edges))
<1> DEFINE R == Reversed(edges)
           g == [e \in edges |-> <<e[3], e[2], e[1]>>]
<1>1. g \in [edges -> R] /\ R = {g[e] : e \in edges}
  BY DEF Reversed
<1> HIDE DEF R, g
<1>2. IsFiniteSet(R)
  BY <1>1, ImageFinite
<1> QED BY <1>2 DEF R

\* The dominators of a block include itself.
LEMMA DominatesItself ==
  ASSUME input \in Inputs, NEW f, NEW b \in BlocksOf(prog, f), NEW n, IsBlock(n), n[2] = b
  PROVE  b \in Dominating(f, n)
<1> SUFFICES ASSUME NEW q \in PathsTo(f, n) PROVE b \in BlocksOn(q)
  BY DEF Dominating
<1>1. IsFiniteSet(IntraproceduralCfg(prog, f))
  BY ProgramsAreNormal, CfgFinite DEF prog
<1>2. q \in PathsFrom(Start(prog.entry[f]), IntraproceduralCfg(prog, f)) /\ Last(q) = n
  BY DEF PathsTo, EntryPaths
<1>3. n \in Range(q)
  BY <1>1, <1>2, PathEnds
<1> QED BY <1>3 DEF BlocksOn

\* With exact dominators, the head of a loop dominates its blocks, and each of
\* them leads back to the head inside the loop.
LEMMA LoopIsEnteredAtHead ==
  ASSUME input \in Inputs, NEW f, f \in DOMAIN prog.entry, NEW doms, Exact(f, doms),
         NEW l \in compute_natural_loops(prog, f, doms)
  PROVE  LET inside == {e \in IntraproceduralCfg(prog, f) : IsBlock(e[1]) => e[1][2] \in l.blocks}
         IN  /\ \A b \in l.blocks \cap DOMAIN doms : l.head \in doms[b]
             /\ \A b \in l.blocks : Start(l.head) \in Reach({End(b)}, inside)
<1> DEFINE E == IntraproceduralCfg(prog, f)
           B == BlocksOf(prog, f)
           a == Start(prog.entry[f])
           inside == {e \in E : IsBlock(e[1]) => e[1][2] \in l.blocks}
<1>1. IsFiniteSet(E)
  BY ProgramsAreNormal, CfgFinite DEF prog
<1>2. PICK e0 \in E :
        /\ e0[2] # "Block" /\ IsBlock(e0[1]) /\ IsBlock(e0[3])
        /\ e0[1][2] \in DOMAIN doms /\ e0[3][2] \in doms[e0[1][2]]
        /\ l = natural_loop(prog, f, e0[1][2], e0[3][2])
  BY DEF compute_natural_loops, BackEdges
<1> DEFINE tail == e0[1][2]
           head == e0[3][2]
           back == {e \in Reversed(E) : e[1] # Start(head)}
           V == Reach({End(tail)}, back)
<1>3. e0[1] = End(tail) /\ e0[3] = Start(head) /\ tail \in B /\ head \in B
  BY <1>2, BlockEdges
<1>4. l.head = head /\ l.blocks = {n[2] : n \in {n \in V \cup {Start(head)} : IsBlock(n)}}
  BY <1>2 DEF natural_loop
<1>5. tail \in DOMAIN doms /\ head \in Dominating(f, Start(tail)) /\ PathsTo(f, Start(tail)) # {}
  BY <1>2 DEF Exact
<1>6. IsFiniteSet(back) /\ IsFiniteSet(inside)
  <2>1. back \in SUBSET Reversed(E) /\ inside \in SUBSET E
    OBVIOUS
  <2>2. IsFiniteSet(Reversed(E))
    BY <1>1, ReversedFinite
  <2> HIDE DEF back, inside
  <2> QED BY <1>1, <2>1, <2>2, FS_Subset
<1>7. \A e \in E : e[3] # Start(head) => <<e[3], e[2], e[1]>> \in back
  BY DEF Reversed
<1>8. \A r \in back : \E e \in E : r = <<e[3], e[2], e[1]>> /\ e[3] # Start(head)
  BY DEF Reversed
<1>9. End(tail) \in V /\ Closed(V, back)
  <2> HIDE DEF back
  <2> QED BY <1>6, ReachClosed
<1>10. \A e \in E : e[3] \in V /\ e[3] # Start(head) => e[1] \in V
  <2> SUFFICES ASSUME NEW e \in E, e[3] \in V, e[3] # Start(head) PROVE e[1] \in V
    OBVIOUS
  <2>1. <<e[3], e[2], e[1]>> \in back
    BY <1>7
  <2> HIDE DEF back, V
  <2>2. <<e[3], e[2], e[1]>>[3] \in V
    BY <1>9, <2>1 DEF Closed
  <2> QED BY <2>2
<1>11. ASSUME NEW S, S \subseteq V, End(tail) \in S,
              \A e \in E : e[3] \in S /\ e[3] # Start(head) /\ e[1] \in V => e[1] \in S
       PROVE  V \subseteq S
  <2>1. Closed(S, back)
    <3> SUFFICES ASSUME NEW r \in back, r[1] \in S PROVE r[3] \in S
      BY DEF Closed
    <3>1. PICK e \in E : r = <<e[3], e[2], e[1]>> /\ e[3] # Start(head)
      BY <1>8
    <3>2. r[1] = e[3] /\ r[3] = e[1]
      BY <3>1
    <3> HIDE DEF back, V
    <3> QED BY <1>10, <1>11, <3>1, <3>2
  <2> HIDE DEF back
  <2> QED BY <1>6, <1>11, <2>1, ReachLeast
<1> HIDE DEF V, back, tail, head, inside
<1>12. \A b \in B : add_block(b) \in E /\ add_block(b)[1] = Start(b) /\ add_block(b)[3] = End(b)
  BY DEF IntraproceduralCfg, add_block
<1>13. \A b, c : Start(b) # End(c)
  BY DEF Start, End
<1>14. \A n : IsBlock(n) /\ n \in V => n \in {Start(n[2]), End(n[2])} /\ n[2] \in B
  <2> DEFINE S == {n \in V : IsBlock(n) => n \in {Start(n[2]), End(n[2])} /\ n[2] \in B}
  <2>1. End(tail) \in S
    BY <1>3, <1>9 DEF End
  <2>2. ASSUME NEW e \in E, e[1] \in V, IsBlock(e[1]) PROVE e[1] \in {Start(e[1][2]), End(e[1][2])} /\ e[1][2] \in B
    <3>1. PICK c \in B : EdgeOf(e, c, B)
      BY ProgramsAreNormal, CfgEdges DEF prog
    <3>2. e[1] = Start(c) \/ e[1] = End(c)
      BY <2>2, <3>1 DEF EdgeOf, IsBlock, CallSource, CallReturn
    <3> QED BY <3>2 DEF Start, End
  <2>3. \A e \in E : e[3] \in S /\ e[3] # Start(head) /\ e[1] \in V => e[1] \in S
    BY <2>2
  <2>4. S \subseteq V
    OBVIOUS
  <2>5. V \subseteq S
    <3> HIDE DEF S
    <3> QED BY <1>11, <2>1, <2>3, <2>4
  <2> QED BY <2>5
\* The head dominates all nodes of the loop.
<1>15. \A n \in V : head \in Dominating(f, n)
  <2> DEFINE S == {n \in V : head \in Dominating(f, n)}
  <2>1. End(tail) \in S
    <3> SUFFICES ASSUME NEW q \in PathsTo(f, End(tail)) PROVE head \in BlocksOn(q)
      BY <1>3, <1>9 DEF Dominating
    <3>1. q \in PathsFrom(a, E) /\ Last(q) = End(tail)
      BY DEF PathsTo, EntryPaths
    <3>2. Last(q) # a
      BY <1>13, <3>1
    <3>3. PICK r \in PathsFrom(a, E), e \in E :
            /\ e[1] = Last(r) /\ e[3] = Last(q)
            /\ Range(q) = Range(r) \cup {Last(q)} /\ Last(q) \notin Range(r)
            /\ Len(q) \in Nat /\ Len(r) \in Nat /\ Len(r) < Len(q)
      <4> HIDE DEF E, a
      <4> QED BY <1>1, <3>1, <3>2, PathBefore
    <3>4. Last(r) = Start(tail)
      BY <3>1, <3>3, BlockEdges
    <3>5. head \in BlocksOn(r)
      BY <1>5, <3>4 DEF Dominating, PathsTo, EntryPaths
    <3> QED BY <3>3, <3>5 DEF BlocksOn
  <2>2. ASSUME NEW e \in E, e[3] \in S, e[3] # Start(head), e[1] \in V PROVE e[1] \in S
    <3>1. head \in Dominating(f, e[3])
      BY <2>2
    <3>2. CASE ~(IsBlock(e[3]) /\ e[3][2] = head)
      BY <2>2, <3>1, <3>2, DominatingBack
    <3>3. CASE IsBlock(e[3]) /\ e[3][2] = head
      <4>1. e[3] = End(head)
        BY <1>14, <2>2, <3>3
      <4>2. e[1] = Start(head)
        BY <4>1, BlockEdges
      <4>3. IsBlock(e[1]) /\ e[1][2] = head
        BY <4>2 DEF IsBlock, Start
      <4> QED BY <1>3, <2>2, <4>3, DominatesItself
    <3> QED BY <3>2, <3>3
  <2>3. S \subseteq V
    OBVIOUS
  <2>4. V \subseteq S
    <3> HIDE DEF S
    <3> QED BY <1>11, <2>1, <2>2, <2>3
  <2> QED BY <2>4
<1>16. ASSUME NEW b \in l.blocks \cap DOMAIN doms PROVE l.head \in doms[b]
  <2>1. b \in B /\ doms[b] = Dominating(f, Start(b))
    BY DEF Exact
  <2>2. CASE b = head
    <3>1. IsBlock(Start(b)) /\ Start(b)[2] = b
      BY DEF IsBlock, Start
    <3> QED BY <1>4, <2>1, <2>2, <3>1, DominatesItself
  <2>3. CASE b # head
    <3>1. PICK n \in V : IsBlock(n) /\ n[2] = b
      <4>1. Start(head)[2] = head
        BY DEF Start
      <4> QED BY <1>4, <1>16, <2>3, <4>1
    <3>2. head \in Dominating(f, n) /\ n \in {Start(b), End(b)}
      BY <1>14, <1>15, <3>1
    <3>3. CASE n = End(b)
      <4>1. ~(IsBlock(add_block(b)[3]) /\ add_block(b)[3][2] = head)
        BY <1>12, <2>1, <2>3 DEF End
      <4>2. head \in Dominating(f, add_block(b)[3]) /\ add_block(b) \in E /\ add_block(b)[1] = Start(b)
        BY <1>12, <2>1, <3>2, <3>3
      <4>3. head \in Dominating(f, add_block(b)[1])
        BY <4>1, <4>2, DominatingBack
      <4> QED BY <1>4, <2>1, <4>2, <4>3
    <3> QED BY <1>4, <2>1, <3>2, <3>3
  <2> QED BY <2>2, <2>3
\* Every node of the loop but the tail has a successor there.
<1>17. \A b : Start(b) \in V => End(b) \in V
  <2> DEFINE S == {n \in V : n = End(tail) \/ \E e \in E : e[1] = n /\ e[3] \in V}
  <2>1. End(tail) \in S
    BY <1>9
  <2>2. \A e \in E : e[3] \in S /\ e[3] # Start(head) /\ e[1] \in V => e[1] \in S
    OBVIOUS
  <2>3. S \subseteq V
    OBVIOUS
  <2>4. V \subseteq S
    <3> HIDE DEF S
    <3> QED BY <1>11, <2>1, <2>2, <2>3
  <2> SUFFICES ASSUME NEW b, Start(b) \in V PROVE End(b) \in V
    OBVIOUS
  <2>5. PICK e \in E : e[1] = Start(b) /\ e[3] \in V
    BY <1>13, <2>4
  <2> QED BY <2>5, BlockEdges
\* So the head is in the loop with its end.
<1>18. End(head) \in V
  <2> DEFINE S == {q \in PathsFrom(a, E) : Last(q) \in V /\ head \in BlocksOn(q) => End(head) \in V}
  <2>1. <<a>> \in S
    <3>1. <<a>> \in PathsFrom(a, E) /\ Last(<<a>>) = a /\ Range(<<a>>) = {a}
      <4> HIDE DEF E, a
      <4> QED BY <1>1, PathStart
    <3>2. head \in BlocksOn(<<a>>) => a = Start(head)
      <4>1. a[2] = prog.entry[f]
        BY DEF Start
      <4> QED BY <3>1, <4>1 DEF BlocksOn
    <3> QED BY <1>17, <3>1, <3>2
  <2>2. ASSUME NEW r \in PathsFrom(a, E), NEW q \in PathsFrom(a, E), NEW e \in E,
               r \in S, e[1] = Last(r), e[3] = Last(q), Range(q) = Range(r) \cup {Last(q)}
        PROVE  q \in S
    <3> SUFFICES ASSUME Last(q) \in V, head \in BlocksOn(q) PROVE End(head) \in V
      OBVIOUS
    <3>1. CASE IsBlock(Last(q)) /\ Last(q)[2] = head
      BY <1>14, <1>17, <3>1
    <3>2. CASE ~(IsBlock(Last(q)) /\ Last(q)[2] = head)
      <4>1. head \in BlocksOn(r)
        BY <2>2, <3>2 DEF BlocksOn
      <4>2. e[3] # Start(head)
        BY <2>2, <3>2 DEF Start, IsBlock
      <4>3. Last(r) \in V
        BY <1>10, <2>2, <4>2
      <4> QED BY <2>2, <4>1, <4>3
    <3> QED BY <3>1, <3>2
  <2>3. PathsFrom(a, E) \subseteq S
    <3> HIDE DEF S, E, a
    <3> QED BY <1>1, <2>1, <2>2, PathInduction
  <2>4. PICK q \in PathsFrom(a, E) : Last(q) = Start(tail) /\ head \in BlocksOn(q)
    BY <1>5 DEF Dominating, PathsTo, EntryPaths
  <2>5. Start(tail) \in V
    <3>1. add_block(tail) \in E /\ add_block(tail)[1] = Start(tail) /\ add_block(tail)[3] = End(tail)
      BY <1>3, <1>12
    <3> QED BY <1>9, <1>10, <1>13, <3>1
  <2> QED BY <2>3, <2>4, <2>5
<1>19. \A n \in V : Start(head) \in Reach({n}, inside)
  <2> DEFINE S == {n \in V : Start(head) \in Reach({n}, inside)}
  <2>1. ASSUME NEW e \in E, e[1] \in V PROVE e \in inside
    BY <1>4, <2>1 DEF inside
  <2>2. ASSUME NEW n PROVE n \in Reach({n}, inside) /\ Closed(Reach({n}, inside), inside)
    BY <1>6, ReachClosed
  <2>3. End(tail) \in S
    <3>1. e0 \in inside
      BY <1>3, <1>9, <2>1
    <3>2. End(tail) \in Reach({End(tail)}, inside) /\ Closed(Reach({End(tail)}, inside), inside)
      BY <2>2
    <3> QED BY <1>3, <1>9, <3>1, <3>2 DEF Closed
  <2>4. ASSUME NEW e \in E, e[3] \in S, e[3] # Start(head), e[1] \in V PROVE e[1] \in S
    <3>1. e \in inside
      BY <2>1, <2>4
    <3>2. e[1] \in Reach({e[1]}, inside) /\ Closed(Reach({e[1]}, inside), inside)
      BY <2>2
    <3>3. {e[3]} \subseteq Reach({e[1]}, inside)
      BY <3>1, <3>2 DEF Closed
    <3>4. Reach({e[3]}, inside) \subseteq Reach({e[1]}, inside)
      BY <1>6, <3>2, <3>3, ReachLeast
    <3> QED BY <2>4, <3>4
  <2>5. S \subseteq V
    OBVIOUS
  <2>6. V \subseteq S
    <3> HIDE DEF S
    <3> QED BY <1>11, <2>3, <2>4, <2>5
  <2> QED BY <2>6
<1>20. ASSUME NEW b \in l.blocks PROVE Start(l.head) \in Reach({End(b)}, inside)
  <2>1. PICK n \in V \cup {Start(head)} : IsBlock(n) /\ n[2] = b
    BY <1>4
  <2>2. CASE n = Start(head)
    <3>1. b = head
      BY <2>1, <2>2 DEF Start
    <3> QED BY <1>4, <1>18, <1>19, <3>1
  <2>3. CASE n # Start(head)
    <3>1. n \in {Start(b), End(b)} /\ n \in V
      BY <1>14, <2>1, <2>3
    <3>2. End(b) \in V
      BY <1>17, <3>1
    <3> QED BY <1>4, <1>19, <3>2
  <2> QED BY <2>2, <2>3
<1> QED BY <1>16, <1>20 DEF inside

\* The natural loops of --cfg-stats have their head as only entrance and lead
\* back to it, whatever the control flow of the function.
THEOREM LoopsAreEnteredAtHead == Spec => []LoopsEnteredAtHead
<1>1. Init => StatsInv
  BY DEF Init, StatsInv, Nothing
<1>2. StatsInv /\ [Next]_vars => StatsInv'
  BY StatsInvInductive
<1>3. StatsInv => LoopsEnteredAtHead
  <2> SUFFICES ASSUME StatsInv, Finished, NEW f \in DOMAIN prog.entry,
                      NEW l \in compute_natural_loops(prog, f, dominators[f])
               PROVE  LET inside == {e \in IntraproceduralCfg(prog, f) : IsBlock(e[1]) => e[1][2] \in l.blocks}
                      IN  /\ \A b \in l.blocks \cap DOMAIN dominators[f] : l.head \in dominators[f][b]
                          /\ \A b \in l.blocks : Start(l.head) \in Reach({End(b)}, inside)
    BY DEF LoopsEnteredAtHead
  <2>1. Exact(f, dominators[f]) /\ input \in Inputs
    BY DEF StatsInv, Finished
  <2> QED BY <2>1, LoopIsEnteredAtHead
<1> QED BY <1>1, <1>2, <1>3, PTL DEF Spec

-----------------------------------------------------------------------------
(* The searches from one call to another *)

\* The graph over all functions is finite.
LEMMA CallGraphFinite ==
  ASSUME NEW p, IsNormal(p)
  PROVE  IsFiniteSet(GraphWithoutCalls(p))
<1> DEFINE B == DOMAIN p.blks
           rs(b) == IF FirstJmp(p, b).kind = "Call" THEN ReturnBlocks(p, FirstJmp(p, b).target) ELSE {}
           J == [b \in B |-> add_jump_edge(p, b) \cup CallEdges(p, b, rs(b))]
<1>1. IsFiniteSet(B)
  BY DEF IsNormal
<1>2. \A b \in B : IsFiniteSet(J[b])
  <2> SUFFICES ASSUME NEW b \in B PROVE IsFiniteSet(add_jump_edge(p, b) \cup CallEdges(p, b, rs(b)))
    OBVIOUS
  <2>1. rs(b) \in SUBSET B
    BY DEF ReturnBlocks, BlocksOf
  <2>2. IsFiniteSet(rs(b))
    BY <1>1, <2>1, FS_Subset
  <2>3. BlockIsNormal(p, b)
    BY DEF IsNormal
  <2> HIDE DEF rs
  <2> QED BY <2>2, <2>3, InterJumps, CallEdgesFinite, FS_Union
<1>3. GraphWithoutCalls(p) = {add_block(b) : b \in B} \cup UNION {J[b] : b \in B}
  BY DEF GraphWithoutCalls
<1> HIDE DEF B, J
<1> QED BY <1>1, <1>2, <1>3, GraphFinite

\* The search sees a call at an edge, the property at the end of a block.
IsExternEdge(p, e, s) ==
  e[2] = "ExternCallStub" /\ FirstJmp(p, e[1][2]).kind = "ExternCall" /\ FirstJmp(p, e[1][2]).target = s
CallsAt(p, n, s) == n[1] = "BlkEnd" /\ s \in p.symbols \cap get_call_targets(p, n[2])

\* A block that calls an imported function has only the edge of the call.
LEMMA ExternCallEdge ==
  ASSUME NEW p, IsNormal(p), NEW b \in DOMAIN p.blks, NEW s, s \in p.symbols \cap get_call_targets(p, b)
  PROVE  /\ FirstJmp(p, b).kind = "ExternCall" /\ FirstJmp(p, b).target = s
         /\ PlainJumps(p, b) = {<<End(b), "ExternCallStub", Start(FirstJmp(p, b).return)>>}
<1>1. BlockIsNormal(p, b) /\ DOMAIN p.entry \cap p.symbols = {}
  BY DEF IsNormal
<1>2. Len(p.blks[b].jmps) = 1 /\ IsCall(FirstJmp(p, b)) /\ FirstJmp(p, b).target = s
  BY DEF get_call_targets
<1>3. FirstJmp(p, b).kind # "Call"
  <2> SUFFICES ASSUME FirstJmp(p, b).kind = "Call" PROVE FALSE
    OBVIOUS
  <2>1. 1 \in DOMAIN p.blks[b].jmps
    BY <1>1 DEF BlockIsNormal
  <2>2. FirstJmp(p, b).target \in DOMAIN p.entry
    BY <1>1, <2>1 DEF BlockIsNormal, FirstJmp
  <2> QED BY <1>1, <1>2, <2>2
<1>4. FirstJmp(p, b).kind = "ExternCall"
  BY <1>2, <1>3 DEF IsCall
<1> QED BY <1>2, <1>4 DEF PlainJumps, FirstJmp

\* Where the edges of the graph over all functions start.
LEMMA GraphEdges ==
  ASSUME NEW p, IsNormal(p), NEW e \in GraphWithoutCalls(p)
  PROVE  \E b \in DOMAIN p.blks :
           \/ e[1] = Start(b) /\ e[2] = "Block" /\ e[3] = End(b)
           \/ e[1] = End(b) /\ e \in PlainJumps(p, b) /\ \E t : e[3] = Start(t)
           \/ /\ FirstJmp(p, b).kind = "Call"
              /\ \/ e[1] = End(b) /\ e[2] = "CallCombine" /\ e[3] = CallSource(b)
                 \/ e[1] = CallSource(b) /\ \E r : e[3] = CallReturn(b, r)
                 \/ (\E r : e[1] = CallReturn(b, r)) /\ \E t : e[3] = Start(t)
<1>1. \A b \in DOMAIN p.blks : BlockIsNormal(p, b)
  BY DEF IsNormal
<1>2. CASE \E b \in DOMAIN p.blks : e = add_block(b)
  BY <1>2 DEF add_block
<1>3. CASE \E b \in DOMAIN p.blks : e \in add_jump_edge(p, b)
  <2>1. PICK b \in DOMAIN p.blks : e \in add_jump_edge(p, b)
    BY <1>3
  <2>2. e \in PlainJumps(p, b)
    BY <1>1, <2>1, InterJumps
  <2> QED BY <1>1, <2>2, JumpEdges
<1>4. CASE \E b \in DOMAIN p.blks : \E rs : e \in CallEdges(p, b, rs)
  BY <1>4 DEF CallEdges
<1> QED BY <1>2, <1>3, <1>4 DEF GraphWithoutCalls

\* At the edges the two notions of a call agree.
LEMMA ExternEdgesAreCalls ==
  ASSUME NEW p, IsNormal(p), NEW e \in GraphWithoutCalls(p), NEW s
  PROVE  IsExternEdge(p, e, s) <=> CallsAt(p, e[1], s)
<1>1. PICK b \in DOMAIN p.blks :
           \/ e[1] = Start(b) /\ e[2] = "Block" /\ e[3] = End(b)
           \/ e[1] = End(b) /\ e \in PlainJumps(p, b) /\ \E t : e[3] = Start(t)
           \/ /\ FirstJmp(p, b).kind = "Call"
              /\ \/ e[1] = End(b) /\ e[2] = "CallCombine" /\ e[3] = CallSource(b)
                 \/ e[1] = CallSource(b) /\ \E r : e[3] = CallReturn(b, r)
                 \/ (\E r : e[1] = CallReturn(b, r)) /\ \E t : e[3] = Start(t)
  BY GraphEdges
<1>2. BlockIsNormal(p, b)
  BY DEF IsNormal
<1>3. ASSUME CallsAt(p, e[1], s) PROVE IsExternEdge(p, e, s)
  <2>1. e[1] = End(b) /\ e[1][2] = b /\ s \in p.symbols \cap get_call_targets(p, b)
    <3>1. e[1][1] = "BlkEnd" /\ s \in p.symbols \cap get_call_targets(p, e[1][2])
      BY <1>3 DEF CallsAt
    <3>2. e[1] = End(b)
      BY <1>1, <3>1 DEF Start, End, CallSource, CallReturn
    <3>3. e[1][2] = b
      BY <3>2 DEF End
    <3> QED BY <3>1, <3>2, <3>3
  <2>2. /\ FirstJmp(p, b).kind = "ExternCall" /\ FirstJmp(p, b).target = s
        /\ PlainJumps(p, b) = {<<End(b), "ExternCallStub", Start(FirstJmp(p, b).return)>>}
    BY <2>1, ExternCallEdge
  <2>3. e = <<End(b), "ExternCallStub", Start(FirstJmp(p, b).return)>>
    BY <1>1, <2>1, <2>2 DEF Start, End, CallSource, CallReturn
  <2> QED BY <2>1, <2>2, <2>3 DEF IsExternEdge
<1>4. ASSUME IsExternEdge(p, e, s) PROVE CallsAt(p, e[1], s)
  <2>1. e[2] = "ExternCallStub" /\ FirstJmp(p, e[1][2]).kind = "ExternCall" /\ FirstJmp(p, e[1][2]).target = s
    BY <1>4 DEF IsExternEdge
  <2>2. e[1][2] = b
    BY <1>1 DEF Start, End, CallSource, CallReturn
  <2>3. e[1] = End(b)
    BY <1>1, <2>1, <2>2
  <2>4. s \in p.symbols /\ Len(p.blks[b].jmps) = 1
    <3>1. 1 \in DOMAIN p.blks[b].jmps
      BY <1>2 DEF BlockIsNormal
    <3> QED BY <1>2, <2>1, <2>2, <3>1 DEF BlockIsNormal, FirstJmp
  <2>5. s \in get_call_targets(p, b)
    BY <2>1, <2>2, <2>4 DEF get_call_targets, IsCall
  <2> QED BY <2>2, <2>3, <2>4, <2>5 DEF CallsAt, End
<1> QED BY <1>3, <1>4

\* A node is found by the search that does not go on from the nodes in stop if
\* a path leads to it on which no earlier node is in stop.
LEMMA ReachPaths ==
  ASSUME NEW a, NEW edges, IsFiniteSet(edges), NEW stop, NEW n
  PROVE  n \in Reach({a}, {e \in edges : e[1] \notin stop}) <=>
           \E q \in PathsFrom(a, edges) : Last(q) = n /\ \A i \in 1..(Len(q) - 1) : q[i] \notin stop
<1> DEFINE E == {e \in edges : e[1] \notin stop}
           N == NodesFrom(a, E)
           M == NodesFrom(a, edges)
<1>1. IsFiniteSet(E) /\ E \subseteq edges
  BY FS_Subset
<1>2. ASSUME NEW q PROVE IsSimple(q, a, E) <=> IsSimple(q, a, edges) /\ \A i \in 1..(Len(q) - 1) : q[i] \notin stop
  <2>1. ASSUME IsSimple(q, a, E) PROVE IsSimple(q, a, edges) /\ \A i \in 1..(Len(q) - 1) : q[i] \notin stop
    <3>1. N \subseteq M
      BY DEF NodesFrom
    <3>2. q \in Seq(N)
      BY <2>1 DEF IsSimple
    <3>3. q \in Seq(M)
      <4> HIDE DEF N, M
      <4> QED BY <3>1, <3>2, SeqOfMore
    <3>4. \A i \in 1..(Len(q) - 1) : \E e \in E : e[1] = q[i] /\ e[3] = q[i + 1]
      BY <2>1 DEF IsSimple
    <3> QED BY <2>1, <3>3, <3>4 DEF IsSimple
  <2>2. ASSUME IsSimple(q, a, edges), \A i \in 1..(Len(q) - 1) : q[i] \notin stop PROVE IsSimple(q, a, E)
    <3>1. q \in Seq(M) /\ Len(q) \in Nat /\ q \in [1..Len(q) -> M] /\ Len(q) >= 1 /\ q[1] = a
      BY <2>2 DEF IsSimple
    <3>2. \A i \in 1..(Len(q) - 1) : \E e \in E : e[1] = q[i] /\ e[3] = q[i + 1]
      BY <2>2 DEF IsSimple
    <3>3. \A i \in 1..Len(q) : q[i] \in N
      <4> SUFFICES ASSUME NEW i \in 1..Len(q) PROVE q[i] \in N
        OBVIOUS
      <4>1. CASE i = 1
        BY <3>1, <4>1 DEF NodesFrom
      <4>2. CASE i # 1
        <5>1. i - 1 \in 1..(Len(q) - 1) /\ (i - 1) + 1 = i
          BY <3>1, <4>2
        <5> HIDE DEF E, M, N
        <5>2. PICK e \in E : e[1] = q[i - 1] /\ e[3] = q[(i - 1) + 1]
          BY <3>2, <5>1
        <5>3. e[3] = q[i]
          BY <5>1, <5>2
        <5> QED BY <5>3 DEF N, NodesFrom
      <4> QED BY <4>1, <4>2
    <3>4. q \in Seq(N)
      <4> HIDE DEF N, M
      <4>1. q \in [1..Len(q) -> N]
        BY <3>1, <3>3
      <4> QED BY <3>1, <4>1
    <3> QED BY <2>2, <3>2, <3>4 DEF IsSimple
  <2> QED BY <2>1, <2>2
<1>3. \A q : q \in PathsFrom(a, E) <=> q \in PathsFrom(a, edges) /\ \A i \in 1..(Len(q) - 1) : q[i] \notin stop
  <2> HIDE DEF E
  <2> QED BY <1>1, <1>2, PathsFromAre
<1> HIDE DEF E
<1>4. ASSUME n \in Reach({a}, E) PROVE \E q \in PathsFrom(a, E) : Last(q) = n
  <2> DEFINE S == {Last(q) : q \in PathsFrom(a, E)}
  <2>1. {a} \subseteq S
    BY <1>1, PathStart
  <2>2. Closed(S, E)
    BY <1>1, StepOn DEF Closed
  <2>3. Reach({a}, E) \subseteq S
    <3> HIDE DEF S
    <3> QED BY <1>1, <2>1, <2>2, ReachLeast
  <2> QED BY <1>4, <2>3
<1>5. ASSUME NEW q \in PathsFrom(a, E) PROVE Last(q) \in Reach({a}, E)
  <2> DEFINE S == {r \in PathsFrom(a, E) : Last(r) \in Reach({a}, E)}
  <2>1. a \in Reach({a}, E) /\ Closed(Reach({a}, E), E)
    BY <1>1, ReachClosed
  <2>2. <<a>> \in S
    BY <1>1, <2>1, PathStart
  <2>3. \A r, t \in PathsFrom(a, E) : \A e \in E :
          r \in S /\ e[1] = Last(r) /\ e[3] = Last(t) /\ Range(t) = Range(r) \cup {Last(t)} => t \in S
    BY <2>1 DEF Closed
  <2>4. PathsFrom(a, E) \subseteq S
    <3> HIDE DEF S
    <3> QED BY <1>1, <2>2, <2>3, PathInduction
  <2> QED BY <2>4
<1> QED BY <1>3, <1>4, <1>5 DEF E

\* The search finds the calls at the ends of the paths to a call of the sink.
LEMMA SinksAre ==
  ASSUME input \in Inputs, NEW b, NEW source, NEW sink
  PROVE  is_sink_call_reachable_from_source_call(prog, Start(b), source, sink) =
           {JmpTid(prog, Last(q)[2], 1) : q \in CallPaths(b, source, sink)}
<1> DEFINE p == prog
           G == GraphWithoutCalls(p)
           stop == {n \in {e[1] : e \in G} : CallsAt(p, n, source) \/ CallsAt(p, n, sink)}
           E == {e \in G : e[1] \notin stop}
           visited == Reach({Start(b)}, E)
           P == PathsFrom(Start(b), G)
           found == is_sink_call_reachable_from_source_call(p, Start(b), source, sink)
<1>1. IsNormal(p)
  BY ProgramsAreNormal DEF prog
<1>2. IsFiniteSet(G)
  BY <1>1, CallGraphFinite
<1>3. {e \in G : ~IsExternEdge(p, e, sink) /\ ~IsExternEdge(p, e, source)} = E
  BY <1>1, ExternEdgesAreCalls
<1>4. found = {JmpTid(p, e[1][2], 1) : e \in {e \in G : e[1] \in visited /\ IsExternEdge(p, e, sink)}}
  <2> DEFINE D == {e \in G : ~IsExternEdge(p, e, sink) /\ ~IsExternEdge(p, e, source)}
  <2>1. found = {JmpTid(p, e[1][2], 1) : e \in {e \in G : e[1] \in Reach({Start(b)}, D) /\ IsExternEdge(p, e, sink)}}
    BY DEF is_sink_call_reachable_from_source_call, IsExternEdge
  <2> HIDE DEF D, E
  <2> QED BY <1>3, <2>1 DEF D
<1>5. \A n : n \in visited <=> \E q \in P : Last(q) = n /\ \A i \in 1..(Len(q) - 1) : q[i] \notin stop
  <2> HIDE DEF stop, G
  <2> QED BY <1>2, ReachPaths
<1>6. ASSUME NEW q \in P PROVE \A i \in 1..(Len(q) - 1) : q[i] \notin stop <=> ~CallsAt(p, q[i], source) /\ ~CallsAt(p, q[i], sink)
  <2>1. IsSimple(q, Start(b), G)
    <3> HIDE DEF G
    <3> QED BY <1>2, PathsFromAre
  <2>2. \A i \in 1..(Len(q) - 1) : q[i] \in {e[1] : e \in G}
    <3> HIDE DEF G
    <3> QED BY <2>1 DEF IsSimple
  <2> HIDE DEF G, P
  <2> QED BY <2>2
<1>7. \A q : q \in CallPaths(b, source, sink) <=>
        q \in P /\ CallsAt(p, Last(q), sink) /\ \A i \in 1..(Len(q) - 1) : q[i] \notin stop
  <2>1. \A q : q \in CallPaths(b, source, sink) <=>
          /\ q \in P /\ CallsAt(p, Last(q), sink)
          /\ \A i \in 1..(Len(q) - 1) : ~CallsAt(p, q[i], source) /\ ~CallsAt(p, q[i], sink)
    BY DEF CallPaths, CallsAt, SymbolsCalled
  <2> HIDE DEF P, stop
  <2> QED BY <1>6, <2>1
<1> HIDE DEF visited, stop, P, found
<1>8. ASSUME NEW e \in G, e[1] \in visited, IsExternEdge(p, e, sink)
      PROVE  \E q \in CallPaths(b, source, sink) : Last(q) = e[1]
  <2>1. CallsAt(p, e[1], sink)
    BY <1>1, <1>8, ExternEdgesAreCalls
  <2> QED BY <1>5, <1>7, <1>8, <2>1
<1>9. ASSUME NEW q \in CallPaths(b, source, sink)
      PROVE  \E e \in G : e[1] = Last(q) /\ e[1] \in visited /\ IsExternEdge(p, e, sink)
  <2>1. Last(q) \in visited /\ CallsAt(p, Last(q), sink) /\ q \in P
    BY <1>5, <1>7
  <2>2. PICK d \in G : d[3] = Last(q)
    <3>1. IsSimple(q, Start(b), G)
      <4> HIDE DEF G
      <4> QED BY <1>2, <2>1, PathsFromAre DEF P
    <3>2. Last(q) \in NodesFrom(Start(b), G)
      <4> HIDE DEF G
      <4> QED BY <3>1 DEF IsSimple, Last
    <3>3. Last(q) # Start(b)
      BY <2>1 DEF CallsAt, Start
    <3> QED BY <3>2, <3>3 DEF NodesFrom
  <2>3. PICK c \in DOMAIN p.blks : Last(q) = End(c)
    <3>1. d[3][1] = "BlkEnd"
      BY <2>1, <2>2 DEF CallsAt
    <3>2. \E c \in DOMAIN p.blks : \/ d[3] = End(c) \/ (\E t : d[3] = Start(t)) \/ d[3] = CallSource(c)
                                   \/ \E r : d[3] = CallReturn(c, r)
      BY <1>1, GraphEdges
    <3> QED BY <2>2, <3>1, <3>2 DEF Start, CallSource, CallReturn
  <2>4. sink \in p.symbols \cap get_call_targets(p, c)
    BY <2>1, <2>3 DEF CallsAt, End
  <2> DEFINE e == <<End(c), "ExternCallStub", Start(FirstJmp(p, c).return)>>
  <2>5. e \in add_jump_edge(p, c)
    <3>1. e \in PlainJumps(p, c) /\ FirstJmp(p, c).kind # "CallOther"
      BY <1>1, <2>4, ExternCallEdge
    <3> QED BY <3>1 DEF add_jump_edge
  <2>6. e \in G
    BY <2>5 DEF GraphWithoutCalls
  <2>7. IsExternEdge(p, e, sink)
    BY <1>1, <2>1, <2>3, <2>6, ExternEdgesAreCalls
  <2>8. e[1] = Last(q)
    BY <2>3
  <2> HIDE DEF e
  <2> QED BY <2>1, <2>6, <2>7, <2>8
<1> QED BY <1>4, <1>8, <1>9 DEF found

\* A run with the only module m: the warnings are its result.
OnlyModule(m) ==
  /\ stage \in {"start", "stats", "disassembled", "filtered", "configured"} => warnings = {}
  /\ stage \in {"filtered", "configured"} => modules = <<m>>
  /\ stage = "run" => \/ modules = <<m>> /\ warnings = {}
                      \/ modules = <<>> /\ warnings \in SymbolChecks(prog, m)
  /\ stage = "printed" => warnings \in SymbolChecks(prog, m)
  /\ stage # "cwe416"

\* A caller that was asked for one of the two checkers alone runs that one alone.
OrderInv ==
  /\ input \in Inputs
  /\ \A m \in {"CWE243", "CWE367"} : args.partial = {m} => OnlyModule(m)

\* A set with one element has one order.
LEMMA OneModule ==
  ASSUME NEW m, NEW s \in SetToSeqs({m})
  PROVE  s = <<m>>
<1>1. Cardinality({m}) = 1
  BY FS_Singleton
<1>2. s \in [1..1 -> {m}]
  BY <1>1 DEF SetToSeqs
<1> QED BY <1>2

\* Every step of the caller keeps OrderInv, one case per action.
LEMMA OrderInvInductive ==
  ASSUME OrderInv, [Next]_vars
  PROVE  OrderInv'
<1>1. input \in Inputs /\ UNCHANGED input
  BY DEF OrderInv, Next, vars, Disassemble, FilterModules, ReadConfig, ComputeAnalyses, RunModule,
         PrintResults, StartCwe416, UpdateNode, FinishCwe416, StartStats, StartDominators,
         UpdateDominators, FinishDominators, FinishStats, Done, Exit
<1> SUFFICES ASSUME NEW m \in {"CWE243", "CWE367"}, args.partial = {m} PROVE OnlyModule(m)'
  BY <1>1 DEF OrderInv, args
<1>2. OnlyModule(m)
  BY DEF OrderInv
<1>3. m \in Range(get_modules) /\ m # "" /\ m # "CWE416" /\ m \in SymbolModules
  <2>1. DOMAIN get_modules = 1..19 /\ get_modules[6] = "CWE243" /\ get_modules[10] = "CWE367"
    BY DEF get_modules
  <2>2. 6 \in DOMAIN get_modules /\ 10 \in DOMAIN get_modules
    BY <2>1
  <2>3. m \in Range(get_modules)
    BY <2>1, <2>2 DEF Range
  <2> QED BY <2>3 DEF SymbolModules
<1>4. args.partial # None
  BY <1>3, NoneIsNoSelection
<1> USE <1>1, <1>2 DEF OnlyModule, prog
<1>5. CASE UNCHANGED vars
  BY <1>5 DEF vars
<1>6. CASE Disassemble
  BY <1>6 DEF Disassemble, Exit
<1>7. CASE FilterModules
  <2>1. filter_modules_for_partial_run(args.partial) = SetToSeqs({m})
    <3>1. args.partial \ {""} = {m}
      BY <1>3
    <3> QED BY <1>3, <3>1 DEF filter_modules_for_partial_run
  <2>2. \A s \in filter_modules_for_partial_run(args.partial) : s = <<m>>
    BY <2>1, OneModule
  <2> QED BY <1>4, <1>7, <2>2 DEF FilterModules, Exit
<1>8. CASE ReadConfig
  BY <1>8 DEF ReadConfig, Exit
<1>9. CASE ComputeAnalyses
  BY <1>9 DEF ComputeAnalyses
<1>10. CASE RunModule
  <2>1. CASE modules = <<m>> /\ warnings = {}
    <3>1. Head(modules) = m /\ Tail(modules) = <<>>
      BY <2>1
    <3> QED BY <1>3, <1>10, <2>1, <3>1 DEF RunModule, Exit
  <2>2. modules # <<>> /\ stage = "run"
    BY <1>10 DEF RunModule
  <2> QED BY <2>1, <2>2
<1>11. CASE PrintResults
  BY <1>11 DEF PrintResults, Exit
<1>12. CASE StartCwe416
  <2>1. modules = <<m>> /\ Head(modules) = "CWE416"
    BY <1>12 DEF StartCwe416
  <2> QED BY <1>3, <2>1
<1>13. CASE UpdateNode \/ FinishCwe416
  BY <1>13 DEF UpdateNode, FinishCwe416
<1>14. CASE StartStats \/ StartDominators \/ UpdateDominators \/ FinishDominators
  BY <1>14 DEF StartStats, StartDominators, UpdateDominators, FinishDominators
<1>15. CASE FinishStats
  BY <1>15 DEF FinishStats, Exit
<1>16. CASE Done
  BY <1>5, <1>16 DEF Done
<1> QED
  BY <1>5, <1>6, <1>7, <1>8, <1>9, <1>10, <1>11, <1>12, <1>13, <1>14, <1>15, <1>16 DEF Next

\* The possible results of the check for CWE367 are exact.
LEMMA RaceWarnings ==
  ASSUME input \in Inputs, NEW ws \in check_cwe_367(prog)
  PROVE  LET found == UNION {{<<pair, b>> : b \in {b \in DOMAIN prog.blks : pair[1] \in SymbolsCalled(b)
                                                                       /\ Outdated(pair, b) # {}}} :
                               pair \in prog.config.pairs_367}
         IN  /\ \A x \in found : \E w \in ws : w.addresses[1] = Tid(FirstJmp(prog, x[2]).return, 0)
             /\ \A w \in ws : \E x \in found : \E q \in Outdated(x[1], x[2]) :
                  w.addresses = <<Tid(FirstJmp(prog, x[2]).return, 0), JmpTid(prog, Last(q)[2], 1)>>
<1> DEFINE p == prog
           Hit(pair) == {b \in DOMAIN p.blks : pair[1] \in SymbolsCalled(b) /\ Outdated(pair, b) # {}}
           found == UNION {{<<pair, b>> : b \in Hit(pair)} : pair \in p.config.pairs_367}
           found1 == UNION {{<<pair, b>> : b \in SourceCalls(p, pair)} : pair \in p.config.pairs_367}
           Sinks(x) == is_sink_call_reachable_from_source_call(p, Start(FirstJmp(p, x[2]).return), x[1][1], x[1][2])
           At(x) == Tid(FirstJmp(p, x[2]).return, 0)
<1>1. \A pair, b : is_sink_call_reachable_from_source_call(p, Start(FirstJmp(p, b).return), pair[1], pair[2])
                     = {JmpTid(p, Last(q)[2], 1) : q \in Outdated(pair, b)}
  BY SinksAre DEF Outdated
<1>2. \A pair, b : Outdated(pair, b) # {} => pair[2] \in p.symbols
  <2>1. ASSUME NEW pair, NEW b, NEW q \in Outdated(pair, b) PROVE pair[2] \in p.symbols
    BY DEF Outdated, CallPaths, SymbolsCalled
  <2> QED BY <2>1
<1>3. \A pair : SourceCalls(p, pair) = Hit(pair)
  <2> SUFFICES ASSUME NEW pair, NEW b \in DOMAIN p.blks PROVE b \in SourceCalls(p, pair) <=> b \in Hit(pair)
    BY DEF SourceCalls
  <2>1. is_sink_call_reachable_from_source_call(p, Start(FirstJmp(p, b).return), pair[1], pair[2]) # {}
          <=> Outdated(pair, b) # {}
    <3>1. is_sink_call_reachable_from_source_call(p, Start(FirstJmp(p, b).return), pair[1], pair[2])
            = {JmpTid(p, Last(q)[2], 1) : q \in Outdated(pair, b)}
      BY <1>1
    <3>2. ASSUME NEW q \in Outdated(pair, b)
          PROVE  JmpTid(p, Last(q)[2], 1) \in {JmpTid(p, Last(r)[2], 1) : r \in Outdated(pair, b)}
      OBVIOUS
    <3> QED BY <3>1, <3>2
  <2> QED BY <1>2, <2>1 DEF SourceCalls, SymbolsCalled
<1>4. found1 = found
  <2> HIDE DEF Hit
  <2> QED BY <1>3
<1>5. PICK pick : /\ ws = {Warning("CWE367", <<At(x), pick[x]>>) : x \in found1}
                  /\ \A x \in found1 : pick[x] \in Sinks(x)
  BY DEF check_cwe_367
<1>6. \A x \in found : pick[x] \in {JmpTid(p, Last(q)[2], 1) : q \in Outdated(x[1], x[2])}
  <2> HIDE DEF found, found1
  <2> QED BY <1>1, <1>4, <1>5
<1>7. ASSUME NEW x \in found PROVE \E w \in ws : w.addresses[1] = At(x)
  <2>1. Warning("CWE367", <<At(x), pick[x]>>) \in ws
    <3> HIDE DEF found, found1, At
    <3> QED BY <1>4, <1>5
  <2>2. Warning("CWE367", <<At(x), pick[x]>>).addresses[1] = At(x)
    BY DEF Warning
  <2> HIDE DEF found, At
  <2> QED BY <2>1, <2>2
<1>8. ASSUME NEW w \in ws
      PROVE  \E x \in found : \E q \in Outdated(x[1], x[2]) : w.addresses = <<At(x), JmpTid(p, Last(q)[2], 1)>>
  <2> HIDE DEF found, found1, At
  <2>1. PICK x \in found : w = Warning("CWE367", <<At(x), pick[x]>>)
    BY <1>4, <1>5
  <2>2. PICK q \in Outdated(x[1], x[2]) : pick[x] = JmpTid(p, Last(q)[2], 1)
    BY <1>6
  <2>3. w.addresses = <<At(x), JmpTid(p, Last(q)[2], 1)>>
    BY <2>1, <2>2 DEF Warning
  <2> QED BY <2>3
<1> QED BY <1>7, <1>8

\* The check for CWE243 is exact.
LEMMA ChrootWarnings ==
  ASSUME input \in Inputs
  PROVE  LET chroots == {b \in DOMAIN prog.blks : "chroot" \in SymbolsCalled(b)}
             Called(f) == UNION {SymbolsCalled(b) : b \in BlocksOf(prog, f)}
             Excused(f) == "chdir" \in Called(f) /\ Called(f) \cap prog.config.priviledge_dropping_functions # {}
         IN  {w.addresses[1] : w \in check_cwe_243(prog)} =
               {JmpTid(prog, b, 1) :
                  b \in {b \in chroots : /\ CallPaths(FirstJmp(prog, b).return, "chroot", "chdir") = {}
                                         /\ ~Excused(prog.blks[b].sub)}}
<1> DEFINE p == prog
           Called(f) == UNION {SymbolsCalled(b) : b \in BlocksOf(p, f)}
           Excused(f) == "chdir" \in Called(f) /\ Called(f) \cap p.config.priviledge_dropping_functions # {}
           Paths(b) == CallPaths(FirstJmp(p, b).return, "chroot", "chdir")
           Bad == {b \in DOMAIN p.blks : "chroot" \in SymbolsCalled(b) /\ Paths(b) = {} /\ ~Excused(p.blks[b].sub)}
           Bad1 == {b \in DOMAIN p.blks : "chroot" \in get_call_targets(p, b) /\ InsecureChroot(p, b)}
<1>1. ASSUME NEW f PROVE DOMAIN callees(p, f) = UNION {get_call_targets(p, b) : b \in BlocksOf(p, f)}
  BY DEF callees, call_sites
<1>2. ASSUME NEW f PROVE Called(f) = p.symbols \cap DOMAIN callees(p, f)
  <2>1. UNION {p.symbols \cap get_call_targets(p, b) : b \in BlocksOf(p, f)}
          = p.symbols \cap UNION {get_call_targets(p, b) : b \in BlocksOf(p, f)}
    <3> DEFINE B == BlocksOf(p, f)
    <3> HIDE DEF p, B
    <3>1. \A x : x \in UNION {p.symbols \cap get_call_targets(p, b) : b \in B}
                  <=> \E b \in B : x \in p.symbols /\ x \in get_call_targets(p, b)
      OBVIOUS
    <3>2. \A x : x \in UNION {get_call_targets(p, b) : b \in B} <=> \E b \in B : x \in get_call_targets(p, b)
      OBVIOUS
    <3> QED BY <3>1, <3>2 DEF B
  <2> QED BY <1>1, <2>1 DEF SymbolsCalled
<1>3. ASSUME NEW f, "chdir" \in p.symbols PROVE f_calls_chdir_and_priviledge_dropping_func(p, f) <=> Excused(f)
  <2> HIDE DEF Called
  <2> QED BY <1>2, <1>3 DEF f_calls_chdir_and_priviledge_dropping_func, get_symbol_map
<1>4. ASSUME NEW b, "chdir" \notin p.symbols PROVE Paths(b) = {} /\ \A f : ~Excused(f)
  <2>1. \A f : ~Excused(f)
    BY <1>4 DEF SymbolsCalled
  <2>2. Paths(b) = {}
    BY <1>4 DEF CallPaths, SymbolsCalled
  <2> QED BY <2>1, <2>2
<1>5. ASSUME NEW b PROVE InsecureChroot(p, b) <=> Paths(b) = {} /\ ~Excused(p.blks[b].sub)
  <2>1. is_sink_call_reachable_from_source_call(p, Start(FirstJmp(p, b).return), "chroot", "chdir")
          = {JmpTid(p, Last(q)[2], 1) : q \in Paths(b)}
    BY SinksAre
  <2> HIDE DEF Paths, Excused
  <2>2. is_sink_call_reachable_from_source_call(p, Start(FirstJmp(p, b).return), "chroot", "chdir") = {}
          <=> Paths(b) = {}
    BY <2>1
  <2> QED BY <1>3, <1>4, <2>2 DEF InsecureChroot, find_symbol
<1>6. CASE "chroot" \in p.symbols
  <2>1. Bad1 = Bad
    <3> HIDE DEF Excused, Paths
    <3> QED BY <1>5, <1>6 DEF SymbolsCalled
  <2>2. check_cwe_243(p) = {Warning("CWE243", <<JmpTid(p, b, 1)>>) : b \in Bad1}
    BY <1>6 DEF check_cwe_243, find_symbol
  <2> HIDE DEF Bad, Bad1
  <2>3. \A b : Warning("CWE243", <<JmpTid(p, b, 1)>>).addresses[1] = JmpTid(p, b, 1)
    BY DEF Warning
  <2>4. {w.addresses[1] : w \in check_cwe_243(p)} = {JmpTid(p, b, 1) : b \in Bad}
    <3> HIDE DEF p
    <3> DEFINE W(b) == Warning("CWE243", <<JmpTid(p, b, 1)>>)
    <3>1. ASSUME NEW b \in Bad PROVE \E w \in check_cwe_243(p) : w.addresses[1] = JmpTid(p, b, 1)
      <4>1. W(b) \in check_cwe_243(p)
        BY <2>1, <2>2
      <4>2. W(b).addresses[1] = JmpTid(p, b, 1)
        BY <2>3
      <4> HIDE DEF W
      <4> QED BY <4>1, <4>2
    <3>2. ASSUME NEW w \in check_cwe_243(p) PROVE \E b \in Bad : w.addresses[1] = JmpTid(p, b, 1)
      <4>1. PICK b \in Bad : w = W(b)
        BY <2>1, <2>2
      <4>2. W(b).addresses[1] = JmpTid(p, b, 1)
        BY <2>3
      <4> HIDE DEF W
      <4> QED BY <4>1, <4>2
    <3> HIDE DEF W
    <3> QED BY <3>1, <3>2
  <2> QED BY <2>4 DEF Bad
<1>7. CASE "chroot" \notin p.symbols
  <2>1. check_cwe_243(p) = {}
    BY <1>7 DEF check_cwe_243, find_symbol
  <2>2. \A b : "chroot" \notin SymbolsCalled(b)
    BY <1>7 DEF SymbolsCalled
  <2> QED BY <2>1, <2>2
<1> QED BY <1>6, <1>7

\* The warnings of the checkers that search from one call to another are exact
\* for the paths without CallOther, at which graph.rs ends them, for every program
\* and every configuration: CWE367 (checkers/cwe_367.rs) and CWE243
\* (checkers/cwe_243.rs) with is_sink_call_reachable_from_source_call.
THEOREM CallOrders == Spec => []CallOrdersAreExact
<1>1. Init => OrderInv
  BY DEF Init, OrderInv, OnlyModule
<1>2. OrderInv /\ [Next]_vars => OrderInv'
  BY OrderInvInductive
<1>3. OrderInv => CallOrdersAreExact
  <2> SUFFICES ASSUME OrderInv PROVE RacesAreExact /\ ChrootsAreExact
    BY DEF CallOrdersAreExact
  <2>1. RacesAreExact
    <3> SUFFICES ASSUME stage = "printed", args.partial = {"CWE367"}
                 PROVE  RacesAreExact
      BY DEF RacesAreExact
    <3>1. warnings \in check_cwe_367(prog)
      BY DEF OrderInv, OnlyModule, SymbolChecks
    <3> QED BY <3>1, RaceWarnings DEF OrderInv, RacesAreExact
  <2>2. ChrootsAreExact
    <3> SUFFICES ASSUME stage = "printed", args.partial = {"CWE243"}
                 PROVE  ChrootsAreExact
      BY DEF ChrootsAreExact
    <3>1. warnings = check_cwe_243(prog)
      BY DEF OrderInv, OnlyModule, SymbolChecks
    <3> QED BY <3>1, ChrootWarnings DEF OrderInv, ChrootsAreExact
  <2> QED BY <2>1, <2>2
<1> QED BY <1>1, <1>2, <1>3, PTL DEF Spec

-----------------------------------------------------------------------------
(* The states of the check for CWE416 *)

\* A set of numbers has an element of every rank.
LEMMA RankExists ==
  ASSUME NEW S, IsFiniteSet(S), S \subseteq Nat
  PROVE  \A n \in Nat : n < Cardinality(S) => \E id \in S : Cardinality({x \in S : x < id}) = n
<1> DEFINE Below(id) == {x \in S : x < id}
           T == {n \in Nat : n < Cardinality(S) => \E id \in S : Cardinality(Below(id)) = n}
<1>1. Cardinality(S) \in Nat
  BY FS_CardinalityType
<1>2. 0 \in T
  <2> SUFFICES ASSUME 0 < Cardinality(S) PROVE \E id \in S : Cardinality(Below(id)) = 0
    OBVIOUS
  <2>1. S # {}
    BY <1>1, FS_EmptySet
  <2>2. PICK id \in S : \A x \in S : id <= x
    BY <2>1, LeastNat
  <2>3. Below(id) = {}
    <3>1. \A x \in S : ~(x < id)
      <4> SUFFICES ASSUME NEW x \in S PROVE ~(x < id)
        OBVIOUS
      <4>1. x \in Nat /\ id \in Nat /\ id <= x
        BY <2>2
      <4> QED BY <4>1
    <3> QED BY <3>1
  <2> QED BY <2>3, FS_EmptySet
<1>3. \A n \in Nat : n \in T => n + 1 \in T
  <2> SUFFICES ASSUME NEW n \in Nat, n \in T, n + 1 < Cardinality(S)
               PROVE  \E id \in S : Cardinality(Below(id)) = n + 1
    OBVIOUS
  <2>1. PICK a \in S : Cardinality(Below(a)) = n
    BY <1>1
  <2>2. a \notin Below(a) /\ IsFiniteSet(Below(a))
    BY FS_Subset
  <2>3. Cardinality(Below(a) \cup {a}) = n + 1
    <3> HIDE DEF Below
    <3> QED BY <2>1, <2>2, FS_AddElement
  <2> DEFINE Above == {x \in S : a < x}
  <2>4. Above # {}
    <3> SUFFICES ASSUME Above = {} PROVE FALSE
      OBVIOUS
    <3>1. S = Below(a) \cup {a}
      <4>1. \A x \in S : x < a \/ x = a
        <5> SUFFICES ASSUME NEW x \in S PROVE x < a \/ x = a
          OBVIOUS
        <5>1. ~(a < x)
          OBVIOUS
        <5>2. x \in Nat /\ a \in Nat
          OBVIOUS
        <5> QED BY <5>1, <5>2
      <4> QED BY <4>1
    <3>2. Cardinality(S) = n + 1
      <4> HIDE DEF Below
      <4> QED BY <2>3, <3>1
    <3> QED BY <1>1, <3>2
  <2>5. PICK id \in Above : \A x \in Above : id <= x
    <3>1. Above \subseteq Nat
      OBVIOUS
    <3> HIDE DEF Above
    <3> QED BY <2>4, <3>1, LeastNat
  <2>6. Below(id) = Below(a) \cup {a}
    <3>1. id \in S /\ a < id /\ \A x \in S : a < x => id <= x
      BY <2>5
    <3>2. \A x \in S : x < id <=> x < a \/ x = a
      BY <3>1
    <3> QED BY <3>2
  <2>7. Cardinality(Below(id)) = n + 1
    <3> HIDE DEF Below
    <3> QED BY <2>3, <2>6
  <2> QED BY <2>5, <2>7
<1>4. \A n \in Nat : n \in T
  <2> HIDE DEF T
  <2> QED BY <1>2, <1>3, Induction
<1> QED BY <1>4

\* The ordered objects of a set are objects of the set.
LEMMA OrderedIs ==
  ASSUME NEW S, IsFiniteSet(S), S \subseteq Nat
  PROVE  /\ Len(Ordered(S)) \in Nat /\ \A i \in 1..Len(Ordered(S)) : Ordered(S)[i] \in S
         /\ Len(Ordered(S)) = Cardinality(S) /\ DOMAIN Ordered(S) = 1..Cardinality(S)
<1> DEFINE k == Cardinality(S)
<1>1. k \in Nat
  BY FS_CardinalityType
<1>2. ASSUME NEW i \in 1..k PROVE (CHOOSE id \in S : Cardinality({x \in S : x < id}) = i - 1) \in S
  <2>1. i - 1 \in Nat /\ i - 1 < k
    BY <1>1
  <2>2. \E id \in S : Cardinality({x \in S : x < id}) = i - 1
    BY <2>1, RankExists
  <2> QED BY <2>2
<1> HIDE DEF k
<1>3. Ordered(S) \in [1..k -> S]
  BY <1>2 DEF Ordered, k
<1>4. Ordered(S) \in Seq(S) /\ DOMAIN Ordered(S) = 1..k
  BY <1>1, <1>3
<1>5. Len(Ordered(S)) \in Nat /\ DOMAIN Ordered(S) = 1..Len(Ordered(S))
  BY <1>4, LenProperties
<1>6. Len(Ordered(S)) = k
  BY <1>1, <1>4, <1>5
<1> QED BY <1>3, <1>4, <1>5, <1>6 DEF k

\* r has the results of k steps, of which the ith is G[i, t] in the state t.
Turns(r, k, S, s, G) ==
  /\ r \in [0..k -> [value : S, warnings : SUBSET UNION {G[x].warnings : x \in (1..k) \X S}]]
  /\ r[0] = Flow(s, {})
  /\ \A i \in 1..k : r[i] = Flow(G[<<i, r[i - 1].value>>].value,
                                 r[i - 1].warnings \cup G[<<i, r[i - 1].value>>].warnings)

\* The steps keep the type of the state and add finitely many warnings; c
\* follows them as long as it is typed.
Finites(U) == {W \in SUBSET U : IsFiniteSet(W)}
Keeps(G, k, S, U) == \A x \in (1..k) \X S : G[x].value \in S /\ G[x].warnings \in Finites(U)
Follows(c, k, S, s, G) ==
  /\ c[0] = Flow(s, {})
  /\ \A i \in 1..k : c[i - 1].value \in S =>
       /\ c[i].value = G[<<i, c[i - 1].value>>].value
       /\ c[i].warnings = c[i - 1].warnings \cup G[<<i, c[i - 1].value>>].warnings

\* Typed steps can be taken in turn.
LEMMA TurnsExist ==
  ASSUME NEW k \in Nat, NEW S, NEW s \in S, NEW G, NEW U, Keeps(G, k, S, U)
  PROVE  \E r : Turns(r, k, S, s, G)
<1> DEFINE W == UNION {G[x].warnings : x \in (1..k) \X S}
           X == [value : S, warnings : SUBSET W]
           Next1(i, x) == Flow(G[<<i, x.value>>].value, x.warnings \cup G[<<i, x.value>>].warnings)
           F == [x \in (1..k) \X X |-> Next1(x[1], x[2])]
<1>1. ASSUME NEW i \in 1..k, NEW x \in X PROVE Next1(i, x) \in X
  <2>1. <<i, x.value>> \in (1..k) \X S
    OBVIOUS
  <2>2. G[<<i, x.value>>].value \in S /\ G[<<i, x.value>>].warnings \subseteq W
    BY <2>1 DEF Keeps
  <2> HIDE DEF W
  <2> QED BY <2>2 DEF Flow
<1>2. Flow(s, {}) \in X
  BY DEF Flow
<1> HIDE DEF X, Next1
<1>3. F \in [(1..k) \X X -> X]
  BY <1>1
<1>4. PICK r : Iterates(r, k, X, Flow(s, {}), F)
  <2> HIDE DEF F
  <2> QED BY <1>2, <1>3, Iteration
<1>5. r \in [0..k -> X] /\ r[0] = Flow(s, {}) /\ \A i \in 1..k : r[i] = F[<<i, r[i - 1]>>]
  <2> HIDE DEF F
  <2> QED BY <1>4 DEF Iterates
<1>6. \A i \in 1..k : r[i] = Next1(i, r[i - 1])
  <2>1. \A i \in 1..k : <<i, r[i - 1]>> \in (1..k) \X X
    BY <1>5
  <2> QED BY <1>5, <2>1
<1> QED BY <1>5, <1>6 DEF Turns, X, Next1

\* Finite sets of warnings stay finite when more are added.
LEMMA FinitesGrow ==
  ASSUME NEW U, NEW V \in Finites(U), NEW W \in Finites(U)
  PROVE  V \cup W \in Finites(U) /\ {} \in Finites(U)
BY FS_Union, FS_EmptySet DEF Finites

\* c has the flows of k steps from s, the last one the flow.
Taken(c, k, s, S, U, flow) ==
  /\ k \in Nat
  /\ c[0] = Flow(s, {})
  /\ \A i \in 0..k : c[i].value \in S /\ c[i].warnings \in Finites(U)
  /\ c[k] = flow
Adds(c, i, flow) == c[i].value = flow.value /\ c[i].warnings = c[i - 1].warnings \cup flow.warnings

\* If every step keeps the type of the state, all results have it, and
\* together they have finitely many warnings.
LEMMA TurnsTyped ==
  ASSUME NEW k \in Nat, NEW S, NEW s \in S, NEW G, NEW U, Keeps(G, k, S, U), NEW c, Follows(c, k, S, s, G)
  PROVE  \A i \in 0..k : c[i].value \in S /\ c[i].warnings \in Finites(U)
<1> DEFINE T == {i \in Nat : i <= k => c[i].value \in S /\ c[i].warnings \in Finites(U)}
<1>1. 0 \in T
  <2>1. {} \in Finites(U)
    BY FS_EmptySet DEF Finites
  <2> QED BY <2>1 DEF Flow, Follows
<1>2. \A i \in Nat : i \in T => i + 1 \in T
  <2> SUFFICES ASSUME NEW i \in Nat, i \in T, i + 1 <= k
               PROVE  c[i + 1].value \in S /\ c[i + 1].warnings \in Finites(U)
    OBVIOUS
  <2>1. i + 1 \in 1..k /\ (i + 1) - 1 = i /\ c[i].value \in S /\ c[i].warnings \in Finites(U)
    OBVIOUS
  <2>2. /\ c[i + 1].value = G[<<i + 1, c[i].value>>].value
        /\ c[i + 1].warnings = c[i].warnings \cup G[<<i + 1, c[i].value>>].warnings
    BY <2>1 DEF Follows
  <2>3. <<i + 1, c[i].value>> \in (1..k) \X S
    BY <2>1
  <2>4. G[<<i + 1, c[i].value>>].value \in S /\ G[<<i + 1, c[i].value>>].warnings \in Finites(U)
    BY <2>3 DEF Keeps
  <2> QED BY <2>1, <2>2, <2>4, FinitesGrow
<1>3. \A i \in Nat : i \in T
  <2> HIDE DEF T
  <2> QED BY <1>1, <1>2, Induction
<1> QED BY <1>3

\* The maps of objects, by their domains.
LEMMA MapsAre ==
  ASSUME NEW p
  PROVE  /\ \A m \in ObjectMaps(p) : m \in [DOMAIN m -> ObjectStates] /\ DOMAIN m \subseteq DOMAIN p.ids
         /\ \A D \in SUBSET DOMAIN p.ids : \A m \in [D -> ObjectStates] : m \in ObjectMaps(p)
<1> HIDE DEF ObjectStates
<1> QED BY DEF ObjectMaps

\* Entering an object state keeps the type of a map.
LEMMA InsertTyped ==
  ASSUME NEW p, NEW m \in ObjectMaps(p), NEW id \in DOMAIN p.ids, NEW o \in ObjectStates
  PROVE  Insert(m, id, o) \in ObjectMaps(p)
<1>1. m \in [DOMAIN m -> ObjectStates] /\ DOMAIN m \cup {id} \in SUBSET DOMAIN p.ids
  BY MapsAre
<1>2. Insert(m, id, o) \in [DOMAIN m \cup {id} -> ObjectStates]
  BY <1>1 DEF Insert
<1> QED BY <1>1, <1>2, MapsAre

\* Flagging objects keeps the type of a map.
LEMMA FlagTyped ==
  ASSUME NEW p, NEW m \in ObjectMaps(p), NEW ids
  PROVE  FlagIn(m, ids) \in ObjectMaps(p)
<1>1. m \in [DOMAIN m -> ObjectStates] /\ DOMAIN m \in SUBSET DOMAIN p.ids
  BY MapsAre
<1>2. ASSUME NEW id \in DOMAIN m PROVE ObjectState("AlreadyFlagged", m[id].path) \in ObjectStates
  <2>1. m[id] \in ObjectStates
    BY <1>1
  <2>2. m[id].path \in Seq(Int)
    BY <2>1 DEF ObjectStates
  <2> QED BY <2>2 DEF ObjectStates, ObjectState
<1>3. FlagIn(m, ids) \in [DOMAIN m -> ObjectStates]
  BY <1>1, <1>2 DEF FlagIn
<1> QED BY <1>1, <1>3, MapsAre

\* The fields of states, and states with a field replaced.
LEMMA StatesAre ==
  ASSUME NEW p
  PROVE  /\ \A s \in States(p) : /\ s.fn \in DOMAIN p.entry
                                 /\ s.dangling \in ObjectMaps(p) /\ s.same_call \in ObjectMaps(p)
         /\ \A s \in States(p) : \A d \in ObjectMaps(p) :
              [s EXCEPT !.dangling = d] \in States(p) /\ [s EXCEPT !.same_call = d] \in States(p)
         /\ \A s \in States(p) : \A d, c \in ObjectMaps(p) :
              [s EXCEPT !.dangling = d, !.same_call = c] \in States(p)
BY DEF States

\* The causes of warnings: objects with the paths to their free sites.
AllCauses(p) == (DOMAIN p.ids) \X Seq(Int)

\* A map has finitely many dangling objects.
LEMMA CausesTyped ==
  ASSUME NEW p, IsListed(p.ids), NEW m \in ObjectMaps(p), NEW ids
  PROVE  Causes(m, ids) \in Finites(AllCauses(p))
<1> DEFINE D == {id \in ids : IsDangling(m, id)}
           f == [id \in D |-> <<id, m[id].path>>]
           C == Causes(m, ids)
<1>1. m \in [DOMAIN m -> ObjectStates] /\ DOMAIN m \subseteq DOMAIN p.ids
  BY MapsAre
<1>2. D \subseteq DOMAIN m
  BY DEF IsDangling
<1>3. IsFiniteSet(D)
  <2>1. DOMAIN p.ids = 1..Len(p.ids) /\ Len(p.ids) \in Nat
    BY DEF IsListed
  <2>2. IsFiniteSet(DOMAIN p.ids)
    BY <2>1, FS_Interval
  <2>3. D \subseteq DOMAIN p.ids
    BY <1>1, <1>2
  <2> HIDE DEF D
  <2> QED BY <2>2, <2>3, FS_Subset
<1>4. C = {f[id] : id \in D} /\ f \in [D -> C]
  BY DEF Causes
<1>5. IsFiniteSet(C)
  <2> HIDE DEF C, D, f
  <2> QED BY <1>3, <1>4, ImageFinite
<1>6. ASSUME NEW id \in D PROVE f[id] \in AllCauses(p)
  <2>1. m[id] \in ObjectStates /\ id \in DOMAIN p.ids
    BY <1>1, <1>2
  <2>2. m[id].path \in Seq(Int)
    BY <2>1 DEF ObjectStates
  <2>3. f[id] = <<id, m[id].path>>
    OBVIOUS
  <2>4. <<id, m[id].path>> \in AllCauses(p)
    BY <2>1, <2>2 DEF AllCauses
  <2> QED BY <2>3, <2>4
<1> HIDE DEF D, f
<1>7. C \subseteq AllCauses(p)
  BY <1>4, <1>6
<1> QED BY <1>5, <1>7 DEF Finites

\* Marking an object as freed keeps the type of a state.
LEMMA MarkTyped ==
  ASSUME NEW p, IsListed(p.ids), NEW s \in States(p), NEW id \in DOMAIN p.ids, NEW path \in Seq(Int)
  PROVE  /\ mark_as_freed(p, s, id, path).value \in States(p)
         /\ mark_as_freed(p, s, id, path).warnings \in Finites(AllCauses(p))
<1> DEFINE Freed(m) == Insert(m, id, ObjectState("Dangling", path))
<1>1. ObjectState("Dangling", path) \in ObjectStates
  BY DEF ObjectState, ObjectStates
<1>2. Freed(s.dangling) \in ObjectMaps(p) /\ Freed(s.same_call) \in ObjectMaps(p)
  BY <1>1, StatesAre, InsertTyped
<1>3. [s EXCEPT !.dangling = Freed(s.dangling)] \in States(p) /\ [s EXCEPT !.same_call = Freed(s.same_call)] \in States(p)
  <2> HIDE DEF Freed
  <2> QED BY <1>2, StatesAre
<1>4. mark_as_freed(p, s, id, path).value \in
        {s, [s EXCEPT !.dangling = Freed(s.dangling)], [s EXCEPT !.same_call = Freed(s.same_call)]}
  BY DEF mark_as_freed, Flow
<1>5. mark_as_freed(p, s, id, path).warnings \in {{}, Causes(s.dangling, {id}), Causes(s.same_call, {id})}
  BY DEF mark_as_freed, Flow
<1>6. Causes(s.dangling, {id}) \in Finites(AllCauses(p)) /\ Causes(s.same_call, {id}) \in Finites(AllCauses(p))
  BY StatesAre, CausesTyped
<1> HIDE DEF Freed
<1>7. mark_as_freed(p, s, id, path).value \in States(p)
  BY <1>3, <1>4
<1>8. mark_as_freed(p, s, id, path).warnings \in Finites(AllCauses(p))
  BY <1>5, <1>6, FinitesGrow
<1> QED BY <1>7, <1>8

\* Checking an address keeps the type of a state.
LEMMA CheckTyped ==
  ASSUME NEW p, IsListed(p.ids), NEW s \in States(p), NEW ids
  PROVE  /\ check_address_for_use_after_free(s, ids).value \in States(p)
         /\ check_address_for_use_after_free(s, ids).warnings \in Finites(AllCauses(p))
<1>1. FlagIn(s.dangling, ids) \in ObjectMaps(p) /\ FlagIn(s.same_call, ids) \in ObjectMaps(p)
  BY StatesAre, FlagTyped
<1>2. [s EXCEPT !.dangling = FlagIn(s.dangling, ids), !.same_call = FlagIn(s.same_call, ids)] \in States(p)
  BY <1>1, StatesAre
<1>3. check_address_for_use_after_free(s, ids).value =
        [s EXCEPT !.dangling = FlagIn(s.dangling, ids), !.same_call = FlagIn(s.same_call, ids)]
  BY DEF check_address_for_use_after_free, Flow
<1>4. check_address_for_use_after_free(s, ids).warnings = Causes(s.dangling, ids) \cup Causes(s.same_call, ids)
  BY DEF check_address_for_use_after_free, Flow
<1>5. Causes(s.dangling, ids) \in Finites(AllCauses(p)) /\ Causes(s.same_call, ids) \in Finites(AllCauses(p))
  BY StatesAre, CausesTyped
<1>6. check_address_for_use_after_free(s, ids).warnings \in Finites(AllCauses(p))
  BY <1>4, <1>5, FinitesGrow
<1> QED BY <1>2, <1>3, <1>6

\* The objects are marked one after the other.
LEMMA MarkAllTurns ==
  ASSUME NEW p, NEW s \in States(p), NEW path \in Seq(Int), NEW ids, ids \subseteq DOMAIN p.ids, IsListed(p.ids)
  PROVE  \E c : /\ Taken(c, Len(Ordered(ids)), s, States(p), AllCauses(p), MarkAll(p, s, ids, path))
               /\ \A i \in 1..Len(Ordered(ids)) : Adds(c, i, mark_as_freed(p, c[i - 1].value, Ordered(ids)[i], path))
<1> DEFINE seq == Ordered(ids)
           k == Len(seq)
           S == States(p)
           U == AllCauses(p)
           Step(t, x) == mark_as_freed(p, t, x, path)
           G == [x \in (1..k) \X S |-> Step(x[2], seq[x[1]])]
           Is(r) == r = [i \in 0..k |-> IF i = 0 THEN Flow(s, {})
                                        ELSE Flow(Step(r[i - 1].value, seq[i]).value,
                                                  r[i - 1].warnings \cup Step(r[i - 1].value, seq[i]).warnings)]
           c == CHOOSE r : Is(r)
<1>1. k \in Nat /\ \A i \in 1..k : seq[i] \in DOMAIN p.ids
  <2>1. DOMAIN p.ids = 1..Len(p.ids) /\ Len(p.ids) \in Nat
    BY DEF IsListed
  <2>2. IsFiniteSet(DOMAIN p.ids)
    BY <2>1, FS_Interval
  <2>3. IsFiniteSet(ids) /\ ids \subseteq Nat
    BY <2>1, <2>2, FS_Subset
  <2> QED BY <2>3, OrderedIs
<1>2. MarkAll(p, s, ids, path) = c[k]
  BY DEF MarkAll, InTurn
<1> HIDE DEF seq, k, S, U
<1>3. \A i \in 1..k : \A t \in S : Step(t, seq[i]).value \in S /\ Step(t, seq[i]).warnings \in Finites(U)
  BY <1>1, MarkTyped DEF S, U
<1> HIDE DEF Step
<1>4. \A i \in 1..k : \A t \in S : G[<<i, t>>] = Step(t, seq[i])
  OBVIOUS
<1>5. Keeps(G, k, S, U)
  BY <1>3 DEF Keeps
<1> HIDE DEF G
<1>6. s \in S
  BY DEF S
<1>7. PICK r : Turns(r, k, S, s, G)
  BY <1>1, <1>5, <1>6, TurnsExist
<1>8. Is(r)
  <2>1. r = [i \in 0..k |-> r[i]] /\ r[0] = Flow(s, {}) /\ \A i \in 0..k : r[i].value \in S
    BY <1>7 DEF Turns
  <2>2. \A i \in 1..k : r[i] = Flow(G[<<i, r[i - 1].value>>].value,
                                 r[i - 1].warnings \cup G[<<i, r[i - 1].value>>].warnings)
    BY <1>7 DEF Turns
  <2>3. \A i \in 1..k : r[i - 1].value \in S
    BY <1>1, <2>1
  <2>4. \A i \in 1..k : G[<<i, r[i - 1].value>>] = Step(r[i - 1].value, seq[i])
    BY <1>4, <2>3
  <2>5. ASSUME NEW i \in 0..k
        PROVE  r[i] = IF i = 0 THEN Flow(s, {})
                      ELSE Flow(Step(r[i - 1].value, seq[i]).value,
                                r[i - 1].warnings \cup Step(r[i - 1].value, seq[i]).warnings)
    <3>1. i = 0 \/ i \in 1..k
      BY <1>1
    <3> QED BY <2>1, <2>2, <2>4, <3>1
  <2> QED BY <2>1, <2>5, Zenon
<1>9. Is(c)
  BY <1>8
<1> HIDE DEF c
<1>10. c[0] = Flow(s, {})
  BY <1>1, <1>9
<1>11. ASSUME NEW i \in 1..k PROVE Adds(c, i, Step(c[i - 1].value, seq[i]))
  <2>1. i \in 0..k /\ i # 0
    BY <1>1
  <2>2. c[i] = Flow(Step(c[i - 1].value, seq[i]).value,
                    c[i - 1].warnings \cup Step(c[i - 1].value, seq[i]).warnings)
    BY <1>9, <2>1
  <2> QED BY <2>2 DEF Flow, Adds
<1>12. Follows(c, k, S, s, G)
  BY <1>4, <1>10, <1>11 DEF Follows, Adds
<1>13. \A i \in 0..k : c[i].value \in S /\ c[i].warnings \in Finites(U)
  BY <1>1, <1>5, <1>6, <1>12, TurnsTyped
<1>14. Taken(c, k, s, S, U, MarkAll(p, s, ids, path))
  BY <1>1, <1>2, <1>10, <1>13 DEF Taken
<1> QED BY <1>11, <1>14 DEF Step, seq, k, S, U

\* Marking objects keeps the type of a state.
LEMMA MarkAllTyped ==
  ASSUME NEW p, NEW s \in States(p), NEW path \in Seq(Int), NEW ids, ids \subseteq DOMAIN p.ids, IsListed(p.ids)
  PROVE  MarkAll(p, s, ids, path).value \in States(p) /\ MarkAll(p, s, ids, path).warnings \in Finites(AllCauses(p))
<1> PICK c : Taken(c, Len(Ordered(ids)), s, States(p), AllCauses(p), MarkAll(p, s, ids, path))
  BY MarkAllTurns
<1> QED BY DEF Taken

\* The filter for recursive identifiers adds none.
LEMMA NonRecursive ==
  ASSUME NEW p, NEW ids
  PROVE  get_non_recursive_ids(p, ids) \subseteq ids
BY DEF get_non_recursive_ids

\* The objects of the caller that an object of the callee may be.
TargetsOf(p, renaming, call, id) ==
  IF id \notin DOMAIN renaming THEN {}
  ELSE {t \in get_non_recursive_ids(p, renaming[id]) : p.ids[t].tid # call}

\* The objects that a callee freed are marked in the caller.
LEMMA CollectTurns ==
  ASSUME NEW p, NEW s \in States(p), NEW callee \in States(p), NEW call \in Int, NEW renaming, IsListed(p.ids),
         \A id \in DOMAIN renaming : renaming[id] \subseteq DOMAIN p.ids
  PROVE  LET seq == Ordered(DOMAIN callee.dangling)
             k == Len(seq)
         IN  \E c : /\ Taken(c, k, s, States(p), AllCauses(p), c[k])
                    /\ collect_freed_objects_from_called_function(p, s, callee, renaming, call) = c[k].value
                    /\ \A i \in 1..k :
                         Adds(c, i, IF callee.dangling[seq[i]].kind = "AlreadyFlagged" THEN Flow(c[i - 1].value, {})
                                    ELSE MarkAll(p, c[i - 1].value, TargetsOf(p, renaming, call, seq[i]),
                                                 Append(callee.dangling[seq[i]].path, call)))
<1> DEFINE Targets(id) == TargetsOf(p, renaming, call, id)
           m == callee.dangling
           seq == Ordered(DOMAIN m)
           k == Len(seq)
           S == States(p)
           U == AllCauses(p)
           Step(t, x) == IF callee.dangling[x].kind = "AlreadyFlagged" THEN Flow(t, {})
                         ELSE MarkAll(p, t, Targets(x), Append(callee.dangling[x].path, call))
           G == [x \in (1..k) \X S |-> Step(x[2], seq[x[1]])]
           Is(r) == r = [i \in 0..k |-> IF i = 0 THEN Flow(s, {})
                                        ELSE Flow(Step(r[i - 1].value, seq[i]).value,
                                                  r[i - 1].warnings \cup Step(r[i - 1].value, seq[i]).warnings)]
           c == CHOOSE r : Is(r)
<1>1. k \in Nat /\ \A i \in 1..k : seq[i] \in DOMAIN m
  <2>1. DOMAIN p.ids = 1..Len(p.ids) /\ Len(p.ids) \in Nat
    BY DEF IsListed
  <2>2. IsFiniteSet(DOMAIN p.ids)
    BY <2>1, FS_Interval
  <2>3. DOMAIN m \subseteq DOMAIN p.ids
    BY StatesAre, MapsAre
  <2>4. IsFiniteSet(DOMAIN m) /\ DOMAIN m \subseteq Nat
    <3> HIDE DEF m
    <3> QED BY <2>1, <2>2, <2>3, FS_Subset
  <2> HIDE DEF m
  <2> QED BY <2>4, OrderedIs
<1>2. collect_freed_objects_from_called_function(p, s, callee, renaming, call) = c[k].value
  BY DEF collect_freed_objects_from_called_function, InTurn, TargetsOf
<1> HIDE DEF seq, k, S, U
<1>3. \A i \in 1..k : \A t \in S : Step(t, seq[i]).value \in S /\ Step(t, seq[i]).warnings \in Finites(U)
  <2> SUFFICES ASSUME NEW x \in DOMAIN m, NEW t \in S
               PROVE  Step(t, x).value \in S /\ Step(t, x).warnings \in Finites(U)
    BY <1>1
  <2>1. m \in [DOMAIN m -> ObjectStates]
    BY StatesAre, MapsAre
  <2>2. m[x] \in ObjectStates
    BY <2>1
  <2>3. m[x].path \in Seq(Int)
    BY <2>2 DEF ObjectStates
  <2>4. Append(m[x].path, call) \in Seq(Int)
    <3> HIDE DEF m
    <3> QED BY <2>3
  <2>5. Targets(x) \subseteq DOMAIN p.ids
    BY NonRecursive DEF TargetsOf
  <2>6. /\ MarkAll(p, t, Targets(x), Append(m[x].path, call)).value \in S
        /\ MarkAll(p, t, Targets(x), Append(m[x].path, call)).warnings \in Finites(U)
    <3> HIDE DEF Targets, m
    <3> QED BY <2>4, <2>5, MarkAllTyped DEF S, U
  <2>7. Flow(t, {}).value = t /\ Flow(t, {}).warnings \in Finites(U)
    BY <2>6, FinitesGrow DEF Flow
  <2> HIDE DEF Targets
  <2> QED BY <2>6, <2>7
<1> HIDE DEF Step
<1>4. \A i \in 1..k : \A t \in S : G[<<i, t>>] = Step(t, seq[i])
  OBVIOUS
<1>5. Keeps(G, k, S, U)
  BY <1>3 DEF Keeps
<1> HIDE DEF G
<1>6. s \in S
  BY DEF S
<1>7. PICK r : Turns(r, k, S, s, G)
  BY <1>1, <1>5, <1>6, TurnsExist
<1>8. Is(r)
  <2>1. r = [i \in 0..k |-> r[i]] /\ r[0] = Flow(s, {}) /\ \A i \in 0..k : r[i].value \in S
    BY <1>7 DEF Turns
  <2>2. \A i \in 1..k : r[i] = Flow(G[<<i, r[i - 1].value>>].value,
                                 r[i - 1].warnings \cup G[<<i, r[i - 1].value>>].warnings)
    BY <1>7 DEF Turns
  <2>3. \A i \in 1..k : r[i - 1].value \in S
    BY <1>1, <2>1
  <2>4. \A i \in 1..k : G[<<i, r[i - 1].value>>] = Step(r[i - 1].value, seq[i])
    BY <1>4, <2>3
  <2>5. ASSUME NEW i \in 0..k
        PROVE  r[i] = IF i = 0 THEN Flow(s, {})
                      ELSE Flow(Step(r[i - 1].value, seq[i]).value,
                                r[i - 1].warnings \cup Step(r[i - 1].value, seq[i]).warnings)
    <3>1. i = 0 \/ i \in 1..k
      BY <1>1
    <3> QED BY <2>1, <2>2, <2>4, <3>1
  <2> QED BY <2>1, <2>5, Zenon
<1>9. Is(c)
  BY <1>8
<1> HIDE DEF c
<1>10. c[0] = Flow(s, {})
  BY <1>1, <1>9
<1>11. ASSUME NEW i \in 1..k PROVE Adds(c, i, Step(c[i - 1].value, seq[i]))
  <2>1. i \in 0..k /\ i # 0
    BY <1>1
  <2>2. c[i] = Flow(Step(c[i - 1].value, seq[i]).value,
                    c[i - 1].warnings \cup Step(c[i - 1].value, seq[i]).warnings)
    BY <1>9, <2>1
  <2> QED BY <2>2 DEF Flow, Adds
<1>12. Follows(c, k, S, s, G)
  BY <1>4, <1>10, <1>11 DEF Follows, Adds
<1>13. \A i \in 0..k : c[i].value \in S /\ c[i].warnings \in Finites(U)
  BY <1>1, <1>5, <1>6, <1>12, TurnsTyped
<1>14. Taken(c, k, s, S, U, c[k])
  BY <1>1, <1>10, <1>13 DEF Taken
<1> QED BY <1>2, <1>11, <1>14 DEF Step, seq, k, S, U

\* Collecting freed objects keeps the type of a state.
LEMMA CollectTyped ==
  ASSUME NEW p, NEW s \in States(p), NEW callee \in States(p), NEW call \in Int, NEW renaming, IsListed(p.ids),
         \A id \in DOMAIN renaming : renaming[id] \subseteq DOMAIN p.ids
  PROVE  collect_freed_objects_from_called_function(p, s, callee, renaming, call) \in States(p)
<1> DEFINE k == Len(Ordered(DOMAIN callee.dangling))
           S == States(p)
           U == AllCauses(p)
           result == collect_freed_objects_from_called_function(p, s, callee, renaming, call)
<1>1. \E c : Taken(c, k, s, S, U, c[k]) /\ result = c[k].value
  <2>1. \E c : /\ Taken(c, k, s, S, U, c[k])
               /\ result = c[k].value
               /\ \A i \in 1..k :
                    Adds(c, i, IF callee.dangling[Ordered(DOMAIN callee.dangling)[i]].kind = "AlreadyFlagged"
                               THEN Flow(c[i - 1].value, {})
                               ELSE MarkAll(p, c[i - 1].value,
                                            TargetsOf(p, renaming, call, Ordered(DOMAIN callee.dangling)[i]),
                                            Append(callee.dangling[Ordered(DOMAIN callee.dangling)[i]].path, call)))
    BY CollectTurns, Zenon
  <2> HIDE DEF k, S, U, result
  <2> QED BY <2>1, Zenon
<1> HIDE DEF k, S, U, result
<1>2. PICK c : Taken(c, k, s, S, U, c[k]) /\ result = c[k].value
  BY <1>1
<1>3. result \in S
  BY <1>2 DEF Taken
<1> QED BY <1>3 DEF result, S

\* The arguments of a call are checked one after the other.
LEMMA ParamsTurns ==
  ASSUME NEW p, IsListed(p.ids), NEW s \in States(p), NEW seq, IsListed(seq)
  PROVE  \E c : /\ Taken(c, Len(seq), s, States(p), AllCauses(p), collect_cwe_warnings_of_call_params(s, seq))
               /\ \A i \in 1..Len(seq) : Adds(c, i, IF seq[i] = None THEN Flow(c[i - 1].value, {})
                              ELSE check_address_for_use_after_free(c[i - 1].value, seq[i]))
<1> DEFINE k == Len(seq)
           S == States(p)
           U == AllCauses(p)
           Step(t, x) == IF x = None THEN Flow(t, {}) ELSE check_address_for_use_after_free(t, x)
           G == [x \in (1..k) \X S |-> Step(x[2], seq[x[1]])]
           Is(r) == r = [i \in 0..k |-> IF i = 0 THEN Flow(s, {})
                                        ELSE Flow(Step(r[i - 1].value, seq[i]).value,
                                                  r[i - 1].warnings \cup Step(r[i - 1].value, seq[i]).warnings)]
           c == CHOOSE r : Is(r)
<1>1. k \in Nat
  BY DEF IsListed
<1>2. collect_cwe_warnings_of_call_params(s, seq) = c[k]
  BY DEF collect_cwe_warnings_of_call_params, InTurn
<1> HIDE DEF k, S, U
<1>3. \A i \in 1..k : \A t \in S : Step(t, seq[i]).value \in S /\ Step(t, seq[i]).warnings \in Finites(U)
  <2>1. \A t : Flow(t, {}).value = t /\ Flow(t, {}).warnings = {}
    BY DEF Flow
  <2>2. {} \in Finites(U)
    BY FS_EmptySet DEF Finites
  <2> QED BY <2>1, <2>2, CheckTyped DEF S, U
<1> HIDE DEF Step
<1>4. \A i \in 1..k : \A t \in S : G[<<i, t>>] = Step(t, seq[i])
  OBVIOUS
<1>5. Keeps(G, k, S, U)
  BY <1>3 DEF Keeps
<1> HIDE DEF G
<1>6. s \in S
  BY DEF S
<1>7. PICK r : Turns(r, k, S, s, G)
  BY <1>1, <1>5, <1>6, TurnsExist
<1>8. Is(r)
  <2>1. r = [i \in 0..k |-> r[i]] /\ r[0] = Flow(s, {}) /\ \A i \in 0..k : r[i].value \in S
    BY <1>7 DEF Turns
  <2>2. \A i \in 1..k : r[i] = Flow(G[<<i, r[i - 1].value>>].value,
                                 r[i - 1].warnings \cup G[<<i, r[i - 1].value>>].warnings)
    BY <1>7 DEF Turns
  <2>3. \A i \in 1..k : r[i - 1].value \in S
    BY <1>1, <2>1
  <2>4. \A i \in 1..k : G[<<i, r[i - 1].value>>] = Step(r[i - 1].value, seq[i])
    BY <1>4, <2>3
  <2>5. ASSUME NEW i \in 0..k
        PROVE  r[i] = IF i = 0 THEN Flow(s, {})
                      ELSE Flow(Step(r[i - 1].value, seq[i]).value,
                                r[i - 1].warnings \cup Step(r[i - 1].value, seq[i]).warnings)
    <3>1. i = 0 \/ i \in 1..k
      BY <1>1
    <3> QED BY <2>1, <2>2, <2>4, <3>1
  <2> QED BY <2>1, <2>5, Zenon
<1>9. Is(c)
  BY <1>8
<1> HIDE DEF c
<1>10. c[0] = Flow(s, {})
  BY <1>1, <1>9
<1>11. ASSUME NEW i \in 1..k PROVE Adds(c, i, Step(c[i - 1].value, seq[i]))
  <2>1. i \in 0..k /\ i # 0
    BY <1>1
  <2>2. c[i] = Flow(Step(c[i - 1].value, seq[i]).value,
                    c[i - 1].warnings \cup Step(c[i - 1].value, seq[i]).warnings)
    BY <1>9, <2>1
  <2> QED BY <2>2 DEF Flow, Adds
<1>12. Follows(c, k, S, s, G)
  BY <1>4, <1>10, <1>11 DEF Follows, Adds
<1>13. \A i \in 0..k : c[i].value \in S /\ c[i].warnings \in Finites(U)
  BY <1>1, <1>5, <1>6, <1>12, TurnsTyped
<1>14. Taken(c, k, s, S, U, collect_cwe_warnings_of_call_params(s, seq))
  BY <1>1, <1>2, <1>10, <1>13 DEF Taken
<1> QED BY <1>11, <1>14 DEF Step, k, S, U

\* Checking arguments keeps the type of a state.
LEMMA ParamsTyped ==
  ASSUME NEW p, IsListed(p.ids), NEW s \in States(p), NEW seq, IsListed(seq)
  PROVE  /\ collect_cwe_warnings_of_call_params(s, seq).value \in States(p)
         /\ collect_cwe_warnings_of_call_params(s, seq).warnings \in Finites(AllCauses(p))
<1> PICK c : Taken(c, Len(seq), s, States(p), AllCauses(p), collect_cwe_warnings_of_call_params(s, seq))
  BY ParamsTurns
<1> QED BY DEF Taken

\* The warnings that the check may send.
AllWarnings(p) == [name : {415, 416}, tid : Nat, causes : Finites(AllCauses(p)), fn : DOMAIN p.entry]

\* Causes make at most one warning.
LEMMA WarningTyped ==
  ASSUME NEW p, NEW name \in {415, 416}, NEW tid \in Nat, NEW causes \in Finites(AllCauses(p)),
         NEW fn \in DOMAIN p.entry
  PROVE  WarningContext(name, tid, causes, fn) \in Finites(AllWarnings(p))
<1> DEFINE w == [name |-> name, tid |-> tid, causes |-> causes, fn |-> fn]
<1>1. w \in AllWarnings(p)
  BY DEF AllWarnings
<1>2. WarningContext(name, tid, causes, fn) \in {{}, {w}}
  BY DEF WarningContext
<1> HIDE DEF w
<1>3. {} \in Finites(AllWarnings(p)) /\ {w} \in Finites(AllWarnings(p))
  BY <1>1, FS_EmptySet, FS_Singleton DEF Finites
<1> QED BY <1>2, <1>3

\* The definitions of a block are handled one after the other.
LEMMA DefsTurns ==
  ASSUME NEW p, IsListed(p.ids), NEW s \in States(p), NEW b \in Nat, IsListed(p.blks[b].defs)
  PROVE  \E c : /\ Taken(c, Len(p.blks[b].defs), s, States(p), AllWarnings(p), BlockFlow(p, s, b))
               /\ \A i \in 1..Len(p.blks[b].defs) :
                    Adds(c, i, update_def(c[i - 1].value, p.blks[b].defs[i], Tid(b, i)))
<1> DEFINE seq == [i \in DOMAIN p.blks[b].defs |-> i]
           k == Len(seq)
           S == States(p)
           U == AllWarnings(p)
           Step(t, x) == update_def(t, p.blks[b].defs[x], Tid(b, x))
           G == [x \in (1..k) \X S |-> Step(x[2], seq[x[1]])]
           Is(r) == r = [i \in 0..k |-> IF i = 0 THEN Flow(s, {})
                                        ELSE Flow(Step(r[i - 1].value, seq[i]).value,
                                                  r[i - 1].warnings \cup Step(r[i - 1].value, seq[i]).warnings)]
           c == CHOOSE r : Is(r)
<1>1. k \in Nat /\ k = Len(p.blks[b].defs) /\ \A i \in 1..k : seq[i] \in Nat /\ seq[i] = i
  <2>1. DOMAIN p.blks[b].defs = 1..Len(p.blks[b].defs) /\ Len(p.blks[b].defs) \in Nat
    BY DEF IsListed
  <2>2. seq \in Seq(Nat)
    <3>1. seq \in [1..Len(p.blks[b].defs) -> Nat]
      BY <2>1
    <3> HIDE DEF seq
    <3> QED BY <2>1, <3>1
  <2>3. DOMAIN seq = 1..Len(p.blks[b].defs) /\ \A i \in 1..Len(p.blks[b].defs) : seq[i] = i
    BY <2>1
  <2> HIDE DEF seq
  <2>4. DOMAIN seq = 1..Len(seq) /\ Len(seq) \in Nat
    BY <2>2
  <2> QED BY <2>1, <2>2, <2>3, <2>4
<1>2. BlockFlow(p, s, b) = c[k]
  BY DEF BlockFlow, InTurn
<1> HIDE DEF seq, k, S, U
<1>3. \A i \in 1..k : \A t \in S : Step(t, seq[i]).value \in S /\ Step(t, seq[i]).warnings \in Finites(U)
  <2> SUFFICES ASSUME NEW x \in Nat, NEW t \in S PROVE Step(t, x).value \in S /\ Step(t, x).warnings \in Finites(U)
    BY <1>1
  <2> DEFINE flow == check_address_for_use_after_free(t, p.blks[b].defs[x].at)
  <2>1. CASE p.blks[b].defs[x].at = None
    <3>1. Step(t, x).value = t /\ Step(t, x).warnings = {}
      BY <2>1 DEF update_def, Flow
    <3> QED BY <3>1, FS_EmptySet DEF Finites
  <2>2. CASE p.blks[b].defs[x].at # None
    <3>1. Step(t, x).value = flow.value /\ Step(t, x).warnings = WarningContext(416, Tid(b, x), flow.warnings, flow.value.fn)
      BY <2>2 DEF update_def, UseWarning, Flow
    <3>2. flow.value \in S /\ flow.warnings \in Finites(AllCauses(p)) /\ flow.value.fn \in DOMAIN p.entry
      BY CheckTyped, StatesAre DEF S
    <3>3. Tid(b, x) \in Nat
      BY DEF Tid
    <3> HIDE DEF flow, Step
    <3> QED BY <3>1, <3>2, <3>3, WarningTyped DEF U
  <2> QED BY <2>1, <2>2
<1> HIDE DEF Step
<1>4. \A i \in 1..k : \A t \in S : G[<<i, t>>] = Step(t, seq[i])
  OBVIOUS
<1>5. Keeps(G, k, S, U)
  BY <1>3 DEF Keeps
<1> HIDE DEF G
<1>6. s \in S
  BY DEF S
<1>7. PICK r : Turns(r, k, S, s, G)
  BY <1>1, <1>5, <1>6, TurnsExist
<1>8. Is(r)
  <2>1. r = [i \in 0..k |-> r[i]] /\ r[0] = Flow(s, {}) /\ \A i \in 0..k : r[i].value \in S
    BY <1>7 DEF Turns
  <2>2. \A i \in 1..k : r[i] = Flow(G[<<i, r[i - 1].value>>].value,
                                 r[i - 1].warnings \cup G[<<i, r[i - 1].value>>].warnings)
    BY <1>7 DEF Turns
  <2>3. \A i \in 1..k : r[i - 1].value \in S
    BY <1>1, <2>1
  <2>4. \A i \in 1..k : G[<<i, r[i - 1].value>>] = Step(r[i - 1].value, seq[i])
    BY <1>4, <2>3
  <2>5. ASSUME NEW i \in 0..k
        PROVE  r[i] = IF i = 0 THEN Flow(s, {})
                      ELSE Flow(Step(r[i - 1].value, seq[i]).value,
                                r[i - 1].warnings \cup Step(r[i - 1].value, seq[i]).warnings)
    <3>1. i = 0 \/ i \in 1..k
      BY <1>1
    <3> QED BY <2>1, <2>2, <2>4, <3>1
  <2> QED BY <2>1, <2>5, Zenon
<1>9. Is(c)
  BY <1>8
<1> HIDE DEF c
<1>10. c[0] = Flow(s, {})
  BY <1>1, <1>9
<1>11. ASSUME NEW i \in 1..k PROVE Adds(c, i, Step(c[i - 1].value, seq[i]))
  <2>1. i \in 0..k /\ i # 0
    BY <1>1
  <2>2. c[i] = Flow(Step(c[i - 1].value, seq[i]).value,
                    c[i - 1].warnings \cup Step(c[i - 1].value, seq[i]).warnings)
    BY <1>9, <2>1
  <2> QED BY <2>2 DEF Flow, Adds
<1>12. Follows(c, k, S, s, G)
  BY <1>4, <1>10, <1>11 DEF Follows, Adds
<1>13. \A i \in 0..k : c[i].value \in S /\ c[i].warnings \in Finites(U)
  BY <1>1, <1>5, <1>6, <1>12, TurnsTyped
<1>14. Taken(c, k, s, S, U, BlockFlow(p, s, b))
  BY <1>1, <1>2, <1>10, <1>13 DEF Taken
<1> QED BY <1>1, <1>11, <1>14 DEF Step, S, U

\* Handling definitions keeps the type of a state.
LEMMA DefsTyped ==
  ASSUME NEW p, IsListed(p.ids), NEW s \in States(p), NEW b \in Nat, IsListed(p.blks[b].defs)
  PROVE  BlockFlow(p, s, b).value \in States(p) /\ BlockFlow(p, s, b).warnings \in Finites(AllWarnings(p))
<1> PICK c : Taken(c, Len(p.blks[b].defs), s, States(p), AllWarnings(p), BlockFlow(p, s, b))
  BY DefsTurns
<1> QED BY DEF Taken

\* Of two paths the shorter is kept, of equally long ones the smaller.
LEMMA ShortestIs ==
  ASSUME NEW p \in Seq(Int), NEW q \in Seq(Int)
  PROVE  \/ Shortest(p, q) = p
         \/ /\ Shortest(p, q) = q
            /\ Len(q) < Len(p) \/ (Len(q) = Len(p) /\ LexLess(q, p))
<1> SUFFICES ASSUME Shortest(p, q) # p
             PROVE  Shortest(p, q) = q /\ (Len(q) < Len(p) \/ (Len(q) = Len(p) /\ LexLess(q, p)))
  OBVIOUS
<1>1. Shortest(p, q) = q /\ q # p /\ ~(Len(p) < Len(q)) /\ ~(Len(p) = Len(q) /\ LexLess(p, q))
  BY DEF Shortest
<1>2. Len(p) \in Nat /\ Len(q) \in Nat /\ p \in [1..Len(p) -> Int] /\ q \in [1..Len(q) -> Int]
  OBVIOUS
<1>3. CASE Len(p) = Len(q)
  <2> DEFINE D == {i \in 1..Len(p) : p[i] # q[i]}
  <2>1. D # {}
    BY <1>1, <1>2, <1>3
  <2>2. PICK i \in D : \A j \in D : i <= j
    <3>1. D \subseteq Nat
      OBVIOUS
    <3> HIDE DEF D
    <3> QED BY <2>1, <3>1, LeastNat
  <2>3. \A j \in 1..(i - 1) : p[j] = q[j]
    <3> SUFFICES ASSUME NEW j \in 1..(i - 1), p[j] # q[j] PROVE FALSE
      OBVIOUS
    <3>1. j \in 1..Len(p) /\ ~(i <= j)
      BY <1>2, <2>2
    <3> QED BY <2>2, <3>1
  <2>4. i \in DOMAIN p /\ i \in DOMAIN q /\ p[i] \in Int /\ q[i] \in Int /\ p[i] # q[i]
    BY <1>2, <1>3, <2>2
  <2>5. ~(p[i] < q[i])
    BY <1>1, <1>3, <2>3, <2>4 DEF LexLess
  <2>6. q[i] < p[i]
    BY <2>4, <2>5
  <2>7. LexLess(q, p)
    BY <2>3, <2>4, <2>6 DEF LexLess
  <2> QED BY <1>1, <1>3, <2>7
<1>4. CASE Len(p) # Len(q)
  <2>1. ASSUME NEW k \in Nat, NEW l \in Nat, k # l, ~(k < l) PROVE l < k
    BY <2>1
  <2>2. Len(q) < Len(p)
    BY <1>1, <1>2, <1>4, <2>1
  <2> QED BY <1>1, <2>2
<1> QED BY <1>3, <1>4

\* Merged objects are above the old ones.
LEMMA MergeObjectUp ==
  ASSUME NEW a \in ObjectStates, NEW b \in ObjectStates
  PROVE  merge_object(a, b) \in ObjectStates /\ ObjectAbove(merge_object(a, b), a)
<1>1. /\ a.kind \in {"Dangling", "AlreadyFlagged"} /\ b.kind \in {"Dangling", "AlreadyFlagged"}
      /\ a.path \in Seq(Int) /\ b.path \in Seq(Int) /\ a = [kind |-> a.kind, path |-> a.path]
  BY DEF ObjectStates
<1>2. CASE a.kind = b.kind
  <2>1. merge_object(a, b) = [kind |-> a.kind, path |-> Shortest(a.path, b.path)]
    BY <1>2 DEF merge_object, ObjectState
  <2>2. CASE Shortest(a.path, b.path) = a.path
    BY <1>1, <2>1, <2>2 DEF ObjectAbove
  <2>3. CASE /\ Shortest(a.path, b.path) = b.path
             /\ Len(b.path) < Len(a.path) \/ (Len(b.path) = Len(a.path) /\ LexLess(b.path, a.path))
    <3> DEFINE o == [kind |-> a.kind, path |-> b.path]
    <3>1. o \in ObjectStates
      BY <1>1 DEF ObjectStates
    <3>2. o.kind = a.kind /\ o.path = b.path
      OBVIOUS
    <3> HIDE DEF o
    <3>3. ObjectAbove(o, a)
      BY <2>3, <3>2 DEF ObjectAbove
    <3> QED BY <2>1, <2>3, <3>1, <3>3 DEF o
  <2> QED BY <1>1, <2>2, <2>3, ShortestIs
<1>3. CASE a.kind # b.kind
  <2>1. merge_object(a, b) = IF a.kind = "AlreadyFlagged" THEN a ELSE b
    BY <1>3 DEF merge_object
  <2> QED BY <1>1, <1>3, <2>1 DEF ObjectAbove
<1> QED BY <1>2, <1>3

\* A merge of maps has the objects of the first one, with no longer path and no
\* flag lost.
LEMMA MergeMapUp ==
  ASSUME NEW p, NEW m \in ObjectMaps(p), NEW n \in ObjectMaps(p)
  PROVE  merge_map(m, n) \in ObjectMaps(p) /\ MapAbove(merge_map(m, n), m)
<1> DEFINE D == DOMAIN m \cup DOMAIN n
           r == merge_map(m, n)
<1>1. /\ m \in [DOMAIN m -> ObjectStates] /\ n \in [DOMAIN n -> ObjectStates]
      /\ D \in SUBSET DOMAIN p.ids
  BY MapsAre
<1>2. r = [id \in D |-> IF id \notin DOMAIN n THEN m[id] ELSE IF id \notin DOMAIN m THEN n[id]
                        ELSE merge_object(m[id], n[id])]
  BY DEF merge_map
<1> HIDE DEF r
<1>3. ASSUME NEW id \in D PROVE r[id] \in ObjectStates /\ (id \in DOMAIN m => ObjectAbove(r[id], m[id]))
  <2>1. CASE id \notin DOMAIN n
    BY <1>1, <1>2, <2>1 DEF ObjectAbove
  <2>2. CASE id \notin DOMAIN m
    BY <1>1, <1>2, <2>2
  <2>3. CASE id \in DOMAIN m /\ id \in DOMAIN n
    <3>1. m[id] \in ObjectStates /\ n[id] \in ObjectStates
      BY <1>1, <2>3
    <3>2. r[id] = merge_object(m[id], n[id])
      BY <1>2, <2>3
    <3> QED BY <3>1, <3>2, MergeObjectUp
  <2> QED BY <2>1, <2>2, <2>3
<1>4. DOMAIN r = D /\ r = [id \in D |-> r[id]]
  BY <1>2
<1>5. r \in [D -> ObjectStates]
  BY <1>3, <1>4
<1>6. r \in ObjectMaps(p)
  BY <1>1, <1>5, MapsAre
<1>7. MapAbove(r, m)
  BY <1>3, <1>4 DEF MapAbove
<1> QED BY <1>6, <1>7 DEF r

\* A merge only moves a state upwards.
LEMMA MergeUp ==
  ASSUME NEW p, None \notin States(p), NEW s \in States(p), NEW t \in States(p)
  PROVE  merge(s, t) \in States(p) /\ StateAbove(merge(s, t), s)
<1> DEFINE d == merge_map(s.dangling, t.dangling)
           c == merge_map(s.same_call, t.same_call)
<1>1. /\ s.dangling \in ObjectMaps(p) /\ s.same_call \in ObjectMaps(p)
      /\ t.dangling \in ObjectMaps(p) /\ t.same_call \in ObjectMaps(p)
  BY StatesAre
<1>2. /\ d \in ObjectMaps(p) /\ MapAbove(d, s.dangling)
      /\ c \in ObjectMaps(p) /\ MapAbove(c, s.same_call)
  BY <1>1, MergeMapUp
<1>3. merge(s, t) = [s EXCEPT !.dangling = d, !.same_call = c]
  BY DEF merge
<1> HIDE DEF d, c
<1>4. merge(s, t) \in States(p)
  <2>1. [s EXCEPT !.dangling = d, !.same_call = c] \in States(p)
    BY <1>2 DEF States
  <2> QED BY <1>3, <2>1, Zenon
<1>5. merge(s, t).fn = s.fn /\ merge(s, t).dangling = d /\ merge(s, t).same_call = c
  BY <1>3 DEF States
<1> QED BY <1>2, <1>4, <1>5 DEF StateAbove

\* Every state is above itself.
LEMMA SameAbove ==
  ASSUME NEW s
  PROVE  StateAbove(s, s)
BY DEF StateAbove, MapAbove, ObjectAbove

\* A merge with a missing state is the other state, and above the first.
LEMMA OptionUp ==
  ASSUME NEW p, None \notin States(p), NEW v \in States(p) \cup {None}, NEW w \in States(p) \cup {None}
  PROVE  MergeOption(v, w) \in States(p) \cup {None} /\ StateAbove(MergeOption(v, w), v)
<1>1. CASE v = None \/ w = None
  BY <1>1, SameAbove DEF MergeOption, StateAbove
<1>2. CASE v # None /\ w # None
  BY <1>2, MergeUp DEF MergeOption
<1> QED BY <1>1, <1>2

\* A call passes the arguments' states on, and free marks its argument.
LEMMA StubTyped ==
  ASSUME input \in Inputs, NEW b \in DOMAIN prog.blks, NEW v \in States(prog),
         FirstJmp(prog, b).kind \in {"ExternCall", "CallInd"}
  PROVE  LET flow == update_call_stub(prog, v, FirstJmp(prog, b), JmpTid(prog, b, 1))
         IN  flow.value \in States(prog) /\ flow.warnings \in Finites(AllWarnings(prog))
<1> DEFINE p == prog
           j == FirstJmp(p, b)
           tid == JmpTid(p, b, 1)
           stub == update_call_stub(p, v, j, tid)
<1> SUFFICES stub.value \in States(p) /\ stub.warnings \in Finites(AllWarnings(p))
  OBVIOUS
<1>1. ObjectsAreKnown(p)
  BY ProgramsHaveObjects DEF prog
<1>2. IsListed(p.ids) /\ IsListed(j.args) /\ tid \in Nat
  <2>1. IsListed(p.blks[b].defs) /\ b \in Nat /\ IsListed(p.ids) /\ IsListed(j.args)
    BY <1>1 DEF ObjectsAreKnown
  <2>2. Len(p.blks[b].defs) \in Nat
    BY <2>1 DEF IsListed
  <2> QED BY <2>1, <2>2 DEF JmpTid, Tid
<1>3. j.kind = "ExternCall" /\ j.args # <<>> => j.args[1] = None \/ j.args[1] \subseteq DOMAIN p.ids
  BY <1>1 DEF ObjectsAreKnown
<1>4. v \in States(p) /\ v.fn \in DOMAIN p.entry
  BY StatesAre
<1> HIDE DEF p, j, tid
<1>5. CASE j.kind = "ExternCall" /\ j.target = "free"
  <2>1. stub = handle_call_to_free(p, v, j, tid)
    BY <1>5 DEF update_call_stub
  <2>2. CASE j.args = <<>> \/ j.args[1] = None
    <3>1. stub.value = v /\ stub.warnings = {}
      BY <2>1, <2>2 DEF handle_call_to_free, Flow
    <3> QED BY <1>4, <3>1, FS_EmptySet DEF Finites
  <2>3. CASE ~(j.args = <<>> \/ j.args[1] = None)
    <3> DEFINE ids == get_non_recursive_ids(p, j.args[1])
               flow == MarkAll(p, v, ids, <<tid>>)
    <3>1. stub.value = flow.value /\ stub.warnings = WarningContext(415, tid, flow.warnings, v.fn)
      BY <2>1, <2>3 DEF handle_call_to_free, handle_param_of_free_call, Flow
    <3>2. ids \subseteq DOMAIN p.ids /\ <<tid>> \in Seq(Int)
      BY <1>2, <1>3, <1>5, <2>3, NonRecursive
    <3> HIDE DEF ids
    <3>3. flow.value \in States(p) /\ flow.warnings \in Finites(AllCauses(p))
      BY <1>2, <1>4, <3>2, MarkAllTyped
    <3> HIDE DEF flow, stub
    <3>4. WarningContext(415, tid, flow.warnings, v.fn) \in Finites(AllWarnings(p))
      BY <1>2, <1>4, <3>3, WarningTyped
    <3> QED BY <3>1, <3>3, <3>4
  <2> QED BY <2>2, <2>3
<1>6. CASE ~(j.kind = "ExternCall" /\ j.target = "free")
  <2> DEFINE flow == collect_cwe_warnings_of_call_params(v, j.args)
  <2>1. stub.value = flow.value /\ stub.warnings = WarningContext(416, tid, flow.warnings, flow.value.fn)
    BY <1>6 DEF update_call_stub, UseWarning, Flow
  <2>2. flow.value \in States(p) /\ flow.warnings \in Finites(AllCauses(p))
    BY <1>2, <1>4, ParamsTyped
  <2> HIDE DEF flow, stub
  <2>3. flow.value.fn \in DOMAIN p.entry
    BY <2>2, StatesAre
  <2> QED BY <1>2, <2>1, <2>2, <2>3, WarningTyped
<1> QED BY <1>5, <1>6

\* A call of an internal function checks its arguments.
LEMMA CallTyped ==
  ASSUME NEW p, IsListed(p.ids), NEW s \in States(p), NEW j, IsListed(j.args), NEW tid \in Nat
  PROVE  LET flow == check_internal_call_params_for_use_after_free(s, j, tid)
         IN  flow.value \in States(p) /\ flow.warnings \in Finites(AllWarnings(p))
<1> DEFINE checked == check_internal_call_params_for_use_after_free(s, j, tid)
           flow == collect_cwe_warnings_of_call_params(s, j.args)
<1>1. checked.value = flow.value /\ checked.warnings = WarningContext(416, tid, flow.warnings, flow.value.fn)
  BY DEF check_internal_call_params_for_use_after_free, UseWarning, Flow
<1>2. flow.value \in States(p) /\ flow.warnings \in Finites(AllCauses(p))
  BY ParamsTyped
<1> HIDE DEF flow, checked
<1>3. flow.value.fn \in DOMAIN p.entry
  BY <1>2, StatesAre
<1>4. checked.value \in States(p) /\ checked.warnings \in Finites(AllWarnings(p))
  BY <1>1, <1>2, <1>3, WarningTyped
<1> QED BY <1>4 DEF checked

\* The transfer function of a return yields a state of the caller or none.
LEMMA ReturnTyped ==
  ASSUME input \in Inputs, NEW b \in DOMAIN prog.blks, FirstJmp(prog, b).kind = "Call",
         NEW v \in States(prog) \cup {None}, NEW w \in States(prog) \cup {None}
  PROVE  LET flow == update_return(prog, v, w, FirstJmp(prog, b), JmpTid(prog, b, 1))
         IN  flow.value \in States(prog) \cup {None} /\ flow.warnings \in Finites(AllWarnings(prog))
<1> DEFINE p == prog
           j == FirstJmp(p, b)
           tid == JmpTid(p, b, 1)
           result == update_return(p, v, w, j, tid)
<1> SUFFICES result.value \in States(p) \cup {None} /\ result.warnings \in Finites(AllWarnings(p))
  OBVIOUS
<1>1. ObjectsAreKnown(p)
  BY ProgramsHaveObjects DEF prog
<1>2. /\ IsListed(p.ids) /\ IsListed(j.args) /\ tid \in Nat
      /\ j.renaming # None => \A id \in DOMAIN j.renaming : j.renaming[id] \subseteq DOMAIN p.ids
  <2>1. /\ IsListed(p.blks[b].defs) /\ b \in Nat /\ IsListed(p.ids) /\ IsListed(j.args)
        /\ j.renaming # None => \A id \in DOMAIN j.renaming : j.renaming[id] \subseteq DOMAIN p.ids
    BY <1>1 DEF ObjectsAreKnown
  <2>2. Len(p.blks[b].defs) \in Nat
    BY <2>1 DEF IsListed
  <2> QED BY <2>1, <2>2 DEF JmpTid, Tid
<1> HIDE DEF j, tid
<1>3. CASE v = None \/ w = None \/ j.renaming = None
  <2>1. result.value = None /\ result.warnings = {}
    BY <1>3 DEF update_return, Flow
  <2> HIDE DEF result
  <2> QED BY <2>1, FS_EmptySet DEF Finites
<1>4. CASE ~(v = None \/ w = None \/ j.renaming = None)
  <2> DEFINE checked == check_internal_call_params_for_use_after_free(w, j, tid)
  <2>1. v \in States(p) /\ w \in States(p)
    BY <1>4
  <2>2. checked.value \in States(p) /\ checked.warnings \in Finites(AllWarnings(p))
    BY <1>2, <2>1, CallTyped
  <2>3. /\ result.value = collect_freed_objects_from_called_function(p, checked.value, v, j.renaming, tid)
        /\ result.warnings = checked.warnings
    BY <1>4 DEF update_return, Flow
  <2> HIDE DEF checked, result, p
  <2>4. collect_freed_objects_from_called_function(p, checked.value, v, j.renaming, tid) \in States(p)
    BY <1>2, <1>4, <2>1, <2>2, CollectTyped
  <2> QED BY <2>2, <2>3, <2>4
<1> QED BY <1>3, <1>4

\* What a node sends has the type of the values of the receiver.
LEMMA FlowsTyped ==
  ASSUME input \in Inputs, NEW n \in UafNodes(prog), NEW v \in NodeValues(prog, n),
         NEW f \in OutFlows(prog, v, n), f[2].value # None
  PROVE  f[2].value \in NodeValues(prog, f[1])
<1> DEFINE p == prog
           b == n[2]
           j == FirstJmp(p, b)
           tid == JmpTid(p, b, 1)
<1>1. IsNormal(p) /\ ObjectsAreKnown(p)
  BY ProgramsAreNormal, ProgramsHaveObjects DEF prog
<1>2. /\ b \in DOMAIN p.blks
      /\ n[1] \in {"BlkStart", "BlkEnd", "CallReturn"}
      /\ n[1] = "CallReturn" => j.kind = "Call"
  BY DEF UafNodes, CallReturns, Start, End, CallReturn
<1>3. \A x : Start(x)[1] = "BlkStart" /\ End(x)[1] = "BlkEnd"
  BY DEF Start, End
<1>4. \A x : NodeValues(p, Start(x)) = States(p) /\ NodeValues(p, End(x)) = States(p)
  BY <1>3 DEF NodeValues
<1>5. \A m \in CallReturns(p) :
        NodeValues(p, m) = [call_stub : States(p) \cup {None}, flow : States(p) \cup {None}]
  <2>1. \A m \in CallReturns(p) : \E x, y : m = CallReturn(x, y)
    BY DEF CallReturns
  <2>2. \A m \in CallReturns(p) : m[1] = "CallReturn"
    BY <2>1 DEF CallReturn
  <2> QED BY <2>2 DEF NodeValues
<1>6. n[1] = "CallReturn" => v.call_stub \in States(p) \cup {None} /\ v.flow \in States(p) \cup {None}
  BY DEF NodeValues
<1>7. n[1] # "CallReturn" => v \in States(p)
  BY DEF NodeValues
<1> HIDE DEF p, b, j, tid
<1> USE <1>1
<1>8. CASE n[1] = "BlkStart"
  <2>1. f = <<End(b), BlockFlow(p, v, b)>>
    BY <1>8 DEF OutFlows, p, b
  <2>2. BlockFlow(p, v, b).value \in States(p)
    BY <1>2, <1>7, <1>8, DefsTyped DEF ObjectsAreKnown
  <2> QED BY <1>4, <2>1, <2>2 DEF p
<1>9. CASE n[1] = "CallReturn"
  <2>1. f = <<Start(j.return), update_return(p, v.flow, v.call_stub, j, tid)>>
    BY <1>9 DEF OutFlows, p, b, j, tid
  <2>2. update_return(p, v.flow, v.call_stub, j, tid).value \in States(p) \cup {None}
    BY <1>2, <1>6, <1>9, ReturnTyped DEF p, j, tid
  <2> QED BY <1>4, <2>1, <2>2 DEF p
<1>10. CASE n[1] = "BlkEnd" /\ j.kind = "Call"
  <2>1. OutFlows(p, v, n) = {<<Start(p.entry[j.target]), update_call(v, j, tid)>>}
               \cup {<<m, Flow([call_stub |-> v, flow |-> None], {})>> :
                       m \in {m \in CallReturns(p) : m[2] = b}}
    BY <1>10 DEF OutFlows, b, j, tid
  <2>2. f # <<Start(p.entry[j.target]), update_call(v, j, tid)>>
    BY DEF update_call, Flow
  <2>3. PICK m \in CallReturns(p) : f = <<m, Flow([call_stub |-> v, flow |-> None], {})>>
    BY <2>1, <2>2 DEF p
  <2>4. f[1] = m /\ f[2].value = [call_stub |-> v, flow |-> None]
    BY <2>3 DEF Flow
  <2>5. v \in States(p)
    BY <1>7, <1>10
  <2> QED BY <1>5, <2>4, <2>5 DEF p
<1>11. CASE n[1] = "BlkEnd" /\ j.kind = "Return"
  <2>1. OutFlows(p, v, n) = {<<m, Flow([call_stub |-> None, flow |-> v], {})>> : m \in {m \in CallReturns(p) : m[3] = b}}
    BY <1>11 DEF OutFlows, b, j
  <2>2. PICK m \in CallReturns(p) : f = <<m, Flow([call_stub |-> None, flow |-> v], {})>>
    BY <2>1 DEF p
  <2>3. f[1] = m /\ f[2].value = [call_stub |-> None, flow |-> v]
    BY <2>2 DEF Flow
  <2>4. v \in States(p)
    BY <1>7, <1>11
  <2> QED BY <1>5, <2>3, <2>4 DEF p
<1>12. CASE n[1] = "BlkEnd" /\ j.kind \in {"ExternCall", "CallInd"}
  <2>1. f = <<Start(j.return), update_call_stub(p, v, j, tid)>>
    BY <1>12 DEF OutFlows, p, b, j, tid
  <2>2. update_call_stub(p, v, j, tid).value \in States(p)
    BY <1>2, <1>7, <1>12, StubTyped DEF p, j, tid
  <2> QED BY <1>4, <2>1, <2>2 DEF p
<1>13. CASE n[1] = "BlkEnd" /\ j.kind \notin {"Call", "Return", "ExternCall", "CallInd"}
  <2>1. OutFlows(p, v, n) = {<<e[3], Flow(v, {})>> : e \in add_jump_edge(p, b)}
    BY <1>13 DEF OutFlows, b, j
  <2>2. PICK e \in add_jump_edge(p, b) : f = <<e[3], Flow(v, {})>>
    BY <2>1 DEF p
  <2>3. PICK t : e[3] = Start(t)
    BY <1>2, InterJumps, JumpEdges DEF IsNormal
  <2>4. f[1] = Start(t) /\ f[2].value = v
    BY <2>2, <2>3 DEF Flow
  <2> QED BY <1>4, <1>7, <1>13, <2>4 DEF p
<1> QED BY <1>2, <1>8, <1>9, <1>10, <1>11, <1>12, <1>13

\* A node sends finitely many warnings.
LEMMA FlowsWarn ==
  ASSUME input \in Inputs, NEW n \in UafNodes(prog), NEW v \in NodeValues(prog, n)
  PROVE  UNION {f[2].warnings : f \in OutFlows(prog, v, n)} \in Finites(AllWarnings(prog))
<1> DEFINE p == prog
           b == n[2]
           j == FirstJmp(p, b)
           tid == JmpTid(p, b, 1)
           flows == OutFlows(p, v, n)
           sent == UNION {f[2].warnings : f \in flows}
<1> SUFFICES sent \in Finites(AllWarnings(p))
  OBVIOUS
<1>1. ObjectsAreKnown(p)
  BY ProgramsHaveObjects DEF prog
<1>2. /\ b \in DOMAIN p.blks
      /\ n[1] \in {"BlkStart", "BlkEnd", "CallReturn"}
      /\ n[1] = "CallReturn" => j.kind = "Call"
  BY DEF UafNodes, CallReturns, Start, End, CallReturn
<1>3. n[1] = "CallReturn" => v.call_stub \in States(p) \cup {None} /\ v.flow \in States(p) \cup {None}
  BY DEF NodeValues
<1>4. n[1] # "CallReturn" => v \in States(p)
  BY DEF NodeValues
<1>5. IsListed(p.ids) /\ b \in Nat /\ IsListed(p.blks[b].defs) /\ (j.kind = "Call" => IsListed(j.args))
  BY <1>1, <1>2 DEF ObjectsAreKnown
<1>6. tid \in Nat
  <2>1. Len(p.blks[b].defs) \in Nat
    BY <1>5 DEF IsListed
  <2>2. \A l \in Nat : 100 * b + (l + 1) \in Nat
    BY <1>5
  <2>3. tid = 100 * b + (Len(p.blks[b].defs) + 1)
    BY DEF JmpTid, Tid
  <2> HIDE DEF tid
  <2> QED BY <2>1, <2>2, <2>3
<1>7. {} \in Finites(AllWarnings(p))
  BY FS_EmptySet DEF Finites
<1>8. \A w : Flow(w, {}).warnings = {}
  BY DEF Flow
<1> HIDE DEF p, b, j, tid, flows
<1>9. CASE n[1] = "BlkStart"
  <2>1. flows = {<<End(b), BlockFlow(p, v, b)>>}
    BY <1>9 DEF OutFlows, flows, b
  <2>2. sent = BlockFlow(p, v, b).warnings
    BY <2>1
  <2>3. BlockFlow(p, v, b).warnings \in Finites(AllWarnings(p))
    BY <1>4, <1>5, <1>9, DefsTyped
  <2> QED BY <2>2, <2>3
<1>10. CASE n[1] = "CallReturn"
  <2> DEFINE flow == update_return(p, v.flow, v.call_stub, j, tid)
  <2>1. flows = {<<Start(j.return), flow>>}
    BY <1>10 DEF OutFlows, flows, b, j, tid
  <2>2. flow.warnings \in Finites(AllWarnings(p))
    BY <1>2, <1>3, <1>10, ReturnTyped DEF p, j, tid
  <2> HIDE DEF flow
  <2>3. sent = flow.warnings
    BY <2>1
  <2> QED BY <2>2, <2>3
<1>11. CASE n[1] = "BlkEnd" /\ j.kind = "Call"
  <2> DEFINE flow == update_call(v, j, tid)
             stubs == {<<m, Flow([call_stub |-> v, flow |-> None], {})>> : m \in {m \in CallReturns(p) : m[2] = b}}
  <2>1. flows = {<<Start(p.entry[j.target]), flow>>} \cup stubs
    BY <1>11 DEF OutFlows, flows, b, j, tid
  <2>2. \A f \in stubs : f[2].warnings = {}
    BY <1>8
  <2>3. flow.warnings = check_internal_call_params_for_use_after_free(v, j, tid).warnings
    BY DEF update_call, Flow
  <2>4. flow.warnings \in Finites(AllWarnings(p))
    BY <1>4, <1>5, <1>6, <1>11, <2>3, CallTyped
  <2> HIDE DEF flow, stubs
  <2>5. sent = flow.warnings
    <3> DEFINE x == <<Start(p.entry[j.target]), flow>>
    <3>1. x \in flows /\ x[2] = flow
      BY <2>1
    <3>2. \A f \in flows : f[2].warnings = {} \/ f[2].warnings = flow.warnings
      BY <2>1, <2>2
    <3> HIDE DEF x
    <3>3. \A w \in flow.warnings : w \in sent
      BY <3>1
    <3>4. \A w \in sent : w \in flow.warnings
      BY <3>2
    <3> HIDE DEF sent
    <3> QED BY <3>3, <3>4
  <2> QED BY <2>4, <2>5
<1>12. CASE n[1] = "BlkEnd" /\ j.kind = "Return"
  <2>1. flows = {<<m, Flow([call_stub |-> None, flow |-> v], {})>> : m \in {m \in CallReturns(p) : m[3] = b}}
    BY <1>12 DEF OutFlows, flows, b, j
  <2>2. \A f \in flows : f[2].warnings = {}
    BY <1>8, <2>1
  <2>3. sent = {}
    BY <2>2
  <2> QED BY <1>7, <2>3
<1>13. CASE n[1] = "BlkEnd" /\ j.kind \in {"ExternCall", "CallInd"}
  <2> DEFINE flow == update_call_stub(p, v, j, tid)
  <2>1. flows = {<<Start(j.return), flow>>}
    BY <1>13 DEF OutFlows, flows, b, j, tid
  <2>2. flow.warnings \in Finites(AllWarnings(p))
    BY <1>2, <1>4, <1>13, StubTyped DEF p, j, tid
  <2> HIDE DEF flow
  <2>3. sent = flow.warnings
    BY <2>1
  <2> QED BY <2>2, <2>3
<1>14. CASE n[1] = "BlkEnd" /\ j.kind \notin {"Call", "Return", "ExternCall", "CallInd"}
  <2>1. flows = {<<e[3], Flow(v, {})>> : e \in add_jump_edge(p, b)}
    BY <1>14 DEF OutFlows, flows, b, j
  <2>2. \A f \in flows : f[2].warnings = {}
    BY <1>8, <2>1
  <2>3. sent = {}
    BY <2>2
  <2> QED BY <1>7, <2>3
<1> HIDE DEF sent
<1> QED BY <1>2, <1>9, <1>10, <1>11, <1>12, <1>13, <1>14

\* The node values of the check have their types, and only nodes with a value
\* are in the worklist.
UafTyped ==
  /\ DOMAIN values = UafNodes(prog)
  /\ \A n \in UafNodes(prog) : values[n] = None \/ values[n] \in NodeValues(prog, n)
  /\ worklist \subseteq {n \in UafNodes(prog) : values[n] # None}

\* While CWE416 is checked, node values are typed; the warnings sent always are.
UafInv ==
  /\ input \in Inputs
  /\ raw \in Finites(AllWarnings(prog))
  /\ stage = "cwe416" => UafTyped

\* The value v2 of the node n is above v1.
NodeAbove(n, v2, v1) ==
  IF n[1] # "CallReturn" \/ v1 = None THEN StateAbove(v2, v1)
  ELSE StateAbove(v2.call_stub, v1.call_stub) /\ StateAbove(v2.flow, v1.flow)

\* The missing value is no value of a node.
LEMMA NoneIsNoNodeValue ==
  ASSUME input \in Inputs
  PROVE  None \notin States(prog) /\ \A n : None \notin NodeValues(prog, n)
<1>1. None \notin NodeValues(prog, <<"BlkStart">>) /\ None \notin NodeValues(prog, <<"CallReturn">>)
  BY NoneIsNoValue DEF prog
<1>2. NodeValues(prog, <<"BlkStart">>) = States(prog)
  BY DEF NodeValues
<1>3. \A n : NodeValues(prog, n) = States(prog) \/ NodeValues(prog, n) = NodeValues(prog, <<"CallReturn">>)
  BY DEF NodeValues
<1> QED BY <1>1, <1>2, <1>3

\* Merging a value into that of a node.
LEMMA MergeValuesUp ==
  ASSUME input \in Inputs, NEW n, NEW v, v = None \/ v \in NodeValues(prog, n), NEW w \in NodeValues(prog, n)
  PROVE  MergeValues(n, v, w) \in NodeValues(prog, n) /\ NodeAbove(n, MergeValues(n, v, w), v)
<1>1. None \notin States(prog)
  BY NoneIsNoNodeValue
<1>2. CASE v = None
  BY <1>2 DEF MergeValues, NodeAbove, StateAbove
<1>3. CASE v # None /\ n[1] # "CallReturn"
  <2>1. v \in States(prog) /\ w \in States(prog) /\ NodeValues(prog, n) = States(prog)
    BY <1>3 DEF NodeValues
  <2>2. MergeValues(n, v, w) = merge(v, w)
    BY <1>3 DEF MergeValues
  <2>3. merge(v, w) \in States(prog) /\ StateAbove(merge(v, w), v)
    BY <1>1, <2>1, MergeUp
  <2> QED BY <1>3, <2>1, <2>2, <2>3 DEF NodeAbove
<1>4. CASE v # None /\ n[1] = "CallReturn"
  <2> DEFINE O == States(prog) \cup {None}
             c == MergeOption(v.call_stub, w.call_stub)
             f == MergeOption(v.flow, w.flow)
  <2>1. NodeValues(prog, n) = [call_stub : O, flow : O]
    BY <1>4 DEF NodeValues
  <2>2. v.call_stub \in O /\ v.flow \in O /\ w.call_stub \in O /\ w.flow \in O
    <3> HIDE DEF O
    <3> QED BY <1>4, <2>1
  <2>3. c \in O /\ StateAbove(c, v.call_stub) /\ f \in O /\ StateAbove(f, v.flow)
    BY <1>1, <2>2, OptionUp
  <2>4. MergeValues(n, v, w) = [call_stub |-> c, flow |-> f]
    BY <1>4 DEF MergeValues
  <2> HIDE DEF O, c, f
  <2>5. [call_stub |-> c, flow |-> f] \in [call_stub : O, flow : O]
    BY <2>3
  <2>6. NodeAbove(n, [call_stub |-> c, flow |-> f], v)
    BY <1>4, <2>3 DEF NodeAbove
  <2> QED BY <2>1, <2>4, <2>5, <2>6
<1> QED BY <1>2, <1>3, <1>4

\* One step of the computation.
LEMMA UafStepUp ==
  ASSUME input \in Inputs, UafTyped, NEW n \in worklist
  PROVE  LET new == UafStep(values, OutFlows(prog, values[n], n))
         IN  /\ DOMAIN new = UafNodes(prog)
             /\ \A m \in UafNodes(prog) :
                  /\ new[m] = None \/ new[m] \in NodeValues(prog, m)
                  /\ new[m] # values[m] \/ values[m] # None => new[m] # None
                  /\ NodeAbove(m, new[m], values[m])
<1> DEFINE flows == OutFlows(prog, values[n], n)
           new == UafStep(values, flows)
           Incoming(m) == {f[2].value : f \in {f \in flows : f[1] = m}} \ {None}
<1>1. n \in UafNodes(prog) /\ values[n] \in NodeValues(prog, n)
  BY DEF UafTyped
<1>2. \A f \in flows : f[2].value # None => f[2].value \in NodeValues(prog, f[1])
  BY <1>1, FlowsTyped
<1>3. \A m : \A w \in Incoming(m) : w \in NodeValues(prog, m)
  <2> HIDE DEF flows
  <2> QED BY <1>2
<1>4. new = [m \in UafNodes(prog) |->
               IF Incoming(m) = {} THEN values[m]
               ELSE MergeValues(m, values[m], CHOOSE w \in Incoming(m) : TRUE)]
  BY DEF UafStep, UafTyped
<1> HIDE DEF new, Incoming
<1>5. ASSUME NEW m \in UafNodes(prog)
      PROVE  /\ new[m] = None \/ new[m] \in NodeValues(prog, m)
             /\ new[m] # values[m] \/ values[m] # None => new[m] # None
             /\ NodeAbove(m, new[m], values[m])
  <2>1. values[m] = None \/ values[m] \in NodeValues(prog, m)
    BY DEF UafTyped
  <2>2. CASE Incoming(m) = {}
    <3>1. new[m] = values[m]
      BY <1>4, <2>2
    <3>2. NodeAbove(m, values[m], values[m])
      BY SameAbove DEF NodeAbove
    <3> QED BY <2>1, <3>1, <3>2
  <2>3. CASE Incoming(m) # {}
    <3> DEFINE w == CHOOSE w \in Incoming(m) : TRUE
    <3>1. w \in Incoming(m)
      BY <2>3
    <3>2. new[m] = MergeValues(m, values[m], w)
      BY <1>4, <2>3
    <3> HIDE DEF w
    <3>3. w \in NodeValues(prog, m)
      BY <1>3, <3>1
    <3>4. new[m] \in NodeValues(prog, m) /\ NodeAbove(m, new[m], values[m])
      BY <2>1, <3>2, <3>3, MergeValuesUp
    <3> QED BY <3>4, NoneIsNoNodeValue
  <2> QED BY <2>2, <2>3
<1>6. DOMAIN new = UafNodes(prog)
  BY <1>4
<1> QED BY <1>5, <1>6 DEF new

\* Every function starts with a state.
LEMMA StartTyped ==
  ASSUME input \in Inputs
  PROVE  /\ DOMAIN StartValues(prog) = UafNodes(prog)
         /\ \A n \in UafNodes(prog) : StartValues(prog)[n] = None \/ StartValues(prog)[n] \in NodeValues(prog, n)
<1> SUFFICES ASSUME NEW f \in DOMAIN prog.entry
             PROVE  new_state(prog.blks[Start(prog.entry[f])[2]].sub) \in NodeValues(prog, Start(prog.entry[f]))
  BY DEF StartValues
<1>1. Start(prog.entry[f])[2] = prog.entry[f] /\ Start(prog.entry[f])[1] = "BlkStart"
  BY DEF Start
<1>2. prog.blks[prog.entry[f]].sub = f
  BY ProgramsAreNormal DEF IsNormal, BlocksOf, prog
<1>3. NoObjects \in ObjectMaps(prog)
  <2>1. NoObjects \in [{} -> ObjectStates] /\ {} \in SUBSET DOMAIN prog.ids
    BY DEF NoObjects
  <2> QED BY <2>1, MapsAre
<1>4. new_state(f) \in States(prog)
  BY <1>3 DEF new_state, States
<1> QED BY <1>1, <1>2, <1>4 DEF NodeValues

\* Every step of the caller keeps UafInv, one case per action.
LEMMA UafInvInductive ==
  ASSUME UafInv, [Next]_vars
  PROVE  UafInv'
<1>1. input \in Inputs /\ UNCHANGED input
  BY DEF UafInv, Next, vars, Disassemble, FilterModules, ReadConfig, ComputeAnalyses, RunModule,
         PrintResults, StartCwe416, UpdateNode, FinishCwe416, StartStats, StartDominators,
         UpdateDominators, FinishDominators, FinishStats, Done, Exit
<1>6. raw' \in Finites(AllWarnings(prog'))
  <2>1. CASE raw' = raw
    BY <1>1, <2>1 DEF UafInv, prog
  <2>2. CASE UpdateNode
    <3>1. UafTyped
      BY <2>2 DEF UafInv, UpdateNode
    <3>2. PICK n \in worklist : raw' = raw \cup UNION {f[2].warnings : f \in OutFlows(prog, values[n], n)}
      BY <2>2 DEF UpdateNode
    <3>3. n \in UafNodes(prog) /\ values[n] \in NodeValues(prog, n)
      BY <3>1 DEF UafTyped
    <3>4. raw' \in Finites(AllWarnings(prog))
      BY <1>1, <3>2, <3>3, FlowsWarn, FinitesGrow DEF UafInv
    <3> QED BY <1>1, <3>4 DEF prog
  <2>3. UpdateNode \/ raw' = raw
    BY DEF Next, vars, computation, Disassemble, FilterModules, ReadConfig, ComputeAnalyses, RunModule,
           PrintResults, StartCwe416, FinishCwe416, StartStats, StartDominators,
           UpdateDominators, FinishDominators, FinishStats, Done, Exit
  <2> QED BY <2>1, <2>2, <2>3
<1> SUFFICES ASSUME stage' = "cwe416" PROVE UafTyped'
  BY <1>1, <1>6 DEF UafInv
<1>2. CASE StartCwe416
  <2>1. values' = StartValues(prog) /\ worklist' = {n \in DOMAIN values' : values'[n] # None}
    BY <1>2 DEF StartCwe416, Exit
  <2> QED BY <1>1, <2>1, StartTyped DEF UafTyped, prog
<1>3. CASE UpdateNode
  <2>1. UafTyped
    BY <1>3 DEF UafInv, UpdateNode
  <2>2. PICK n \in worklist :
          /\ values' = UafStep(values, OutFlows(prog, values[n], n))
          /\ worklist' = (worklist \ {n}) \cup {m \in DOMAIN values : values'[m] # values[m]}
    BY <1>3 DEF UpdateNode
  <2>3. /\ DOMAIN values' = UafNodes(prog)
        /\ \A m \in UafNodes(prog) :
             /\ values'[m] = None \/ values'[m] \in NodeValues(prog, m)
             /\ values'[m] # values[m] \/ values[m] # None => values'[m] # None
    BY <1>1, <2>1, <2>2, UafStepUp
  <2>4. worklist' \subseteq {m \in UafNodes(prog) : values'[m] # None}
    BY <2>1, <2>2, <2>3 DEF UafTyped
  <2>5. prog' = prog
    BY <1>1 DEF prog
  <2> QED BY <2>3, <2>4, <2>5 DEF UafTyped
<1>4. CASE UNCHANGED <<stage, values, worklist>>
  <2>1. UafTyped
    BY <1>4 DEF UafInv
  <2> QED BY <1>1, <1>4, <2>1 DEF UafTyped, prog
<1>5. StartCwe416 \/ UpdateNode \/ UNCHANGED <<stage, values, worklist>>
  BY DEF Next, vars, computation, Disassemble, FilterModules, ReadConfig, ComputeAnalyses, RunModule,
         PrintResults, FinishCwe416, StartStats, StartDominators,
         UpdateDominators, FinishDominators, FinishStats, Done, Exit
<1> QED BY <1>2, <1>3, <1>4, <1>5

\* The fixpoint computation of the check for CWE416 (checkers/cwe_416) only
\* moves node values upwards, for every program and in whatever order the
\* worklist is served: objects stay, flags stay and free paths get no longer.
THEOREM NodeValuesClimb == Spec => ValuesClimb
<1>1. Init => UafInv
  BY FS_EmptySet DEF Init, UafInv, Finites
<1>2. UafInv /\ [Next]_vars => UafInv'
  BY UafInvInductive
<1>3. UafInv /\ [Next]_vars =>
        [stage = "cwe416" /\ stage' = "cwe416" =>
           \A n \in DOMAIN values :
             IF n[1] # "CallReturn" \/ values[n] = None THEN StateAbove(values'[n], values[n])
             ELSE /\ StateAbove(values'[n].call_stub, values[n].call_stub)
                  /\ StateAbove(values'[n].flow, values[n].flow)]_vars
  <2> SUFFICES ASSUME UafInv, Next, stage = "cwe416", stage' = "cwe416", NEW n \in DOMAIN values
               PROVE  NodeAbove(n, values'[n], values[n])
    BY DEF NodeAbove
  <2>1. UafTyped
    BY DEF UafInv
  <2>2. CASE UpdateNode
    BY <2>1, <2>2, UafStepUp DEF UpdateNode, UafInv, UafTyped
  <2>3. CASE values' = values
    BY <2>3, SameAbove DEF NodeAbove
  <2>4. UpdateNode \/ values' = values
    BY DEF Next, vars, computation, Disassemble, FilterModules, ReadConfig, ComputeAnalyses, RunModule,
           PrintResults, StartCwe416, FinishCwe416, StartStats, StartDominators,
           UpdateDominators, FinishDominators, FinishStats, Done, Exit
  <2> QED BY <2>2, <2>3, <2>4
<1> QED BY <1>1, <1>2, <1>3, PTL DEF Spec, ValuesClimb

-----------------------------------------------------------------------------
(* The treatment of warnings after the computation *)

\* Each step N takes one element from what is left of S.
Picks(N, S, Z) ==
  \A z \in Z : /\ z.left \subseteq S
               /\ z.left # {} => N[z] \in Z /\ \E x \in z.left : N[z].left = z.left \ {x}
Picking(c, k, Z, z0, N) ==
  /\ c[0] = z0
  /\ \A i \in 1..k : c[i - 1] \in Z /\ c[i - 1].left # {} => c[i] = N[c[i - 1]]

\* After i steps there are i elements less.
LEMMA PicksLeft ==
  ASSUME NEW S, IsFiniteSet(S), NEW Z, NEW z0 \in Z, z0.left = S, NEW N, Picks(N, S, Z),
         NEW c, Picking(c, Cardinality(S), Z, z0, N)
  PROVE  \A i \in 0..Cardinality(S) : c[i] \in Z /\ Cardinality(c[i].left) = Cardinality(S) - i
<1> DEFINE k == Cardinality(S)
           T == {i \in Nat : i <= k => c[i] \in Z /\ Cardinality(c[i].left) = k - i}
<1>1. k \in Nat
  BY FS_CardinalityType
<1>2. 0 \in T
  <2>1. c[0] \in Z /\ Cardinality(c[0].left) = k
    BY DEF Picking
  <2> HIDE DEF k
  <2> QED BY <1>1, <2>1
<1>3. \A i \in Nat : i \in T => i + 1 \in T
  <2> SUFFICES ASSUME NEW i \in Nat, i \in T, i + 1 <= k
               PROVE  c[i + 1] \in Z /\ Cardinality(c[i + 1].left) = k - (i + 1)
    OBVIOUS
  <2>1. c[i] \in Z /\ Cardinality(c[i].left) = k - i
    <3> HIDE DEF k
    <3> QED BY <1>1
  <2>2. IsFiniteSet(c[i].left)
    BY <2>1, FS_Subset DEF Picks
  <2>3. c[i].left # {}
    <3>1. k - i # 0
      <4> HIDE DEF k
      <4> QED BY <1>1
    <3> QED BY <2>1, <3>1, FS_EmptySet
  <2>4. i + 1 \in 1..k /\ (i + 1) - 1 = i
    <3> HIDE DEF k
    <3> QED BY <1>1
  <2>5. c[i + 1] = N[c[i]]
    <3> HIDE DEF k
    <3>1. \A l \in 1..k : c[l - 1] \in Z /\ c[l - 1].left # {} => c[l] = N[c[l - 1]]
      BY DEF Picking, k
    <3> QED BY <2>1, <2>3, <2>4, <3>1
  <2>6. PICK x \in c[i].left : c[i + 1].left = c[i].left \ {x} /\ c[i + 1] \in Z
    BY <2>1, <2>3, <2>5 DEF Picks
  <2>7. Cardinality(c[i + 1].left) = Cardinality(c[i].left) - 1
    <3>1. Cardinality(c[i].left \ {x}) = Cardinality(c[i].left) - 1
      <4> HIDE DEF T
      <4>1. \A L, y : IsFiniteSet(L) /\ y \in L => Cardinality(L \ {y}) = Cardinality(L) - 1
        BY FS_RemoveElement
      <4> QED BY <2>2, <4>1
    <3> QED BY <2>6, <3>1
  <2> HIDE DEF k
  <2> QED BY <1>1, <2>1, <2>6, <2>7
<1>4. \A i \in Nat : i \in T
  <2> HIDE DEF T
  <2> QED BY <1>2, <1>3, Induction
<1> HIDE DEF k
<1>5. \A i \in 0..k : i <= k /\ i \in Nat
  BY <1>1
<1> QED BY <1>4, <1>5 DEF k

\* All elements can be picked,
LEMMA PicksExist ==
  ASSUME NEW S, IsFiniteSet(S), NEW Z, NEW z0 \in Z, z0.left = S, NEW N, Picks(N, S, Z)
  PROVE  \E r \in [0..Cardinality(S) -> Z] :
           r[0] = z0 /\ \A i \in 1..Cardinality(S) : r[i] = N[r[i - 1]]
<1> DEFINE k == Cardinality(S)
           F == [x \in (1..k) \X Z |-> IF x[2].left = {} THEN x[2] ELSE N[x[2]]]
<1>1. k \in Nat
  BY FS_CardinalityType
<1> HIDE DEF k
<1>2. F \in [(1..k) \X Z -> Z]
  BY DEF Picks
<1>3. PICK r : Iterates(r, k, Z, z0, F)
  <2> HIDE DEF F
  <2> QED BY <1>1, <1>2, Iteration
<1>4. r \in [0..k -> Z] /\ r[0] = z0 /\ \A i \in 1..k : r[i] = F[<<i, r[i - 1]>>]
  <2> HIDE DEF F
  <2> QED BY <1>3 DEF Iterates
<1>5. ASSUME NEW i \in 1..k PROVE r[i - 1] \in Z /\ (r[i - 1].left # {} => r[i] = N[r[i - 1]])
  <2>1. r[i - 1] \in Z
    BY <1>1, <1>4
  <2>2. F[<<i, r[i - 1]>>] = IF r[i - 1].left = {} THEN r[i - 1] ELSE N[r[i - 1]]
    BY <2>1
  <2> QED BY <1>4, <2>1, <2>2
<1>6. Picking(r, k, Z, z0, N)
  BY <1>4, <1>5 DEF Picking
<1>7. \A i \in 0..k : Cardinality(r[i].left) = k - i
  BY <1>6, PicksLeft DEF k
<1>8. ASSUME NEW i \in 1..k PROVE r[i - 1].left # {}
  <2>1. i - 1 \in 0..k /\ k - (i - 1) # 0
    BY <1>1
  <2> QED BY <1>7, <2>1, FS_EmptySet
<1>9. r \in [0..k -> Z] /\ r[0] = z0 /\ \A i \in 1..k : r[i] = N[r[i - 1]]
  BY <1>4, <1>5, <1>8
<1> QED BY <1>9 DEF k

\* and then none is left.
LEMMA PicksEnd ==
  ASSUME NEW S, IsFiniteSet(S), NEW Z, NEW z0 \in Z, z0.left = S, NEW N, Picks(N, S, Z),
         NEW c, Picking(c, Cardinality(S), Z, z0, N)
  PROVE  c[Cardinality(S)] \in Z /\ c[Cardinality(S)].left = {}
<1> DEFINE k == Cardinality(S)
<1>1. k \in Nat
  BY FS_CardinalityType
<1>2. \A i \in 0..k : c[i] \in Z /\ Cardinality(c[i].left) = k - i
  BY PicksLeft
<1> HIDE DEF k
<1>3. k \in 0..k /\ k - k = 0
  BY <1>1
<1>4. c[k] \in Z /\ Cardinality(c[k].left) = 0
  BY <1>2, <1>3
<1>5. IsFiniteSet(c[k].left)
  BY <1>4, FS_Subset DEF Picks
<1>6. c[k].left = {}
  BY <1>4, <1>5, FS_EmptySet
<1> QED BY <1>4, <1>6 DEF k

\* A cause of a warning, as the treatment of warnings sees it.
IsReturned(p, c) == is_case_of_returned_dangling_pointer(p, c[1], c[2])
RootOf(p, c) == get_root_cause_for_returned_dangling_pointers(p, c[1], c[2])
Shown(p, c) ==
  IF p.always_include_full_path_to_free_site THEN c[2] ELSE get_shortended_path_to_source_of_free(p, c[1], c[2])
AllRoots(p) == {RootOf(p, c) : c \in AllCauses(p)}
AllInfos(p) == {<<c[1], Shown(p, c)[1]>> : c \in AllCauses(p)}
AllTids(p) == UNION {Range(Tail(Shown(p, c))) : c \in AllCauses(p)}
Accs(p) == [roots : SUBSET AllRoots(p), infos : SUBSET AllInfos(p), tids : SUBSET AllTids(p)]

\* One cause.
LEMMA AddCauseIs ==
  ASSUME NEW p, NEW acc \in Accs(p), NEW c \in AllCauses(p)
  PROVE  LET new == AddCause(p, acc, c)
         IN  /\ new \in Accs(p)
             /\ acc.roots \subseteq new.roots /\ acc.infos \subseteq new.infos
             /\ IF IsReturned(p, c) THEN RootOf(p, c) \in new.roots ELSE new.infos # {}
             /\ \A r \in new.roots \ acc.roots : IsReturned(p, c) /\ r = RootOf(p, c) /\ new.infos # {}
<1> DEFINE new == AddCause(p, acc, c)
           root == RootOf(p, c)
           info == <<c[1], Shown(p, c)[1]>>
           tids == Range(Tail(Shown(p, c)))
<1>1. CASE IsReturned(p, c) /\ root \in acc.roots
  <2>1. new = acc
    BY <1>1 DEF AddCause, IsReturned, RootOf
  <2> HIDE DEF new
  <2> QED BY <1>1, <2>1 DEF new
<1>2. CASE ~(IsReturned(p, c) /\ root \in acc.roots)
  <2>1. new = [roots |-> IF IsReturned(p, c) THEN acc.roots \cup {root} ELSE acc.roots,
               infos |-> acc.infos \cup {info}, tids |-> acc.tids \cup tids]
    BY <1>2 DEF AddCause, IsReturned, RootOf, Shown
  <2>2. root \in AllRoots(p) /\ info \in AllInfos(p) /\ tids \subseteq AllTids(p)
    BY DEF AllRoots, AllInfos, AllTids
  <2>3. acc.roots \subseteq AllRoots(p) /\ acc.infos \subseteq AllInfos(p) /\ acc.tids \subseteq AllTids(p)
    BY DEF Accs
  <2> HIDE DEF new, info, tids, root
  <2>4. /\ new.roots = IF IsReturned(p, c) THEN acc.roots \cup {root} ELSE acc.roots
        /\ new.infos = acc.infos \cup {info}
    BY <2>1
  <2>5. new \in Accs(p)
    BY <2>1, <2>2, <2>3 DEF Accs
  <2>6. IF IsReturned(p, c) THEN root \in new.roots ELSE new.infos # {}
    BY <2>4
  <2>7. \A r \in new.roots \ acc.roots : IsReturned(p, c) /\ r = root /\ new.infos # {}
    BY <2>4
  <2>8. acc.roots \subseteq new.roots /\ acc.infos \subseteq new.infos
    BY <2>4
  <2> QED BY <2>5, <2>6, <2>7, <2>8 DEF new, root
<1> QED BY <1>1, <1>2

\* One of finitely many causes is the first.
LEMMA FirstCauseIs ==
  ASSUME NEW p, IsListed(p.ids), NEW C, C \subseteq AllCauses(p), C # {}
  PROVE  FirstCause(C) \in C
<1> DEFINE T == {c[1] : c \in C}
<1>1. DOMAIN p.ids \subseteq Nat
  <2>1. DOMAIN p.ids = 1..Len(p.ids) /\ Len(p.ids) \in Nat
    BY DEF IsListed
  <2> QED BY <2>1
<1>2. \A c \in C : c[1] \in Nat
  BY <1>1 DEF AllCauses
<1>3. T \subseteq Nat /\ T # {}
  BY <1>2
<1>4. PICK n \in T : \A m \in T : n <= m
  <2> HIDE DEF T
  <2> QED BY <1>3, LeastNat
<1>5. PICK c \in C : c[1] = n
  BY <1>4
<1>6. \A d \in C : c[1] <= d[1]
  BY <1>4, <1>5
<1> QED BY <1>6 DEF FirstCause

\* All causes of a warning: a returned one has its root cause recorded, with
\* another one the warning stays, and so it does with a new root cause.
CausesAdded(p, roots, C, result) ==
  /\ result \in Accs(p)
  /\ roots \subseteq result.roots
  /\ \A c \in C : IF IsReturned(p, c) THEN RootOf(p, c) \in result.roots ELSE result.infos # {}
  /\ \A r \in result.roots \ roots :
       result.infos # {} /\ \E d \in C : IsReturned(p, d) /\ RootOf(p, d) = r

\* The causes of a warning are treated in that way.
LEMMA AddCausesIs ==
  ASSUME NEW p, IsListed(p.ids), NEW roots \in SUBSET AllRoots(p), NEW C \in Finites(AllCauses(p))
  PROVE  CausesAdded(p, roots, C, AddCauses(p, roots, C))
<1> DEFINE k == Cardinality(C)
           a0 == [roots |-> roots, infos |-> {}, tids |-> {}]
           z0 == [left |-> C, acc |-> a0]
           Good(z) ==
             /\ roots \subseteq z.acc.roots
             /\ \A c \in C \ z.left : IF IsReturned(p, c) THEN RootOf(p, c) \in z.acc.roots ELSE z.acc.infos # {}
             /\ \A r \in z.acc.roots \ roots :
                  z.acc.infos # {} /\ \E d \in C : IsReturned(p, d) /\ RootOf(p, d) = r
           Z == {z \in [left : SUBSET C, acc : Accs(p)] : Good(z)}
           Step(z) == [left |-> z.left \ {FirstCause(z.left)}, acc |-> AddCause(p, z.acc, FirstCause(z.left))]
           N == [z \in Z |-> Step(z)]
           Is(r) == r = [i \in 0..k |-> IF i = 0 THEN z0 ELSE Step(r[i - 1])]
           s == CHOOSE r : Is(r)
<1>1. IsFiniteSet(C) /\ C \subseteq AllCauses(p) /\ k \in Nat
  BY FS_CardinalityType DEF Finites
<1>2. AddCauses(p, roots, C) = s[k].acc
  BY DEF AddCauses, InOrder
<1>3. z0 \in Z
  <2>1. a0 \in Accs(p)
    BY DEF Accs
  <2>2. Good(z0)
    OBVIOUS
  <2>3. z0 \in [left : SUBSET C, acc : Accs(p)]
    <3> HIDE DEF a0
    <3> QED BY <2>1
  <2> HIDE DEF z0, Good
  <2> QED BY <2>2, <2>3
<1>4. z0.left = C
  OBVIOUS
<1>5. ASSUME NEW z \in Z, z.left # {}
      PROVE  /\ Step(z) \in Z
             /\ \E x \in z.left : Step(z).left = z.left \ {x}
  <2> DEFINE x == FirstCause(z.left)
             new == AddCause(p, z.acc, x)
  <2>1. z.left \subseteq C /\ z.acc \in Accs(p) /\ Good(z)
    OBVIOUS
  <2>2. x \in z.left /\ x \in AllCauses(p) /\ x \in C
    BY <1>1, <1>5, <2>1, FirstCauseIs
  <2> HIDE DEF x, Good
  <2>3. /\ new \in Accs(p)
        /\ z.acc.roots \subseteq new.roots /\ z.acc.infos \subseteq new.infos
        /\ IF IsReturned(p, x) THEN RootOf(p, x) \in new.roots ELSE new.infos # {}
        /\ \A r \in new.roots \ z.acc.roots : IsReturned(p, x) /\ r = RootOf(p, x) /\ new.infos # {}
    BY <2>1, <2>2, AddCauseIs
  <2>4. Step(z) = [left |-> z.left \ {x}, acc |-> new]
    BY DEF x
  <2> HIDE DEF new, Step
  <2>5. Step(z).left = z.left \ {x} /\ Step(z).acc = new
    BY <2>4
  <2>6. Step(z) \in [left : SUBSET C, acc : Accs(p)]
    BY <2>1, <2>3, <2>4
  <2>7. Good(Step(z))
    <3>1. roots \subseteq new.roots
      BY <2>1, <2>3 DEF Good
    <3>2. ASSUME NEW c \in C \ (z.left \ {x})
          PROVE  IF IsReturned(p, c) THEN RootOf(p, c) \in new.roots ELSE new.infos # {}
      <4>1. CASE c = x
        BY <2>3, <4>1
      <4>2. CASE c \in C \ z.left
        BY <2>1, <2>3, <4>2 DEF Good
      <4> QED BY <3>2, <4>1, <4>2
    <3>3. ASSUME NEW r \in new.roots \ roots
          PROVE  new.infos # {} /\ \E d \in C : IsReturned(p, d) /\ RootOf(p, d) = r
      <4>1. CASE r \in z.acc.roots
        BY <2>1, <2>3, <3>3, <4>1 DEF Good
      <4>2. CASE r \notin z.acc.roots
        BY <2>2, <2>3, <3>3, <4>2
      <4> QED BY <4>1, <4>2
    <3> QED BY <2>5, <3>1, <3>2, <3>3 DEF Good
  <2> QED BY <2>2, <2>5, <2>6, <2>7
<1> HIDE DEF Step, z0
<1>6. \A z \in Z : N[z] = Step(z)
  <2> HIDE DEF Z
  <2> QED OBVIOUS
<1>7. Picks(N, C, Z)
  <2>1. \A z \in Z : z.left \subseteq C
    OBVIOUS
  <2> HIDE DEF Z, N
  <2> QED BY <1>5, <1>6, <2>1 DEF Picks
<1> HIDE DEF Z, N
<1>8. PICK r \in [0..k -> Z] : r[0] = z0 /\ \A i \in 1..k : r[i] = N[r[i - 1]]
  BY <1>1, <1>3, <1>4, <1>7, PicksExist
<1> HIDE DEF k
<1>9. Is(r)
  <2>1. ASSUME NEW i \in 0..k PROVE r[i] = IF i = 0 THEN z0 ELSE Step(r[i - 1])
    <3>1. i = 0 \/ (i \in 1..k /\ i # 0 /\ i - 1 \in 0..k)
      BY <1>1
    <3> QED BY <1>6, <1>8, <3>1
  <2>2. r = [i \in 0..k |-> r[i]]
    BY <1>8
  <2> QED BY <2>1, <2>2, Zenon
<1>10. Is(s)
  BY <1>9
<1> HIDE DEF s
<1>11. s[0] = z0 /\ \A i \in 1..k : s[i] = Step(s[i - 1])
  <2>1. 0 \in 0..k /\ \A i \in 1..k : i \in 0..k /\ i # 0
    BY <1>1
  <2> QED BY <1>10, <2>1
<1>12. Picking(s, k, Z, z0, N)
  BY <1>6, <1>11 DEF Picking
<1>13. s[k] \in Z /\ s[k].left = {}
  BY <1>1, <1>3, <1>4, <1>7, <1>12, PicksEnd DEF k
<1>14. s[k].acc \in Accs(p) /\ Good(s[k]) /\ C \ s[k].left = C
  BY <1>13 DEF Z
<1>15. CausesAdded(p, roots, C, s[k].acc)
  BY <1>14 DEF CausesAdded
<1> QED BY <1>2, <1>15

\* One of finitely many warnings is the first.
LEMMA FirstWarningIs ==
  ASSUME NEW p, NEW V, V \subseteq AllWarnings(p), V # {}
  PROVE  FirstWarning(V) \in V
<1> DEFINE T == {w.name : w \in V}
           X(n) == {w \in V : w.name = n}
           U(n) == {w.tid : w \in X(n)}
<1>1. \A w \in V : w.name \in Nat /\ w.tid \in Nat
  <2>1. \A w \in AllWarnings(p) : w.name \in {415, 416} /\ w.tid \in Nat
    BY DEF AllWarnings
  <2> QED BY <2>1
<1>2. PICK n \in T : \A m \in T : n <= m
  <2>1. T \subseteq Nat /\ T # {}
    BY <1>1
  <2> HIDE DEF T
  <2> QED BY <2>1, LeastNat
<1>3. PICK t \in U(n) : \A m \in U(n) : t <= m
  <2>1. U(n) \subseteq Nat /\ U(n) # {}
    BY <1>1, <1>2
  <2> HIDE DEF U
  <2> QED BY <2>1, LeastNat
<1>4. PICK v \in V : v.name = n /\ v.tid = t
  BY <1>3
<1>5. ASSUME NEW w \in V PROVE v.name < w.name \/ (v.name = w.name /\ v.tid <= w.tid)
  <2>1. n <= w.name /\ n \in Nat /\ w.name \in Nat
    BY <1>1, <1>2, <1>4
  <2>2. CASE w.name = n
    BY <1>3, <1>4, <2>2
  <2>3. CASE w.name # n
    BY <1>4, <2>1, <2>3
  <2> QED BY <2>2, <2>3
<1> QED BY <1>4, <1>5 DEF FirstWarning

\* The places of the warnings that stay, and their types.
Tids(ws) == {w.tid : w \in ws}
Processed(p) ==
  [name : {415, 416}, tid : Nat, fn : DOMAIN p.entry, infos : SUBSET AllInfos(p), tids : SUBSET AllTids(p)]
Outcomes(p) == [roots : SUBSET AllRoots(p), done : SUBSET Processed(p)]

\* One warning.
LEMMA AddWarningIs ==
  ASSUME NEW p, IsListed(p.ids), NEW acc \in Outcomes(p), NEW w \in AllWarnings(p)
  PROVE  LET new == AddWarning(p, acc, w)
         IN  /\ new \in Outcomes(p)
             /\ acc.roots \subseteq new.roots /\ acc.done \subseteq new.done
             /\ \A c \in w.causes : IF IsReturned(p, c) THEN RootOf(p, c) \in new.roots ELSE w.tid \in Tids(new.done)
             /\ \A r \in new.roots \ acc.roots :
                  w.tid \in Tids(new.done) /\ \E d \in w.causes : IsReturned(p, d) /\ RootOf(p, d) = r
<1> DEFINE new == AddWarning(p, acc, w)
           result == AddCauses(p, acc.roots, w.causes)
           item == [name |-> w.name, tid |-> w.tid, fn |-> w.fn, infos |-> result.infos, tids |-> result.tids]
<1>1. new = [roots |-> result.roots, done |-> IF result.infos = {} THEN acc.done ELSE acc.done \cup {item}]
  BY DEF AddWarning
<1>2. w.name \in {415, 416} /\ w.tid \in Nat /\ w.fn \in DOMAIN p.entry /\ w.causes \in Finites(AllCauses(p))
  BY DEF AllWarnings
<1>3. acc.roots \in SUBSET AllRoots(p) /\ acc.done \in SUBSET Processed(p)
  BY DEF Outcomes
<1>4. /\ result \in Accs(p)
      /\ acc.roots \subseteq result.roots
      /\ \A c \in w.causes : IF IsReturned(p, c) THEN RootOf(p, c) \in result.roots ELSE result.infos # {}
      /\ \A r \in result.roots \ acc.roots :
           result.infos # {} /\ \E d \in w.causes : IsReturned(p, d) /\ RootOf(p, d) = r
  <2>1. CausesAdded(p, acc.roots, w.causes, result)
    BY <1>2, <1>3, AddCausesIs
  <2> HIDE DEF result
  <2> QED BY <2>1 DEF CausesAdded
<1> HIDE DEF result
<1>5. result.roots \in SUBSET AllRoots(p) /\ result.infos \in SUBSET AllInfos(p) /\ result.tids \in SUBSET AllTids(p)
  BY <1>4 DEF Accs
<1>6. item \in Processed(p) /\ item.tid = w.tid
  BY <1>2, <1>5 DEF Processed
<1> HIDE DEF new, item
<1>7. new.roots = result.roots /\ new.done = IF result.infos = {} THEN acc.done ELSE acc.done \cup {item}
  BY <1>1
<1>8. new \in Outcomes(p)
  <2>1. (IF result.infos = {} THEN acc.done ELSE acc.done \cup {item}) \in SUBSET Processed(p)
    BY <1>3, <1>6
  <2> QED BY <1>1, <1>5, <2>1 DEF Outcomes
<1>9. acc.roots \subseteq new.roots /\ acc.done \subseteq new.done
  BY <1>4, <1>7
<1>10. result.infos # {} => w.tid \in Tids(new.done)
  BY <1>6, <1>7 DEF Tids
<1>11. \A c \in w.causes : IF IsReturned(p, c) THEN RootOf(p, c) \in new.roots ELSE w.tid \in Tids(new.done)
  BY <1>4, <1>7, <1>10
<1>12. \A r \in new.roots \ acc.roots :
         w.tid \in Tids(new.done) /\ \E d \in w.causes : IsReturned(p, d) /\ RootOf(p, d) = r
  BY <1>4, <1>7, <1>10
<1> QED BY <1>8, <1>9, <1>11, <1>12 DEF new

\* All warnings: a place with a cause that is not returned stays, and for every
\* returned one a place with its root cause does.
LEMMA AllCausesReported ==
  ASSUME NEW p, IsListed(p.ids), NEW V \in Finites(AllWarnings(p))
  PROVE  LET tids == Tids(generate_context_information_for_warnings(p, V))
         IN  \A w \in V : \A c \in w.causes :
               IF ~IsReturned(p, c) THEN w.tid \in tids
               ELSE \E v \in V : \E d \in v.causes : v.tid \in tids /\ IsReturned(p, d) /\ RootOf(p, d) = RootOf(p, c)
<1> DEFINE k == Cardinality(V)
           a0 == [roots |-> {}, done |-> {}]
           z0 == [left |-> V, acc |-> a0]
           Reported(z, r) ==
             \E v \in V : \E d \in v.causes : v.tid \in Tids(z.acc.done) /\ IsReturned(p, d) /\ RootOf(p, d) = r
           Good(z) ==
             /\ \A w \in V \ z.left : \A c \in w.causes :
                  IF IsReturned(p, c) THEN RootOf(p, c) \in z.acc.roots ELSE w.tid \in Tids(z.acc.done)
             /\ \A r \in z.acc.roots : Reported(z, r)
           Z == {z \in [left : SUBSET V, acc : Outcomes(p)] : Good(z)}
           Step(z) == [left |-> z.left \ {FirstWarning(z.left)}, acc |-> AddWarning(p, z.acc, FirstWarning(z.left))]
           N == [z \in Z |-> Step(z)]
           Is(r) == r = [i \in 0..k |-> IF i = 0 THEN z0 ELSE Step(r[i - 1])]
           s == CHOOSE r : Is(r)
<1>1. IsFiniteSet(V) /\ V \subseteq AllWarnings(p) /\ k \in Nat
  BY FS_CardinalityType DEF Finites
<1>2. generate_context_information_for_warnings(p, V) = s[k].acc.done
  BY DEF generate_context_information_for_warnings, InOrder
<1>3. z0 \in Z
  <2>1. a0 \in Outcomes(p)
    BY DEF Outcomes
  <2>2. Good(z0)
    OBVIOUS
  <2>3. z0 \in [left : SUBSET V, acc : Outcomes(p)]
    <3> HIDE DEF a0
    <3> QED BY <2>1
  <2> HIDE DEF z0, Good
  <2> QED BY <2>2, <2>3
<1>4. z0.left = V
  OBVIOUS
<1>5. ASSUME NEW z \in Z, z.left # {}
      PROVE  /\ Step(z) \in Z
             /\ \E x \in z.left : Step(z).left = z.left \ {x}
  <2> DEFINE x == FirstWarning(z.left)
             new == AddWarning(p, z.acc, x)
  <2>1. z.left \subseteq V /\ z.acc \in Outcomes(p) /\ Good(z)
    OBVIOUS
  <2>2. x \in z.left /\ x \in AllWarnings(p) /\ x \in V
    BY <1>1, <1>5, <2>1, FirstWarningIs
  <2> HIDE DEF x, Good
  <2>3. /\ new \in Outcomes(p)
        /\ z.acc.roots \subseteq new.roots /\ z.acc.done \subseteq new.done
        /\ \A c \in x.causes : IF IsReturned(p, c) THEN RootOf(p, c) \in new.roots ELSE x.tid \in Tids(new.done)
        /\ \A r \in new.roots \ z.acc.roots :
             x.tid \in Tids(new.done) /\ \E d \in x.causes : IsReturned(p, d) /\ RootOf(p, d) = r
    BY <2>1, <2>2, AddWarningIs
  <2>4. Step(z) = [left |-> z.left \ {x}, acc |-> new]
    BY DEF x
  <2> HIDE DEF new, Step
  <2>5. Step(z).left = z.left \ {x} /\ Step(z).acc = new
    BY <2>4
  <2>6. Step(z) \in [left : SUBSET V, acc : Outcomes(p)]
    BY <2>1, <2>3, <2>4
  <2>7. Tids(z.acc.done) \subseteq Tids(new.done)
    BY <2>3 DEF Tids
  <2>8. Good(Step(z))
    <3>1. ASSUME NEW w \in V \ (z.left \ {x}), NEW c \in w.causes
          PROVE  IF IsReturned(p, c) THEN RootOf(p, c) \in new.roots ELSE w.tid \in Tids(new.done)
      <4>1. CASE w = x
        BY <2>3, <3>1, <4>1
      <4>2. CASE w \in V \ z.left
        <5>1. IF IsReturned(p, c) THEN RootOf(p, c) \in z.acc.roots ELSE w.tid \in Tids(z.acc.done)
          BY <2>1, <3>1, <4>2 DEF Good
        <5> QED BY <2>3, <2>7, <5>1
      <4> QED BY <3>1, <4>1, <4>2
    <3>2. ASSUME NEW r \in new.roots
          PROVE  \E v \in V : \E d \in v.causes : v.tid \in Tids(new.done) /\ IsReturned(p, d) /\ RootOf(p, d) = r
      <4>1. CASE r \in z.acc.roots
        <5>1. Reported(z, r)
          BY <2>1, <4>1 DEF Good
        <5> QED BY <2>7, <5>1
      <4>2. CASE r \notin z.acc.roots
        BY <2>2, <2>3, <3>2, <4>2
      <4> QED BY <4>1, <4>2
    <3> QED BY <2>5, <3>1, <3>2 DEF Good
  <2> QED BY <2>2, <2>5, <2>6, <2>8
<1> HIDE DEF Step, z0
<1>6. \A z \in Z : N[z] = Step(z)
  <2> HIDE DEF Z
  <2> QED OBVIOUS
<1>7. Picks(N, V, Z)
  <2>1. \A z \in Z : z.left \subseteq V
    OBVIOUS
  <2> HIDE DEF Z, N
  <2> QED BY <1>5, <1>6, <2>1 DEF Picks
<1> HIDE DEF Z, N
<1>8. PICK r \in [0..k -> Z] : r[0] = z0 /\ \A i \in 1..k : r[i] = N[r[i - 1]]
  <2> HIDE DEF Good, Is, Reported, s, a0
  <2>1. \E r \in [0..Cardinality(V) -> Z] : r[0] = z0 /\ \A i \in 1..Cardinality(V) : r[i] = N[r[i - 1]]
    BY <1>1, <1>3, <1>4, <1>7, PicksExist
  <2> QED BY <2>1
<1> HIDE DEF k
<1>9. Is(r)
  <2>1. ASSUME NEW i \in 0..k PROVE r[i] = IF i = 0 THEN z0 ELSE Step(r[i - 1])
    <3>1. i = 0 \/ (i \in 1..k /\ i # 0 /\ i - 1 \in 0..k)
      BY <1>1
    <3> QED BY <1>6, <1>8, <3>1
  <2>2. r = [i \in 0..k |-> r[i]]
    BY <1>8
  <2> QED BY <2>1, <2>2, Zenon
<1>10. Is(s)
  BY <1>9
<1> HIDE DEF s
<1>11. s[0] = z0 /\ \A i \in 1..k : s[i] = Step(s[i - 1])
  <2>1. 0 \in 0..k /\ \A i \in 1..k : i \in 0..k /\ i # 0
    BY <1>1
  <2> QED BY <1>10, <2>1
<1>12. Picking(s, k, Z, z0, N)
  BY <1>6, <1>11 DEF Picking
<1>13. s[k] \in Z /\ s[k].left = {}
  BY <1>1, <1>3, <1>4, <1>7, <1>12, PicksEnd DEF k
<1>14. Good(s[k]) /\ V \ s[k].left = V
  BY <1>13 DEF Z
<1>15. \A w \in V : \A c \in w.causes :
         IF IsReturned(p, c) THEN RootOf(p, c) \in s[k].acc.roots ELSE w.tid \in Tids(s[k].acc.done)
  BY <1>14
<1>16. \A root \in s[k].acc.roots : Reported(s[k], root)
  BY <1>14
<1> HIDE DEF Good
<1> QED BY <1>2, <1>15, <1>16

\* Dropping causes that were seen before and all but one warning for an address
\* (generate_context_information_for_warnings, deduplicate_first_address) hides
\* no cause, for every program and whatever warnings the check has sent.
THEOREM CausesAreReported == Spec => []CausesStayReported
<1>1. Init => UafInv
  BY FS_EmptySet DEF Init, UafInv, Finites
<1>2. UafInv /\ [Next]_vars => UafInv'
  BY UafInvInductive
<1>3. UafInv => CausesStayReported
  <2> SUFFICES ASSUME UafInv, NEW w \in raw, NEW c \in w.causes
               PROVE  LET reported == Tids(Cwe416Warnings)
                      IN  IF ~IsReturned(prog, c) THEN w.tid \in reported
                          ELSE \E v \in raw : \E d \in v.causes :
                                 v.tid \in reported /\ IsReturned(prog, d) /\ RootOf(prog, d) = RootOf(prog, c)
    BY DEF CausesStayReported, SameCall, is_case_of_returned_dangling_pointer, IsReturned, RootOf, Tids
  <2> DEFINE kept == generate_context_information_for_warnings(prog, raw)
  <2>1. IsListed(prog.ids) /\ raw \in Finites(AllWarnings(prog))
    BY ProgramsHaveObjects DEF UafInv, ObjectsAreKnown, prog
  <2>2. IF ~IsReturned(prog, c) THEN w.tid \in Tids(kept)
        ELSE \E v \in raw : \E d \in v.causes :
               v.tid \in Tids(kept) /\ IsReturned(prog, d) /\ RootOf(prog, d) = RootOf(prog, c)
    BY <2>1, AllCausesReported
  <2> HIDE DEF kept
  <2>3. Tids(deduplicate_first_address(kept)) = Tids(kept)
    <3> DEFINE One(t) == CHOOSE x \in kept : x.tid = t
    <3>1. \A t \in Tids(kept) : One(t) \in kept /\ One(t).tid = t
      BY DEF Tids
    <3>2. deduplicate_first_address(kept) = {One(t) : t \in Tids(kept)}
      BY DEF deduplicate_first_address, Tids
    <3> HIDE DEF One
    <3>3. Tids(deduplicate_first_address(kept)) = {x.tid : x \in {One(t) : t \in Tids(kept)}}
      BY <3>2 DEF Tids
    <3> QED BY <3>1, <3>3
  <2>4. Tids(Cwe416Warnings) = Tids(kept)
    BY <2>3 DEF Cwe416Warnings, kept
  <2> QED BY <2>2, <2>4
<1> QED BY <1>1, <1>2, <1>3, PTL DEF Spec

-----------------------------------------------------------------------------
(* Which objects the steps of the check for CWE416 keep, mark and flag *)

Flagged(m) == {id \in DOMAIN m : m[id].kind = "AlreadyFlagged"}
Known(s) == DOMAIN s.dangling \cup DOMAIN s.same_call
FlaggedIn(s) == Flagged(s.dangling) \cup Flagged(s.same_call)
Caused(causes) == {c[1] : c \in causes}

\* t is a state of the same function and has the objects of s.
Grows(s, t) ==
  /\ t.fn = s.fn
  /\ DOMAIN s.dangling \subseteq DOMAIN t.dangling
  /\ DOMAIN s.same_call \subseteq DOMAIN t.same_call

\* On the way from s to t exactly the objects among the causes were flagged.
Checked(s, t, causes) ==
  Grows(s, t) /\ FlaggedIn(s) \subseteq FlaggedIn(t) /\ FlaggedIn(t) \subseteq FlaggedIn(s) \cup Caused(causes)

\* The object is in the map for objects that were freed by a callee of the call
\* or by the call itself.
IsRecorded(p, s, id, call) ==
  id \in (IF LastOf(p.ids[id].hints) = call THEN DOMAIN s.same_call ELSE DOMAIN s.dangling)

\* Flagging objects of a map.
LEMMA FlagIs ==
  ASSUME NEW p, NEW m \in ObjectMaps(p), NEW ids
  PROVE  /\ DOMAIN FlagIn(m, ids) = DOMAIN m
         /\ Flagged(FlagIn(m, ids)) = Flagged(m) \cup (ids \cap DOMAIN m)
         /\ ids \cap DOMAIN m \subseteq Flagged(m) \cup Caused(Causes(m, ids))
<1>1. m \in [DOMAIN m -> ObjectStates]
  BY MapsAre
<1>2. DOMAIN FlagIn(m, ids) = DOMAIN m
  BY DEF FlagIn
<1>3. ASSUME NEW id \in DOMAIN m
      PROVE  FlagIn(m, ids)[id].kind = "AlreadyFlagged" <=> id \in ids \/ m[id].kind = "AlreadyFlagged"
  BY DEF FlagIn, ObjectState
<1>4. Flagged(FlagIn(m, ids)) = Flagged(m) \cup (ids \cap DOMAIN m)
  BY <1>2, <1>3 DEF Flagged
<1>5. ASSUME NEW id \in ids \cap DOMAIN m, id \notin Flagged(m) PROVE id \in Caused(Causes(m, ids))
  <2>1. m[id] \in ObjectStates
    BY <1>1
  <2>2. m[id].kind = "Dangling"
    BY <1>5, <2>1 DEF Flagged, ObjectStates
  <2>3. <<id, m[id].path>> \in Causes(m, ids)
    BY <2>2 DEF Causes, IsDangling
  <2>4. <<id, m[id].path>>[1] = id
    OBVIOUS
  <2> QED BY <2>3, <2>4 DEF Caused
<1> QED BY <1>2, <1>4, <1>5

\* A check flags the known ones of the objects.
LEMMA CheckIs ==
  ASSUME NEW p, NEW s \in States(p), NEW ids
  PROVE  LET flow == check_address_for_use_after_free(s, ids)
         IN  Checked(s, flow.value, flow.warnings) /\ ids \cap Known(s) \subseteq FlaggedIn(flow.value)
<1> DEFINE flow == check_address_for_use_after_free(s, ids)
           t == flow.value
<1> SUFFICES Checked(s, t, flow.warnings) /\ ids \cap Known(s) \subseteq FlaggedIn(t)
  OBVIOUS
<1>1. s.dangling \in ObjectMaps(p) /\ s.same_call \in ObjectMaps(p)
  BY StatesAre
<1>2. /\ t.fn = s.fn /\ t.dangling = FlagIn(s.dangling, ids) /\ t.same_call = FlagIn(s.same_call, ids)
      /\ flow.warnings = Causes(s.dangling, ids) \cup Causes(s.same_call, ids)
  BY DEF check_address_for_use_after_free, Flow, States
<1> HIDE DEF flow
<1>3. Caused(flow.warnings) = Caused(Causes(s.dangling, ids)) \cup Caused(Causes(s.same_call, ids))
  BY <1>2 DEF Caused
<1>4. /\ DOMAIN t.dangling = DOMAIN s.dangling /\ DOMAIN t.same_call = DOMAIN s.same_call
      /\ Flagged(t.dangling) = Flagged(s.dangling) \cup (ids \cap DOMAIN s.dangling)
      /\ Flagged(t.same_call) = Flagged(s.same_call) \cup (ids \cap DOMAIN s.same_call)
      /\ ids \cap DOMAIN s.dangling \subseteq Flagged(s.dangling) \cup Caused(Causes(s.dangling, ids))
      /\ ids \cap DOMAIN s.same_call \subseteq Flagged(s.same_call) \cup Caused(Causes(s.same_call, ids))
  BY <1>1, <1>2, FlagIs
<1> QED BY <1>2, <1>3, <1>4 DEF Checked, Grows, FlaggedIn, Known

\* Checks after one another are a check.
LEMMA CheckedOn ==
  ASSUME NEW s, NEW t, NEW u, NEW C, NEW D, Checked(s, t, C), Checked(t, u, D)
  PROVE  Checked(s, u, C \cup D) /\ Known(s) \subseteq Known(t)
<1>1. Caused(C \cup D) = Caused(C) \cup Caused(D)
  BY DEF Caused
<1> QED BY <1>1 DEF Checked, Grows, Known

\* Checking the arguments of a call flags the known ones of all of them.
LEMMA ParamsAre ==
  ASSUME NEW p, IsListed(p.ids), NEW s \in States(p), NEW seq, IsListed(seq)
  PROVE  LET flow == collect_cwe_warnings_of_call_params(s, seq)
         IN  /\ Checked(s, flow.value, flow.warnings)
             /\ \A i \in DOMAIN seq : seq[i] # None => seq[i] \cap Known(s) \subseteq FlaggedIn(flow.value)
<1> DEFINE k == Len(seq)
           flow == collect_cwe_warnings_of_call_params(s, seq)
<1>1. PICK c : /\ Taken(c, k, s, States(p), AllCauses(p), flow)
               /\ \A i \in 1..k :
                    Adds(c, i, IF seq[i] = None THEN Flow(c[i - 1].value, {})
                               ELSE check_address_for_use_after_free(c[i - 1].value, seq[i]))
  BY ParamsTurns
<1>2. k \in Nat /\ DOMAIN seq = 1..k
  BY DEF IsListed
<1> HIDE DEF k, flow
<1>3. /\ c[0] = Flow(s, {}) /\ c[k] = flow
      /\ \A i \in 0..k : c[i].value \in States(p)
  BY <1>1 DEF Taken
<1> DEFINE Good(i) == /\ Checked(s, c[i].value, c[i].warnings)
                      /\ \A l \in 1..i : seq[l] # None => seq[l] \cap Known(s) \subseteq FlaggedIn(c[i].value)
           T == {i \in Nat : i <= k => Good(i)}
<1>4. 0 \in T
  BY <1>3 DEF Flow, Checked, Grows
<1>5. \A i \in Nat : i \in T => i + 1 \in T
  <2> SUFFICES ASSUME NEW i \in Nat, i + 1 <= k, Good(i) PROVE Good(i + 1)
    <3>1. \A i \in Nat : i + 1 <= k => i <= k
      BY <1>2
    <3> HIDE DEF Good
    <3> QED BY <3>1
  <2> DEFINE t == c[i].value
             u == c[i + 1].value
             step == IF seq[i + 1] = None THEN Flow(t, {}) ELSE check_address_for_use_after_free(t, seq[i + 1])
  <2>1. i + 1 \in 1..k /\ (i + 1) - 1 = i /\ i \in 0..k
    BY <1>2
  <2>2. Adds(c, i + 1, step)
    BY <1>1, <2>1
  <2>3. t \in States(p)
    BY <1>3, <2>1
  <2>4. Checked(t, step.value, step.warnings) /\ (seq[i + 1] # None => seq[i + 1] \cap Known(t) \subseteq FlaggedIn(step.value))
    <3>1. CASE seq[i + 1] = None
      BY <3>1 DEF Flow, Checked, Grows
    <3>2. CASE seq[i + 1] # None
      BY <2>3, <3>2, CheckIs
    <3> QED BY <3>1, <3>2
  <2> HIDE DEF step
  <2>5. u = step.value /\ c[i + 1].warnings = c[i].warnings \cup step.warnings
    BY <2>1, <2>2 DEF Adds
  <2>6. Checked(s, t, c[i].warnings) /\ \A l \in 1..i : seq[l] # None => seq[l] \cap Known(s) \subseteq FlaggedIn(t)
    OBVIOUS
  <2>7. Checked(s, u, c[i + 1].warnings) /\ Known(s) \subseteq Known(t)
    <3> HIDE DEF t, u
    <3>1. Checked(t, u, step.warnings)
      BY <2>4, <2>5
    <3>2. Checked(s, u, c[i].warnings \cup step.warnings) /\ Known(s) \subseteq Known(t)
      BY <2>6, <3>1, CheckedOn
    <3> QED BY <2>5, <3>2
  <2>8. FlaggedIn(t) \subseteq FlaggedIn(u)
    BY <2>4, <2>5 DEF Checked
  <2>9. ASSUME NEW l \in 1..(i + 1), seq[l] # None PROVE seq[l] \cap Known(s) \subseteq FlaggedIn(u)
    <3>1. CASE l = i + 1
      BY <2>4, <2>5, <2>7, <2>9, <3>1
    <3>2. CASE l \in 1..i
      BY <2>6, <2>8, <2>9, <3>2
    <3> QED BY <3>1, <3>2
  <2> QED BY <2>7, <2>9
<1>6. \A i \in Nat : i \in T
  <2> HIDE DEF T
  <2> QED BY <1>4, <1>5, Induction
<1>7. Good(k)
  BY <1>2, <1>6
<1> QED BY <1>2, <1>3, <1>7 DEF flow

\* All objects of a set are among its ordered ones.
LEMMA OrderedAll ==
  ASSUME NEW S, IsFiniteSet(S), S \subseteq Nat, NEW id \in S
  PROVE  \E i \in 1..Len(Ordered(S)) : Ordered(S)[i] = id
<1> DEFINE Below(x) == {y \in S : y < x}
           k == Cardinality(S)
           n == Cardinality(Below(id))
<1>1. \A x \in S : IsFiniteSet(Below(x)) /\ Cardinality(Below(x)) \in Nat
  <2>1. \A x \in S : Below(x) \subseteq S
    OBVIOUS
  <2> HIDE DEF Below
  <2> QED BY <2>1, FS_Subset, FS_CardinalityType
<1>2. k \in Nat
  BY FS_CardinalityType
<1>3. \A x \in S : x \notin Below(x) /\ Cardinality(Below(x) \cup {x}) = Cardinality(Below(x)) + 1
  <2>1. \A x \in S : x \notin Below(x)
    OBVIOUS
  <2> HIDE DEF Below
  <2> QED BY <1>1, <2>1, FS_AddElement
<1>4. n + 1 \in 1..k
  <2>1. Below(id) \cup {id} \subseteq S
    OBVIOUS
  <2> HIDE DEF Below
  <2>2. Cardinality(Below(id) \cup {id}) <= Cardinality(S)
    BY <2>1, FS_Subset
  <2> QED BY <1>1, <1>2, <1>3, <2>2
<1>5. \A x, y \in S : x < y => Cardinality(Below(x)) < Cardinality(Below(y))
  <2> SUFFICES ASSUME NEW x \in S, NEW y \in S, x < y PROVE Cardinality(Below(x)) < Cardinality(Below(y))
    OBVIOUS
  <2>1. Below(x) \cup {x} \subseteq Below(y)
    <3>1. \A z \in S : z < x => z < y
      <4> SUFFICES ASSUME NEW z \in S, z < x PROVE z < y
        OBVIOUS
      <4>1. z \in Nat /\ x \in Nat /\ y \in Nat
        OBVIOUS
      <4> QED BY <4>1
    <3> QED BY <3>1
  <2> HIDE DEF Below
  <2>2. Cardinality(Below(x) \cup {x}) <= Cardinality(Below(y))
    BY <1>1, <2>1, FS_Subset
  <2> QED BY <1>1, <1>3, <2>2
<1>6. \A x \in S : Cardinality(Below(x)) = n => x = id
  <2> SUFFICES ASSUME NEW x \in S, Cardinality(Below(x)) = n PROVE x = id
    OBVIOUS
  <2>1. ~(x < id) /\ ~(id < x)
    <3> HIDE DEF Below
    <3> QED BY <1>1, <1>5
  <2> QED BY <2>1
<1>7. DOMAIN Ordered(S) = 1..k /\ Ordered(S)[n + 1] = CHOOSE x \in S : Cardinality(Below(x)) = (n + 1) - 1
  <2> HIDE DEF n
  <2> QED BY <1>4 DEF Ordered
<1>8. (n + 1) - 1 = n
  <2> HIDE DEF Below
  <2> QED BY <1>1
<1>9. Ordered(S)[n + 1] = id
  <2> HIDE DEF Below
  <2> QED BY <1>6, <1>7, <1>8
<1>10. Len(Ordered(S)) = k
  BY OrderedIs
<1> HIDE DEF n
<1> QED BY <1>4, <1>7, <1>9, <1>10

\* Entering a dangling object in a map.
LEMMA InsertIs ==
  ASSUME NEW p, NEW m \in ObjectMaps(p), NEW id, NEW path
  PROVE  LET n == Insert(m, id, ObjectState("Dangling", path))
         IN  /\ DOMAIN n = DOMAIN m \cup {id}
             /\ Flagged(n) \subseteq Flagged(m)
             /\ \A x : IsDangling(m, x) => IsDangling(n, x)
<1> DEFINE n == Insert(m, id, ObjectState("Dangling", path))
<1>1. DOMAIN n = DOMAIN m \cup {id}
  BY DEF Insert
<1>2. n[id].kind = "Dangling" /\ \A x \in DOMAIN m : x # id => n[x] = m[x]
  BY DEF Insert, ObjectState
<1> HIDE DEF n
<1>3. Flagged(n) \subseteq Flagged(m)
  BY <1>1, <1>2 DEF Flagged
<1>4. \A x : IsDangling(m, x) => IsDangling(n, x)
  BY <1>1, <1>2 DEF IsDangling
<1> QED BY <1>1, <1>3, <1>4 DEF n

\* The objects of s stay in t, none gets flagged and dangling ones stay so.
Marked(s, t) ==
  /\ Grows(s, t)
  /\ FlaggedIn(t) \subseteq FlaggedIn(s)
  /\ \A x : IsDangling(s.dangling, x) => IsDangling(t.dangling, x)

\* A second free of the object is noticed by marking it again.
Noticed(p, s, id, path, causes) ==
  p.ids[id].unique /\ LastOf(p.ids[id].hints) # Last(path) /\ IsDangling(s.dangling, id) => id \in Caused(causes)

\* Marking a unique object as freed records it.
LEMMA MarkIs ==
  ASSUME NEW p, NEW s \in States(p), NEW id \in DOMAIN p.ids, NEW path
  PROVE  LET flow == mark_as_freed(p, s, id, path)
         IN  /\ Marked(s, flow.value)
             /\ p.ids[id].unique => IsRecorded(p, flow.value, id, Last(path))
             /\ Noticed(p, s, id, path, flow.warnings)
<1> DEFINE flow == mark_as_freed(p, s, id, path)
           Freed(m) == Insert(m, id, ObjectState("Dangling", path))
           IsNew == LastOf(p.ids[id].hints) = Last(path)
<1> SUFFICES /\ Marked(s, flow.value)
             /\ p.ids[id].unique => IsRecorded(p, flow.value, id, Last(path))
             /\ Noticed(p, s, id, path, flow.warnings)
  OBVIOUS
<1>1. \A m \in {s.dangling, s.same_call} :
        /\ DOMAIN Freed(m) = DOMAIN m \cup {id} /\ Flagged(Freed(m)) \subseteq Flagged(m)
        /\ \A x : IsDangling(m, x) => IsDangling(Freed(m), x)
  <2> SUFFICES ASSUME NEW m \in ObjectMaps(p)
               PROVE  /\ DOMAIN Freed(m) = DOMAIN m \cup {id} /\ Flagged(Freed(m)) \subseteq Flagged(m)
                      /\ \A x : IsDangling(m, x) => IsDangling(Freed(m), x)
    <3>1. s.dangling \in ObjectMaps(p) /\ s.same_call \in ObjectMaps(p)
      BY StatesAre
    <3> HIDE DEF Freed
    <3> QED BY <3>1
  <2> QED BY InsertIs
<1>2. CASE ~p.ids[id].unique
  <2>1. flow = Flow(s, {})
    BY <1>2 DEF mark_as_freed
  <2>2. flow.value = s
    BY <2>1 DEF Flow
  <2> QED BY <1>2, <2>2 DEF Marked, Grows, Noticed
<1>3. CASE p.ids[id].unique /\ IsNew
  <2>1. flow.value = [s EXCEPT !.same_call = Freed(s.same_call)]
    BY <1>3 DEF mark_as_freed, Flow
  <2> HIDE DEF Freed, flow
  <2>2. flow.value.fn = s.fn /\ flow.value.dangling = s.dangling /\ flow.value.same_call = Freed(s.same_call)
    BY <2>1 DEF States
  <2>3. Marked(s, flow.value)
    BY <1>1, <2>2 DEF Marked, Grows, FlaggedIn
  <2>4. IsRecorded(p, flow.value, id, Last(path))
    BY <1>1, <1>3, <2>2 DEF IsRecorded
  <2> QED BY <1>3, <2>3, <2>4 DEF Noticed
<1>4. CASE p.ids[id].unique /\ ~IsNew
  <2>1. flow.value = [s EXCEPT !.dangling = Freed(s.dangling)] /\ flow.warnings = Causes(s.dangling, {id})
    BY <1>4 DEF mark_as_freed, Flow
  <2> HIDE DEF Freed, flow
  <2>2. flow.value.fn = s.fn /\ flow.value.same_call = s.same_call /\ flow.value.dangling = Freed(s.dangling)
    BY <2>1 DEF States
  <2>3. Marked(s, flow.value)
    BY <1>1, <2>2 DEF Marked, Grows, FlaggedIn
  <2>4. IsRecorded(p, flow.value, id, Last(path))
    BY <1>1, <1>4, <2>2 DEF IsRecorded
  <2>5. ASSUME IsDangling(s.dangling, id) PROVE id \in Caused(flow.warnings)
    <3>1. <<id, s.dangling[id].path>> \in flow.warnings
      BY <2>1, <2>5 DEF Causes
    <3>2. <<id, s.dangling[id].path>>[1] = id
      OBVIOUS
    <3> QED BY <3>1, <3>2 DEF Caused
  <2> QED BY <2>3, <2>4, <2>5 DEF Noticed
<1> QED BY <1>2, <1>3, <1>4

\* Recorded objects stay recorded.
LEMMA RecordsStay ==
  ASSUME NEW p, NEW s, NEW t, NEW id, NEW call, Grows(s, t), IsRecorded(p, s, id, call)
  PROVE  IsRecorded(p, t, id, call)
BY DEF Grows, IsRecorded

\* Marking objects records the unique ones of them.
LEMMA MarkAllIs ==
  ASSUME NEW p, NEW s \in States(p), NEW path \in Seq(Int), NEW ids, ids \subseteq DOMAIN p.ids, IsListed(p.ids)
  PROVE  LET flow == MarkAll(p, s, ids, path)
         IN  /\ Marked(s, flow.value)
             /\ \A id \in ids : /\ p.ids[id].unique => IsRecorded(p, flow.value, id, Last(path))
                                /\ Noticed(p, s, id, path, flow.warnings)
<1> DEFINE seq == Ordered(ids)
           k == Len(seq)
           flow == MarkAll(p, s, ids, path)
<1>1. PICK c : /\ Taken(c, k, s, States(p), AllCauses(p), flow)
               /\ \A i \in 1..k : Adds(c, i, mark_as_freed(p, c[i - 1].value, seq[i], path))
  BY MarkAllTurns
<1>2. /\ k \in Nat /\ \A i \in 1..k : seq[i] \in DOMAIN p.ids
      /\ \A id \in ids : \E i \in 1..k : seq[i] = id
  <2>1. DOMAIN p.ids = 1..Len(p.ids) /\ Len(p.ids) \in Nat
    BY DEF IsListed
  <2>2. IsFiniteSet(DOMAIN p.ids)
    BY <2>1, FS_Interval
  <2>3. IsFiniteSet(ids) /\ ids \subseteq Nat
    BY <2>1, <2>2, FS_Subset
  <2> QED BY <2>3, OrderedIs, OrderedAll
<1> HIDE DEF seq, k, flow
<1>3. c[0] = Flow(s, {}) /\ c[k] = flow /\ \A i \in 0..k : c[i].value \in States(p)
  BY <1>1 DEF Taken
<1> DEFINE Good(i) == /\ Marked(s, c[i].value)
                      /\ \A l \in 1..i : /\ p.ids[seq[l]].unique => IsRecorded(p, c[i].value, seq[l], Last(path))
                                         /\ Noticed(p, s, seq[l], path, c[i].warnings)
           T == {i \in Nat : i <= k => Good(i)}
<1>4. 0 \in T
  BY <1>3 DEF Flow, Marked, Grows
<1>5. \A i \in Nat : i \in T => i + 1 \in T
  <2> SUFFICES ASSUME NEW i \in Nat, i + 1 <= k, Good(i) PROVE Good(i + 1)
    <3>1. \A i \in Nat : i + 1 <= k => i <= k
      BY <1>2
    <3> HIDE DEF Good
    <3> QED BY <3>1
  <2> DEFINE t == c[i].value
             u == c[i + 1].value
             id == seq[i + 1]
             step == mark_as_freed(p, t, id, path)
  <2>1. i + 1 \in 1..k /\ (i + 1) - 1 = i /\ i \in 0..k
    BY <1>2
  <2>2. Adds(c, i + 1, step)
    BY <1>1, <2>1
  <2>3. t \in States(p) /\ id \in DOMAIN p.ids
    BY <1>2, <1>3, <2>1
  <2>4. /\ Marked(t, step.value)
        /\ p.ids[id].unique => IsRecorded(p, step.value, id, Last(path))
        /\ Noticed(p, t, id, path, step.warnings)
    <3> HIDE DEF t, id
    <3> QED BY <2>3, MarkIs
  <2>5. u = step.value /\ c[i + 1].warnings = c[i].warnings \cup step.warnings
    <3> HIDE DEF step
    <3> QED BY <2>1, <2>2 DEF Adds
  <2>6. /\ Marked(s, t)
        /\ \A l \in 1..i : /\ p.ids[seq[l]].unique => IsRecorded(p, t, seq[l], Last(path))
                           /\ Noticed(p, s, seq[l], path, c[i].warnings)
    OBVIOUS
  <2> HIDE DEF t, u, step
  <2>7. Marked(s, u)
    BY <2>4, <2>5, <2>6 DEF Marked, Grows
  <2>8. Caused(c[i + 1].warnings) = Caused(c[i].warnings) \cup Caused(step.warnings)
    BY <2>5 DEF Caused
  <2>9. ASSUME NEW l \in 1..(i + 1)
        PROVE  /\ p.ids[seq[l]].unique => IsRecorded(p, u, seq[l], Last(path))
               /\ Noticed(p, s, seq[l], path, c[i + 1].warnings)
    <3>1. CASE l = i + 1
      BY <2>4, <2>5, <2>6, <2>8, <3>1 DEF Noticed, Marked
    <3>2. CASE l \in 1..i
      <4>1. Grows(t, u)
        BY <2>4, <2>5 DEF Marked
      <4> HIDE DEF id
      <4> QED BY <2>6, <2>8, <3>2, <4>1, RecordsStay DEF Noticed
    <3> QED BY <3>1, <3>2
  <2> QED BY <2>7, <2>9 DEF t, u
<1>6. \A i \in Nat : i \in T
  <2> HIDE DEF T
  <2> QED BY <1>4, <1>5, Induction
<1>7. Good(k)
  BY <1>2, <1>6
<1> QED BY <1>2, <1>3, <1>7 DEF flow

\* What the callee freed and did not use is recorded in the caller.
LEMMA CollectIs ==
  ASSUME NEW p, NEW s \in States(p), NEW callee \in States(p), NEW call \in Int, NEW renaming, IsListed(p.ids),
         \A id \in DOMAIN renaming : renaming[id] \subseteq DOMAIN p.ids
  PROVE  LET t == collect_freed_objects_from_called_function(p, s, callee, renaming, call)
         IN  /\ Marked(s, t)
             /\ \A id \in DOMAIN callee.dangling \ Flagged(callee.dangling) :
                  \A x \in TargetsOf(p, renaming, call, id) : p.ids[x].unique => IsRecorded(p, t, x, call)
<1> DEFINE m == callee.dangling
           seq == Ordered(DOMAIN m)
           k == Len(seq)
           flow == collect_freed_objects_from_called_function(p, s, callee, renaming, call)
           Done1(t, id) == id \notin Flagged(m) =>
                             \A x \in TargetsOf(p, renaming, call, id) : p.ids[x].unique => IsRecorded(p, t, x, call)
<1>1. PICK c : /\ Taken(c, k, s, States(p), AllCauses(p), c[k])
               /\ flow = c[k].value
               /\ \A i \in 1..k :
                    Adds(c, i, IF m[seq[i]].kind = "AlreadyFlagged" THEN Flow(c[i - 1].value, {})
                               ELSE MarkAll(p, c[i - 1].value, TargetsOf(p, renaming, call, seq[i]),
                                            Append(m[seq[i]].path, call)))
  BY CollectTurns
<1>2. m \in [DOMAIN m -> ObjectStates] /\ DOMAIN m \subseteq DOMAIN p.ids
  BY StatesAre, MapsAre
<1>3. /\ k \in Nat /\ \A i \in 1..k : seq[i] \in DOMAIN m
      /\ \A id \in DOMAIN m : \E i \in 1..k : seq[i] = id
  <2>1. DOMAIN p.ids = 1..Len(p.ids) /\ Len(p.ids) \in Nat
    BY DEF IsListed
  <2>2. IsFiniteSet(DOMAIN p.ids)
    BY <2>1, FS_Interval
  <2> HIDE DEF m
  <2>3. IsFiniteSet(DOMAIN m) /\ DOMAIN m \subseteq Nat
    BY <1>2, <2>1, <2>2, FS_Subset
  <2> QED BY <2>3, OrderedIs, OrderedAll
<1> HIDE DEF m, seq, k, flow
<1>4. c[0] = Flow(s, {}) /\ \A i \in 0..k : c[i].value \in States(p)
  BY <1>1 DEF Taken
<1> DEFINE Good(i) == Marked(s, c[i].value) /\ \A l \in 1..i : Done1(c[i].value, seq[l])
           T == {i \in Nat : i <= k => Good(i)}
<1>5. 0 \in T
  BY <1>4 DEF Flow, Marked, Grows
<1>6. \A i \in Nat : i \in T => i + 1 \in T
  <2> SUFFICES ASSUME NEW i \in Nat, i + 1 <= k, Good(i) PROVE Good(i + 1)
    <3>1. \A i \in Nat : i + 1 <= k => i <= k
      BY <1>3
    <3> HIDE DEF Good
    <3> QED BY <3>1
  <2> DEFINE t == c[i].value
             u == c[i + 1].value
             id == seq[i + 1]
             path == Append(m[id].path, call)
             ids == TargetsOf(p, renaming, call, id)
             step == IF m[id].kind = "AlreadyFlagged" THEN Flow(t, {}) ELSE MarkAll(p, t, ids, path)
  <2>1. i + 1 \in 1..k /\ (i + 1) - 1 = i /\ i \in 0..k
    BY <1>3
  <2>2. Adds(c, i + 1, step)
    BY <1>1, <2>1
  <2>3. t \in States(p) /\ id \in DOMAIN m
    BY <1>3, <1>4, <2>1
  <2>4. path \in Seq(Int) /\ Last(path) = call
    <3>1. m[id] \in ObjectStates
      BY <1>2, <2>3
    <3>2. m[id].path \in Seq(Int)
      BY <3>1 DEF ObjectStates
    <3> HIDE DEF id
    <3> QED BY <3>2 DEF Last
  <2>5. ids \subseteq DOMAIN p.ids
    BY NonRecursive DEF TargetsOf
  <2> HIDE DEF t, id, path, ids
  <2>6. Marked(t, step.value) /\ Done1(step.value, id)
    <3>1. CASE m[id].kind = "AlreadyFlagged"
      <4>1. id \in Flagged(m)
        BY <2>3, <3>1 DEF Flagged
      <4>2. step.value = t
        BY <3>1 DEF Flow
      <4> QED BY <4>1, <4>2 DEF Marked, Grows
    <3>2. CASE m[id].kind # "AlreadyFlagged"
      <4>1. step = MarkAll(p, t, ids, path)
        BY <3>2
      <4> HIDE DEF step
      <4>2. Marked(t, step.value) /\ \A x \in ids : p.ids[x].unique => IsRecorded(p, step.value, x, Last(path))
        BY <2>3, <2>4, <2>5, <4>1, MarkAllIs
      <4> QED BY <2>4, <4>2 DEF ids
    <3> QED BY <3>1, <3>2
  <2>7. u = step.value
    <3> HIDE DEF step
    <3> QED BY <2>1, <2>2 DEF Adds, t
  <2>8. Marked(s, t) /\ \A l \in 1..i : Done1(t, seq[l])
    BY DEF t
  <2> HIDE DEF u, step, Done1
  <2>9. Marked(s, u)
    BY <2>6, <2>7, <2>8 DEF Marked, Grows
  <2>10. ASSUME NEW l \in 1..(i + 1) PROVE Done1(u, seq[l])
    <3>1. CASE l = i + 1
      BY <2>6, <2>7, <3>1 DEF id
    <3>2. CASE l \in 1..i
      <4>1. Grows(t, u)
        BY <2>6, <2>7 DEF Marked
      <4>2. Done1(t, seq[l])
        BY <2>8, <3>2
      <4> QED BY <4>1, <4>2, RecordsStay DEF Done1
    <3> QED BY <3>1, <3>2
  <2> QED BY <2>9, <2>10 DEF u
<1>7. \A i \in Nat : i \in T
  <2> HIDE DEF T
  <2> QED BY <1>5, <1>6, Induction
<1>8. Good(k)
  BY <1>3, <1>7
<1>9. \A id \in DOMAIN m : Done1(flow, id)
  BY <1>1, <1>3, <1>8
<1> QED BY <1>1, <1>8, <1>9 DEF flow, m

\* The objects that warnings name, with the function of the warning.
Named(ws) == UNION {{<<w.fn, c[1]>> : c \in w.causes} : w \in ws}

\* On the way from s to t objects were flagged, and warnings name them.
Warned(s, t, ws) ==
  /\ Grows(s, t)
  /\ FlaggedIn(s) \subseteq FlaggedIn(t)
  /\ \A id \in FlaggedIn(t) : id \in FlaggedIn(s) \/ <<s.fn, id>> \in Named(ws)

\* The causes of a warning are named by it.
LEMMA ContextNames ==
  ASSUME NEW name, NEW tid, NEW causes, NEW fn
  PROVE  \A id : id \in Caused(causes) => <<fn, id>> \in Named(WarningContext(name, tid, causes, fn))
<1> SUFFICES ASSUME NEW c \in causes PROVE <<fn, c[1]>> \in Named(WarningContext(name, tid, causes, fn))
  BY DEF Caused
<1> DEFINE w == [name |-> name, tid |-> tid, causes |-> causes, fn |-> fn]
<1>1. WarningContext(name, tid, causes, fn) = {w}
  BY DEF WarningContext
<1>2. w.fn = fn /\ w.causes = causes
  OBVIOUS
<1> HIDE DEF w
<1> QED BY <1>1, <1>2 DEF Named

\* A warning is sent for the objects that a check flags.
LEMMA UseWarns ==
  ASSUME NEW s, NEW tid, NEW flow, Checked(s, flow.value, flow.warnings)
  PROVE  Warned(s, UseWarning(tid, flow).value, UseWarning(tid, flow).warnings)
<1>1. /\ UseWarning(tid, flow).value = flow.value
      /\ UseWarning(tid, flow).warnings = WarningContext(416, tid, flow.warnings, flow.value.fn)
  BY DEF UseWarning, Flow
<1>2. flow.value.fn = s.fn
  BY DEF Checked, Grows
<1> QED BY <1>1, <1>2, ContextNames DEF Checked, Warned

\* Warnings of steps after one another.
LEMMA WarnedOn ==
  ASSUME NEW s, NEW t, NEW u, NEW V, NEW W, Warned(s, t, V), Warned(t, u, W)
  PROVE  Warned(s, u, V \cup W) /\ Known(s) \subseteq Known(t)
<1>1. Named(V \cup W) = Named(V) \cup Named(W)
  BY DEF Named
<1> QED BY <1>1 DEF Warned, Grows, Known

\* A definition flags the known ones of the objects that it accesses.
LEMMA DefIs ==
  ASSUME NEW p, NEW s \in States(p), NEW def, NEW tid
  PROVE  LET flow == update_def(s, def, tid)
         IN  /\ Warned(s, flow.value, flow.warnings)
             /\ def.at # None => def.at \cap Known(s) \subseteq FlaggedIn(flow.value)
<1>1. CASE def.at = None
  <2>1. update_def(s, def, tid).value = s
    BY <1>1 DEF update_def, Flow
  <2> QED BY <1>1, <2>1 DEF Warned, Grows
<1>2. CASE def.at # None
  <2> DEFINE flow == check_address_for_use_after_free(s, def.at)
  <2>1. update_def(s, def, tid) = UseWarning(tid, flow)
    BY <1>2 DEF update_def
  <2>2. Checked(s, flow.value, flow.warnings) /\ def.at \cap Known(s) \subseteq FlaggedIn(flow.value)
    BY CheckIs
  <2> HIDE DEF flow
  <2>3. UseWarning(tid, flow).value = flow.value
    BY DEF UseWarning, Flow
  <2> QED BY <2>1, <2>2, <2>3, UseWarns
<1> QED BY <1>1, <1>2

\* The definitions of a block flag the known ones of all objects they access.
LEMMA DefsAre ==
  ASSUME NEW p, IsListed(p.ids), NEW s \in States(p), NEW b \in Nat, IsListed(p.blks[b].defs)
  PROVE  LET flow == BlockFlow(p, s, b)
             defs == p.blks[b].defs
         IN  /\ Warned(s, flow.value, flow.warnings)
             /\ \A i \in DOMAIN defs : defs[i].at # None => defs[i].at \cap Known(s) \subseteq FlaggedIn(flow.value)
<1> DEFINE defs == p.blks[b].defs
           k == Len(defs)
           flow == BlockFlow(p, s, b)
<1>1. PICK c : /\ Taken(c, k, s, States(p), AllWarnings(p), flow)
               /\ \A i \in 1..k : Adds(c, i, update_def(c[i - 1].value, defs[i], Tid(b, i)))
  BY DefsTurns
<1>2. k \in Nat /\ DOMAIN defs = 1..k
  BY DEF IsListed
<1> HIDE DEF k, flow, defs
<1>3. /\ c[0] = Flow(s, {}) /\ c[k] = flow
      /\ \A i \in 0..k : c[i].value \in States(p)
  BY <1>1 DEF Taken
<1> DEFINE Good(i) == /\ Warned(s, c[i].value, c[i].warnings)
                      /\ \A l \in 1..i : defs[l].at # None => defs[l].at \cap Known(s) \subseteq FlaggedIn(c[i].value)
           T == {i \in Nat : i <= k => Good(i)}
<1>4. 0 \in T
  BY <1>3 DEF Flow, Warned, Grows
<1>5. \A i \in Nat : i \in T => i + 1 \in T
  <2> SUFFICES ASSUME NEW i \in Nat, i + 1 <= k, Good(i) PROVE Good(i + 1)
    <3>1. \A i \in Nat : i + 1 <= k => i <= k
      BY <1>2
    <3> HIDE DEF Good
    <3> QED BY <3>1
  <2> DEFINE t == c[i].value
             u == c[i + 1].value
             step == update_def(t, defs[i + 1], Tid(b, i + 1))
  <2>1. i + 1 \in 1..k /\ (i + 1) - 1 = i /\ i \in 0..k
    BY <1>2
  <2>2. Adds(c, i + 1, step)
    BY <1>1, <2>1
  <2>3. t \in States(p)
    BY <1>3, <2>1
  <2>4. /\ Warned(t, step.value, step.warnings)
        /\ defs[i + 1].at # None => defs[i + 1].at \cap Known(t) \subseteq FlaggedIn(step.value)
    BY <2>3, DefIs
  <2> HIDE DEF step
  <2>5. u = step.value /\ c[i + 1].warnings = c[i].warnings \cup step.warnings
    BY <2>1, <2>2 DEF Adds
  <2>6. /\ Warned(s, t, c[i].warnings)
        /\ \A l \in 1..i : defs[l].at # None => defs[l].at \cap Known(s) \subseteq FlaggedIn(t)
    OBVIOUS
  <2> HIDE DEF t, u
  <2>7. Warned(s, u, c[i + 1].warnings) /\ Known(s) \subseteq Known(t)
    <3>1. Warned(t, u, step.warnings)
      BY <2>4, <2>5
    <3>2. Warned(s, u, c[i].warnings \cup step.warnings) /\ Known(s) \subseteq Known(t)
      BY <2>6, <3>1, WarnedOn
    <3> QED BY <2>5, <3>2
  <2>8. FlaggedIn(t) \subseteq FlaggedIn(u)
    BY <2>4, <2>5 DEF Warned
  <2>9. ASSUME NEW l \in 1..(i + 1), defs[l].at # None PROVE defs[l].at \cap Known(s) \subseteq FlaggedIn(u)
    <3>1. CASE l = i + 1
      BY <2>4, <2>5, <2>7, <2>9, <3>1
    <3>2. CASE l \in 1..i
      BY <2>6, <2>8, <2>9, <3>2
    <3> QED BY <3>1, <3>2
  <2> QED BY <2>7, <2>9 DEF u
<1>6. \A i \in Nat : i \in T
  <2> HIDE DEF T
  <2> QED BY <1>4, <1>5, Induction
<1>7. Good(k)
  BY <1>2, <1>6
<1> QED BY <1>2, <1>3, <1>7 DEF flow, defs

\* The objects that t has flagged were flagged in s or are named by a warning.
Accounted(s, t, ws) ==
  Grows(s, t) /\ \A id \in FlaggedIn(t) : id \in FlaggedIn(s) \/ <<s.fn, id>> \in Named(ws)

\* The use of an object that s has is accounted for.
Spotted(s, id, ws) == id \in FlaggedIn(s) \/ <<s.fn, id>> \in Named(ws)

\* Checking all arguments of a call, as one step with a warning.
LEMMA ArgsAre ==
  ASSUME NEW p, IsListed(p.ids), NEW s \in States(p), NEW args1, IsListed(args1), NEW tid
  PROVE  LET flow == UseWarning(tid, collect_cwe_warnings_of_call_params(s, args1))
         IN  /\ Warned(s, flow.value, flow.warnings)
             /\ \A id \in ArgIds(args1) \cap Known(s) : Spotted(s, id, flow.warnings)
<1> DEFINE params == collect_cwe_warnings_of_call_params(s, args1)
           flow == UseWarning(tid, params)
<1>1. /\ Checked(s, params.value, params.warnings)
      /\ \A i \in DOMAIN args1 : args1[i] # None => args1[i] \cap Known(s) \subseteq FlaggedIn(params.value)
  BY ParamsAre
<1> HIDE DEF params
<1>2. Warned(s, flow.value, flow.warnings) /\ flow.value = params.value
  BY <1>1, UseWarns DEF UseWarning, Flow
<1>3. ASSUME NEW id \in ArgIds(args1) \cap Known(s) PROVE Spotted(s, id, flow.warnings)
  <2>1. PICK i \in DOMAIN args1 : args1[i] # None /\ id \in args1[i]
    BY DEF ArgIds, Range
  <2>2. id \in FlaggedIn(params.value)
    BY <1>1, <2>1
  <2> HIDE DEF flow
  <2> QED BY <1>2, <2>2 DEF Warned, Spotted
<1> QED BY <1>2, <1>3 DEF params

\* The warning of a call of free names the objects that were freed before.
LEMMA FreeIs ==
  ASSUME NEW p, IsListed(p.ids), NEW s \in States(p), NEW j, NEW tid \in Int,
         j.args # <<>>, j.args[1] # None, j.args[1] \subseteq DOMAIN p.ids,
         \A id \in DOMAIN p.ids : LastOf(p.ids[id].hints) # tid
  PROVE  LET flow == handle_call_to_free(p, s, j, tid)
         IN  /\ Accounted(s, flow.value, flow.warnings)
             /\ \A id \in get_non_recursive_ids(p, j.args[1]) :
                  p.ids[id].unique => /\ IsRecorded(p, flow.value, id, tid)
                                      /\ id \in DOMAIN s.dangling => Spotted(s, id, flow.warnings)
<1> DEFINE ids == get_non_recursive_ids(p, j.args[1])
           marked == MarkAll(p, s, ids, <<tid>>)
           flow == handle_call_to_free(p, s, j, tid)
<1>1. ids \subseteq DOMAIN p.ids /\ <<tid>> \in Seq(Int)
  BY NonRecursive
<1>2. Last(<<tid>>) = tid
  BY DEF Last
<1>3. flow.value = marked.value /\ flow.warnings = WarningContext(415, tid, marked.warnings, s.fn)
  BY DEF handle_call_to_free, handle_param_of_free_call, Flow
<1> HIDE DEF ids, flow
<1>4. /\ Marked(s, marked.value)
      /\ \A id \in ids : /\ p.ids[id].unique => IsRecorded(p, marked.value, id, tid)
                         /\ Noticed(p, s, id, <<tid>>, marked.warnings)
  BY <1>1, <1>2, MarkAllIs
<1> HIDE DEF marked
<1>5. Accounted(s, flow.value, flow.warnings)
  BY <1>3, <1>4 DEF Accounted, Marked
<1>6. ASSUME NEW id \in ids, p.ids[id].unique, id \in DOMAIN s.dangling PROVE Spotted(s, id, flow.warnings)
  <2>1. CASE id \in FlaggedIn(s)
    BY <2>1 DEF Spotted
  <2>2. CASE id \notin FlaggedIn(s)
    <3>1. s.dangling \in [DOMAIN s.dangling -> ObjectStates]
      BY StatesAre, MapsAre
    <3>2. s.dangling[id].kind \in {"Dangling", "AlreadyFlagged"}
      BY <1>6, <3>1 DEF ObjectStates
    <3>3. IsDangling(s.dangling, id)
      BY <1>6, <2>2, <3>2 DEF IsDangling, FlaggedIn, Flagged
    <3>4. LastOf(p.ids[id].hints) # tid
      BY <1>1
    <3>5. id \in Caused(marked.warnings)
      BY <1>2, <1>4, <1>6, <3>3, <3>4 DEF Noticed
    <3>6. <<s.fn, id>> \in Named(flow.warnings)
      BY <1>3, <3>5, ContextNames
    <3> QED BY <3>6 DEF Spotted
  <2> QED BY <2>1, <2>2
<1>7. \A id \in ids : p.ids[id].unique => IsRecorded(p, flow.value, id, tid)
  BY <1>3, <1>4
<1> QED BY <1>5, <1>6, <1>7 DEF ids, flow

\* A return from a callee with a state before the call.
LEMMA ReturnIs ==
  ASSUME NEW p, IsListed(p.ids), NEW s \in States(p), NEW callee \in States(p), NEW j, IsListed(j.args),
         None \notin States(p), NEW tid \in Int, j.renaming # None,
         \A id \in DOMAIN j.renaming : j.renaming[id] \subseteq DOMAIN p.ids
  PROVE  LET flow == update_return(p, callee, s, j, tid)
         IN  /\ flow.value # None
             /\ Accounted(s, flow.value, flow.warnings)
             /\ \A id \in DOMAIN callee.dangling \ Flagged(callee.dangling) :
                  \A x \in TargetsOf(p, j.renaming, tid, id) : p.ids[x].unique => IsRecorded(p, flow.value, x, tid)
<1> DEFINE checked == UseWarning(tid, collect_cwe_warnings_of_call_params(s, j.args))
           flow == update_return(p, callee, s, j, tid)
<1>1. callee # None /\ s # None
  OBVIOUS
<1>2. /\ flow.value = collect_freed_objects_from_called_function(p, checked.value, callee, j.renaming, tid)
      /\ flow.warnings = checked.warnings
  BY <1>1 DEF update_return, check_internal_call_params_for_use_after_free, Flow
<1>3. Warned(s, checked.value, checked.warnings)
  BY ArgsAre
<1>4. checked.value \in States(p)
  BY ParamsTyped DEF UseWarning, Flow
<1> HIDE DEF checked, flow
<1>5. /\ Marked(checked.value, flow.value)
      /\ \A id \in DOMAIN callee.dangling \ Flagged(callee.dangling) :
           \A x \in TargetsOf(p, j.renaming, tid, id) : p.ids[x].unique => IsRecorded(p, flow.value, x, tid)
  BY <1>2, <1>4, CollectIs
<1>6. flow.value \in States(p)
  BY <1>2, <1>4, CollectTyped
<1>7. Accounted(s, flow.value, flow.warnings)
  BY <1>2, <1>3, <1>5 DEF Accounted, Warned, Marked, Grows
<1> QED BY <1>5, <1>6, <1>7 DEF flow

-----------------------------------------------------------------------------
(* The check for CWE416 names every object that it flags *)

\* A merged state has the objects of both states, and flags only their flags.
LEMMA MergeKeeps ==
  ASSUME NEW p, NEW s \in States(p), NEW t \in States(p), s.fn = t.fn
  PROVE  /\ Grows(s, merge(s, t)) /\ Grows(t, merge(s, t))
         /\ FlaggedIn(merge(s, t)) \subseteq FlaggedIn(s) \cup FlaggedIn(t)
<1>1. ASSUME NEW m \in ObjectMaps(p), NEW n \in ObjectMaps(p)
      PROVE  /\ DOMAIN merge_map(m, n) = DOMAIN m \cup DOMAIN n
             /\ Flagged(merge_map(m, n)) \subseteq Flagged(m) \cup Flagged(n)
  <2> DEFINE r == merge_map(m, n)
  <2>1. r = [id \in DOMAIN m \cup DOMAIN n |->
               IF id \notin DOMAIN n THEN m[id] ELSE IF id \notin DOMAIN m THEN n[id]
               ELSE merge_object(m[id], n[id])]
    BY DEF merge_map
  <2> HIDE DEF r
  <2>2. ASSUME NEW id \in DOMAIN r, r[id].kind = "AlreadyFlagged" PROVE id \in Flagged(m) \cup Flagged(n)
    <3>1. CASE id \notin DOMAIN n
      BY <2>1, <2>2, <3>1 DEF Flagged
    <3>2. CASE id \notin DOMAIN m
      BY <2>1, <2>2, <3>2 DEF Flagged
    <3>3. CASE id \in DOMAIN m /\ id \in DOMAIN n
      <4>1. merge_object(m[id], n[id]).kind = "AlreadyFlagged"
        BY <2>1, <2>2, <3>3
      <4>2. m[id].kind = "AlreadyFlagged" \/ n[id].kind = "AlreadyFlagged"
        BY <4>1 DEF merge_object, ObjectState
      <4> QED BY <3>3, <4>2 DEF Flagged
    <3> QED BY <3>1, <3>2, <3>3
  <2>3. DOMAIN r = DOMAIN m \cup DOMAIN n
    BY <2>1
  <2>4. Flagged(r) \subseteq Flagged(m) \cup Flagged(n)
    <3> SUFFICES ASSUME NEW id \in DOMAIN r, r[id].kind = "AlreadyFlagged" PROVE id \in Flagged(m) \cup Flagged(n)
      BY DEF Flagged
    <3> QED BY <2>2
  <2> QED BY <2>3, <2>4 DEF r
<1>2. /\ s.dangling \in ObjectMaps(p) /\ s.same_call \in ObjectMaps(p)
      /\ t.dangling \in ObjectMaps(p) /\ t.same_call \in ObjectMaps(p)
  BY StatesAre
<1> DEFINE d == merge_map(s.dangling, t.dangling)
           c == merge_map(s.same_call, t.same_call)
<1>3. /\ DOMAIN d = DOMAIN s.dangling \cup DOMAIN t.dangling
      /\ Flagged(d) \subseteq Flagged(s.dangling) \cup Flagged(t.dangling)
      /\ DOMAIN c = DOMAIN s.same_call \cup DOMAIN t.same_call
      /\ Flagged(c) \subseteq Flagged(s.same_call) \cup Flagged(t.same_call)
  BY <1>1, <1>2
<1>4. merge(s, t) = [s EXCEPT !.dangling = d, !.same_call = c]
  BY DEF merge
<1> HIDE DEF d, c
<1>5. merge(s, t).fn = s.fn /\ merge(s, t).dangling = d /\ merge(s, t).same_call = c
  BY <1>4 DEF States
<1> QED BY <1>3, <1>5 DEF Grows, FlaggedIn

\* The objects of s are in t, if s is a state.
OptionGrows(s, t) == s = None \/ (t # None /\ Grows(s, t))
NodeGrows(n, v, w) ==
  v = None \/ /\ w # None
              /\ IF n[1] # "CallReturn" THEN Grows(v, w)
                 ELSE OptionGrows(v.call_stub, w.call_stub) /\ OptionGrows(v.flow, w.flow)

\* The state is one of the function f, and warnings name its flagged objects.
Honest(s, f, ws) == s = None \/ (s.fn = f /\ \A id \in FlaggedIn(s) : <<f, id>> \in Named(ws))
NodeHonest(p, n, v, ws) ==
  v = None \/ IF n[1] # "CallReturn" THEN Honest(v, p.blks[n[2]].sub, ws)
              ELSE Honest(v.call_stub, p.blks[n[2]].sub, ws) /\ Honest(v.flow, p.blks[n[3]].sub, ws)

\* More warnings name more objects.
LEMMA MoreNames ==
  ASSUME NEW V, NEW W, V \subseteq W
  PROVE  /\ Named(V) \subseteq Named(W)
         /\ \A s, f : Honest(s, f, V) => Honest(s, f, W)
         /\ \A p, n, v : NodeHonest(p, n, v, V) => NodeHonest(p, n, v, W)
<1>1. Named(V) \subseteq Named(W)
  BY DEF Named
<1> QED BY <1>1 DEF Honest, NodeHonest

\* A step that accounts for flags keeps a state honest.
LEMMA HonestOn ==
  ASSUME NEW s, NEW t, NEW f, NEW V, NEW W, Honest(s, f, V), s # None, Accounted(s, t, W)
  PROVE  Honest(t, f, V \cup W)
<1>1. Named(V \cup W) = Named(V) \cup Named(W)
  BY DEF Named
<1> QED BY <1>1 DEF Honest, Accounted, Grows

\* Merging optional states keeps them honest and keeps their objects.
LEMMA OptionKeeps ==
  ASSUME NEW p, None \notin States(p), NEW v \in States(p) \cup {None}, NEW w \in States(p) \cup {None},
         NEW f, NEW ws, Honest(v, f, ws), Honest(w, f, ws)
  PROVE  /\ Honest(MergeOption(v, w), f, ws)
         /\ OptionGrows(v, MergeOption(v, w)) /\ OptionGrows(w, MergeOption(v, w))
<1>1. CASE v = None \/ w = None
  BY <1>1 DEF MergeOption, OptionGrows, Grows
<1>2. CASE v # None /\ w # None
  <2>1. MergeOption(v, w) = merge(v, w)
    BY <1>2 DEF MergeOption
  <2>2. v \in States(p) /\ w \in States(p) /\ v.fn = f /\ w.fn = f
    BY <1>2 DEF Honest
  <2>3. /\ Grows(v, merge(v, w)) /\ Grows(w, merge(v, w))
        /\ FlaggedIn(merge(v, w)) \subseteq FlaggedIn(v) \cup FlaggedIn(w)
    BY <2>2, MergeKeeps
  <2>4. merge(v, w) # None
    BY <2>2, MergeUp
  <2>5. Honest(merge(v, w), f, ws)
    BY <1>2, <2>2, <2>3 DEF Honest, Grows
  <2> QED BY <2>1, <2>3, <2>4, <2>5 DEF OptionGrows
<1> QED BY <1>1, <1>2

\* Merging a value into that of a node keeps both honest and has the objects of
\* both.
LEMMA ValuesKeep ==
  ASSUME input \in Inputs, NEW n, NEW v, v = None \/ v \in NodeValues(prog, n), NEW w \in NodeValues(prog, n),
         NEW ws, NodeHonest(prog, n, v, ws), NodeHonest(prog, n, w, ws)
  PROVE  LET u == MergeValues(n, v, w)
         IN  NodeHonest(prog, n, u, ws) /\ NodeGrows(n, v, u) /\ NodeGrows(n, w, u)
<1> DEFINE u == MergeValues(n, v, w)
<1> SUFFICES NodeHonest(prog, n, u, ws) /\ NodeGrows(n, v, u) /\ NodeGrows(n, w, u)
  OBVIOUS
<1>1. None \notin States(prog) /\ w # None
  BY NoneIsNoNodeValue
<1>2. u # None
  BY <1>1, MergeValuesUp, NoneIsNoNodeValue
<1>3. CASE v = None
  <2>1. u = w
    BY <1>3 DEF MergeValues
  <2> HIDE DEF u
  <2> QED BY <1>1, <1>3, <2>1 DEF NodeGrows, OptionGrows, Grows
<1>4. CASE v # None /\ n[1] # "CallReturn"
  <2>1. u = merge(v, w)
    BY <1>4 DEF MergeValues
  <2>2. u = MergeOption(v, w)
    BY <1>1, <1>4, <2>1 DEF MergeOption
  <2>3. v \in States(prog) /\ w \in States(prog)
    BY <1>4 DEF NodeValues
  <2> HIDE DEF u
  <2>4. /\ Honest(u, prog.blks[n[2]].sub, ws)
        /\ OptionGrows(v, u) /\ OptionGrows(w, u)
    BY <1>1, <1>4, <2>2, <2>3, OptionKeeps DEF NodeHonest
  <2> QED BY <1>1, <1>2, <1>4, <2>4 DEF NodeHonest, NodeGrows, OptionGrows
<1>5. CASE v # None /\ n[1] = "CallReturn"
  <2> DEFINE O == States(prog) \cup {None}
             c == MergeOption(v.call_stub, w.call_stub)
             f == MergeOption(v.flow, w.flow)
  <2>1. NodeValues(prog, n) = [call_stub : O, flow : O]
    BY <1>5 DEF NodeValues
  <2>2. v.call_stub \in O /\ v.flow \in O /\ w.call_stub \in O /\ w.flow \in O
    <3> HIDE DEF O
    <3> QED BY <1>5, <2>1
  <2>3. u.call_stub = c /\ u.flow = f
    BY <1>5 DEF MergeValues
  <2> HIDE DEF u
  <2>4. /\ Honest(v.call_stub, prog.blks[n[2]].sub, ws) /\ Honest(w.call_stub, prog.blks[n[2]].sub, ws)
        /\ Honest(v.flow, prog.blks[n[3]].sub, ws) /\ Honest(w.flow, prog.blks[n[3]].sub, ws)
    BY <1>1, <1>5 DEF NodeHonest
  <2>5. /\ Honest(c, prog.blks[n[2]].sub, ws) /\ OptionGrows(v.call_stub, c) /\ OptionGrows(w.call_stub, c)
        /\ Honest(f, prog.blks[n[3]].sub, ws) /\ OptionGrows(v.flow, f) /\ OptionGrows(w.flow, f)
    BY <1>1, <2>2, <2>4, OptionKeeps
  <2> QED BY <1>2, <1>5, <2>3, <2>5 DEF NodeHonest, NodeGrows
<1> QED BY <1>3, <1>4, <1>5

\* Objects stay along two steps.
LEMMA NodeGrowsOn ==
  ASSUME NEW n, NEW u, NEW v, NEW w, NodeGrows(n, u, v), NodeGrows(n, v, w)
  PROVE  NodeGrows(n, u, w)
BY DEF NodeGrows, OptionGrows, Grows

\* What a node sends, by the kind of the node: the end of a block, the block
\* after a return, a callee, the return nodes for a call and for a returning
\* block, the block after a call that is not entered, and jump targets.
SendsEnd(n, v, f) ==
  \E b \in DOMAIN prog.blks : n = Start(b) /\ f = <<End(b), BlockFlow(prog, v, b)>>
SendsReturned(n, v, f) ==
  \E b \in DOMAIN prog.blks : \E r \in ReturnBlocks(prog, FirstJmp(prog, b).target) :
    /\ n = CallReturn(b, r) /\ FirstJmp(prog, b).kind = "Call"
    /\ f = <<Start(FirstJmp(prog, b).return),
             update_return(prog, v.flow, v.call_stub, FirstJmp(prog, b), JmpTid(prog, b, 1))>>
SendsCall(n, v, f) ==
  \E b \in DOMAIN prog.blks :
    /\ n = End(b) /\ FirstJmp(prog, b).kind = "Call"
    /\ f = <<Start(prog.entry[FirstJmp(prog, b).target]), update_call(v, FirstJmp(prog, b), JmpTid(prog, b, 1))>>
SendsStub(n, v, f) ==
  \E b \in DOMAIN prog.blks : \E r \in ReturnBlocks(prog, FirstJmp(prog, b).target) :
    /\ n = End(b) /\ FirstJmp(prog, b).kind = "Call"
    /\ f = <<CallReturn(b, r), Flow([call_stub |-> v, flow |-> None], {})>>
SendsReturn(n, v, f) ==
  \E b \in DOMAIN prog.blks : \E r \in ReturnBlocks(prog, FirstJmp(prog, b).target) :
    /\ n = End(r) /\ FirstJmp(prog, b).kind = "Call"
    /\ f = <<CallReturn(b, r), Flow([call_stub |-> None, flow |-> v], {})>>
SendsExtern(n, v, f) ==
  \E b \in DOMAIN prog.blks :
    /\ n = End(b) /\ FirstJmp(prog, b).kind \in {"ExternCall", "CallInd"}
    /\ f = <<Start(FirstJmp(prog, b).return), update_call_stub(prog, v, FirstJmp(prog, b), JmpTid(prog, b, 1))>>
SendsJump(n, v, f) ==
  \E b \in DOMAIN prog.blks : \E t \in BlocksOf(prog, prog.blks[b].sub) :
    n = End(b) /\ f = <<Start(t), Flow(v, {})>>

\* A node sends nothing else.
LEMMA FlowShapes ==
  ASSUME input \in Inputs, NEW n \in UafNodes(prog), NEW v, NEW f \in OutFlows(prog, v, n)
  PROVE  \/ SendsEnd(n, v, f) \/ SendsReturned(n, v, f) \/ SendsCall(n, v, f) \/ SendsStub(n, v, f)
         \/ SendsReturn(n, v, f) \/ SendsExtern(n, v, f) \/ SendsJump(n, v, f)
<1> DEFINE p == prog
           b == n[2]
           j == FirstJmp(p, b)
           tid == JmpTid(p, b, 1)
<1>1. IsNormal(p)
  BY ProgramsAreNormal DEF prog
<1>2. \A m \in CallReturns(p) : \E c \in DOMAIN p.blks : \E r \in ReturnBlocks(p, FirstJmp(p, c).target) :
        m = CallReturn(c, r) /\ FirstJmp(p, c).kind = "Call" /\ m[1] = "CallReturn" /\ m[2] = c /\ m[3] = r
  BY DEF CallReturns, CallReturn
<1>3. \/ \E c \in DOMAIN p.blks : n = Start(c) /\ n[1] = "BlkStart" /\ b = c
      \/ \E c \in DOMAIN p.blks : n = End(c) /\ n[1] = "BlkEnd" /\ b = c
      \/ n \in CallReturns(p)
  BY DEF UafNodes, Start, End
<1>4. b \in DOMAIN p.blks /\ n[1] \in {"BlkStart", "BlkEnd", "CallReturn"}
  BY <1>2, <1>3
<1>5. (n[1] = "BlkStart" => n = Start(b)) /\ (n[1] = "BlkEnd" => n = End(b))
  BY <1>2, <1>3
<1>6. n[1] = "CallReturn" =>
        \E r \in ReturnBlocks(p, FirstJmp(p, b).target) : n = CallReturn(b, r) /\ FirstJmp(p, b).kind = "Call"
  BY <1>2, <1>3
<1> HIDE DEF p, b, j, tid
<1>7. CASE n[1] = "BlkStart"
  <2>1. f = <<End(b), BlockFlow(p, v, b)>>
    BY <1>7 DEF OutFlows, p, b
  <2>2. SendsEnd(n, v, f)
    BY <1>4, <1>5, <1>7, <2>1 DEF SendsEnd, p
  <2> QED BY <2>2
<1>8. CASE n[1] = "CallReturn"
  <2>1. f = <<Start(j.return), update_return(p, v.flow, v.call_stub, j, tid)>>
    BY <1>8 DEF OutFlows, p, b, j, tid
  <2>2. SendsReturned(n, v, f)
    BY <1>4, <1>6, <1>8, <2>1 DEF SendsReturned, p, j, tid
  <2> QED BY <2>2
<1>9. CASE n[1] = "BlkEnd" /\ j.kind = "Call"
  <2>1. OutFlows(p, v, n) = {<<Start(p.entry[j.target]), update_call(v, j, tid)>>}
               \cup {<<m, Flow([call_stub |-> v, flow |-> None], {})>> :
                       m \in {m \in CallReturns(p) : m[2] = b}}
    BY <1>9 DEF OutFlows, b, j, tid
  <2>2. CASE f = <<Start(p.entry[j.target]), update_call(v, j, tid)>>
    <3>1. SendsCall(n, v, f)
      BY <1>4, <1>5, <1>9, <2>2 DEF SendsCall, p, j, tid
    <3> QED BY <3>1
  <2>3. CASE f # <<Start(p.entry[j.target]), update_call(v, j, tid)>>
    <3>1. PICK m \in CallReturns(p) : m[2] = b /\ f = <<m, Flow([call_stub |-> v, flow |-> None], {})>>
      BY <2>1, <2>3 DEF p
    <3>2. PICK r \in ReturnBlocks(p, j.target) : m = CallReturn(b, r)
      BY <1>2, <3>1 DEF j
    <3>3. SendsStub(n, v, f)
      BY <1>4, <1>5, <1>9, <3>1, <3>2 DEF SendsStub, p, j
    <3> QED BY <3>3
  <2> QED BY <2>2, <2>3
<1>10. CASE n[1] = "BlkEnd" /\ j.kind = "Return"
  <2>1. OutFlows(p, v, n) = {<<m, Flow([call_stub |-> None, flow |-> v], {})>> : m \in {m \in CallReturns(p) : m[3] = b}}
    BY <1>10 DEF OutFlows, b, j
  <2>2. PICK m \in CallReturns(p) : m[3] = b /\ f = <<m, Flow([call_stub |-> None, flow |-> v], {})>>
    BY <2>1 DEF p
  <2>3. PICK c \in DOMAIN p.blks : /\ b \in ReturnBlocks(p, FirstJmp(p, c).target)
                                   /\ m = CallReturn(c, b) /\ FirstJmp(p, c).kind = "Call"
    BY <1>2, <2>2
  <2>4. SendsReturn(n, v, f)
    BY <1>5, <1>10, <2>2, <2>3 DEF SendsReturn, p
  <2> QED BY <2>4
<1>11. CASE n[1] = "BlkEnd" /\ j.kind \in {"ExternCall", "CallInd"}
  <2>1. f = <<Start(j.return), update_call_stub(p, v, j, tid)>>
    BY <1>11 DEF OutFlows, p, b, j, tid
  <2>2. SendsExtern(n, v, f)
    BY <1>4, <1>5, <1>11, <2>1 DEF SendsExtern, p, j, tid
  <2> QED BY <2>2
<1>12. CASE n[1] = "BlkEnd" /\ j.kind \notin {"Call", "Return", "ExternCall", "CallInd"}
  <2>1. OutFlows(p, v, n) = {<<e[3], Flow(v, {})>> : e \in add_jump_edge(p, b)}
    BY <1>12 DEF OutFlows, b, j
  <2>2. PICK e \in add_jump_edge(p, b) : f = <<e[3], Flow(v, {})>>
    BY <2>1 DEF p
  <2>3. PICK t \in BlocksOf(p, p.blks[b].sub) : e[3] = Start(t)
    BY <1>1, <1>4, InterJumps, JumpEdges DEF IsNormal
  <2>4. SendsJump(n, v, f)
    BY <1>4, <1>5, <1>12, <2>2, <2>3 DEF SendsJump, p
  <2> QED BY <2>4
<1> QED BY <1>4, <1>7, <1>8, <1>9, <1>10, <1>11, <1>12

\* The values that a node sends are the same one or none.
LEMMA FlowsAgree ==
  ASSUME NEW n, n[1] \in {"BlkStart", "BlkEnd", "CallReturn"}, NEW v
  PROVE  \E w : \A f \in OutFlows(prog, v, n) : f[2].value \in {w, None}
<1> DEFINE p == prog
           b == n[2]
           j == FirstJmp(p, b)
           tid == JmpTid(p, b, 1)
<1>1. \A x, W : Flow(x, W).value = x
  BY DEF Flow
<1> HIDE DEF p, b, j, tid
<1>2. CASE n[1] = "BlkStart"
  <2>1. OutFlows(p, v, n) = {<<End(b), BlockFlow(p, v, b)>>}
    BY <1>2 DEF OutFlows, b
  <2> QED BY <2>1 DEF p
<1>3. CASE n[1] = "CallReturn"
  <2>1. OutFlows(p, v, n) = {<<Start(j.return), update_return(p, v.flow, v.call_stub, j, tid)>>}
    BY <1>3 DEF OutFlows, b, j, tid
  <2> QED BY <2>1 DEF p
<1>4. CASE n[1] = "BlkEnd" /\ j.kind = "Call"
  <2> DEFINE w == [call_stub |-> v, flow |-> None]
  <2>1. OutFlows(p, v, n) = {<<Start(p.entry[j.target]), update_call(v, j, tid)>>}
               \cup {<<m, Flow(w, {})>> : m \in {m \in CallReturns(p) : m[2] = b}}
    BY <1>4 DEF OutFlows, b, j, tid
  <2>2. update_call(v, j, tid).value = None
    BY DEF update_call, Flow
  <2> HIDE DEF w
  <2> QED BY <1>1, <2>1, <2>2 DEF p
<1>5. CASE n[1] = "BlkEnd" /\ j.kind = "Return"
  <2> DEFINE w == [call_stub |-> None, flow |-> v]
  <2>1. OutFlows(p, v, n) = {<<m, Flow(w, {})>> : m \in {m \in CallReturns(p) : m[3] = b}}
    BY <1>5 DEF OutFlows, b, j
  <2> HIDE DEF w
  <2> QED BY <1>1, <2>1 DEF p
<1>6. CASE n[1] = "BlkEnd" /\ j.kind \in {"ExternCall", "CallInd"}
  <2>1. OutFlows(p, v, n) = {<<Start(j.return), update_call_stub(p, v, j, tid)>>}
    BY <1>6 DEF OutFlows, b, j, tid
  <2> QED BY <2>1 DEF p
<1>7. CASE n[1] = "BlkEnd" /\ j.kind \notin {"Call", "Return", "ExternCall", "CallInd"}
  <2>1. OutFlows(p, v, n) = {<<e[3], Flow(v, {})>> : e \in add_jump_edge(p, b)}
    BY <1>7 DEF OutFlows, b, j
  <2> QED BY <1>1, <2>1 DEF p
<1> QED BY <1>2, <1>3, <1>4, <1>5, <1>6, <1>7

\* What is assumed about a block, its calls and the place of the first jump.
LEMMA BlockKnown ==
  ASSUME input \in Inputs, NEW b \in DOMAIN prog.blks
  PROVE  LET j == FirstJmp(prog, b)
             tid == JmpTid(prog, b, 1)
         IN  /\ b \in Nat /\ IsListed(prog.ids) /\ IsListed(prog.blks[b].defs) /\ tid \in Nat
             /\ j.kind \in {"Call", "ExternCall", "CallInd"} =>
                  IsListed(j.args) /\ j.return \in BlocksOf(prog, prog.blks[b].sub)
             /\ j.kind = "Call" => j.target \in DOMAIN prog.entry
             /\ j.kind = "Call" /\ j.renaming # None =>
                  /\ DOMAIN j.renaming \subseteq DOMAIN prog.ids
                  /\ \A id \in DOMAIN j.renaming : j.renaming[id] \subseteq DOMAIN prog.ids
             /\ j.kind = "ExternCall" /\ j.args # <<>> => j.args[1] = None \/ j.args[1] \subseteq DOMAIN prog.ids
             /\ j.kind # "Call" => \A id \in DOMAIN prog.ids : LastOf(prog.ids[id].hints) # tid
<1> DEFINE p == prog
           j == FirstJmp(p, b)
           tid == JmpTid(p, b, 1)
<1>1. IsNormal(p) /\ ObjectsAreKnown(p)
  BY ProgramsAreNormal, ProgramsHaveObjects DEF prog
<1> HIDE DEF p
<1>2. b \in DOMAIN p.blks
  BY DEF p
<1>3. /\ b \in Nat /\ IsListed(p.ids) /\ IsListed(p.blks[b].defs)
      /\ j.kind \in {"Call", "ExternCall", "CallInd"} => IsListed(j.args)
      /\ j.kind = "Call" /\ j.renaming # None =>
           /\ DOMAIN j.renaming \subseteq DOMAIN p.ids
           /\ \A id \in DOMAIN j.renaming : j.renaming[id] \subseteq DOMAIN p.ids
      /\ j.kind = "ExternCall" /\ j.args # <<>> => j.args[1] = None \/ j.args[1] \subseteq DOMAIN p.ids
  BY <1>1, <1>2 DEF ObjectsAreKnown
<1>4. j.kind # "Call" => \A id \in DOMAIN p.ids : LastOf(p.ids[id].hints) # tid
  BY <1>1, <1>2 DEF ObjectsAreKnown
<1>5. tid \in Nat
  <2>1. Len(p.blks[b].defs) \in Nat
    BY <1>3 DEF IsListed
  <2> QED BY <1>3, <2>1 DEF JmpTid, Tid
<1>6. /\ j.kind \in {"Call", "ExternCall", "CallInd"} => j.return \in BlocksOf(p, p.blks[b].sub)
      /\ j.kind = "Call" => j.target \in DOMAIN p.entry
  <2>1. BlockIsNormal(p, b)
    BY <1>1, <1>2 DEF IsNormal
  <2>2. /\ JmpTargets(j) \subseteq BlocksOf(p, p.blks[b].sub)
        /\ j.kind = "Call" => j.target \in DOMAIN p.entry
    BY <2>1 DEF BlockIsNormal, FirstJmp
  <2> HIDE DEF j
  <2>3. j.kind \in {"Call", "ExternCall", "CallInd"} => JmpTargets(j) = {j.return}
    BY DEF JmpTargets
  <2> QED BY <2>2, <2>3
<1> QED BY <1>3, <1>4, <1>5, <1>6 DEF p

\* The call of a function that is not entered.
LEMMA StubIs ==
  ASSUME input \in Inputs, NEW b \in DOMAIN prog.blks, FirstJmp(prog, b).kind \in {"ExternCall", "CallInd"},
         NEW s \in States(prog)
  PROVE  LET j == FirstJmp(prog, b)
             tid == JmpTid(prog, b, 1)
             flow == update_call_stub(prog, s, j, tid)
             frees == j.kind = "ExternCall" /\ j.target = "free"
         IN  /\ Accounted(s, flow.value, flow.warnings)
             /\ ~frees => \A id \in ArgIds(j.args) \cap Known(s) : Spotted(s, id, flow.warnings)
             /\ frees /\ j.args # <<>> /\ j.args[1] # None =>
                  \A id \in get_non_recursive_ids(prog, j.args[1]) :
                    prog.ids[id].unique => /\ IsRecorded(prog, flow.value, id, tid)
                                           /\ id \in DOMAIN s.dangling => Spotted(s, id, flow.warnings)
<1> DEFINE j == FirstJmp(prog, b)
           tid == JmpTid(prog, b, 1)
           flow == update_call_stub(prog, s, j, tid)
<1>1. /\ IsListed(prog.ids) /\ tid \in Nat /\ IsListed(j.args)
      /\ j.kind = "ExternCall" /\ j.args # <<>> => j.args[1] = None \/ j.args[1] \subseteq DOMAIN prog.ids
      /\ \A id \in DOMAIN prog.ids : LastOf(prog.ids[id].hints) # tid
  BY BlockKnown
<1> SUFFICES /\ Accounted(s, flow.value, flow.warnings)
             /\ ~(j.kind = "ExternCall" /\ j.target = "free") =>
                   \A id \in ArgIds(j.args) \cap Known(s) : Spotted(s, id, flow.warnings)
             /\ j.kind = "ExternCall" /\ j.target = "free" /\ j.args # <<>> /\ j.args[1] # None =>
                  \A id \in get_non_recursive_ids(prog, j.args[1]) :
                    prog.ids[id].unique => /\ IsRecorded(prog, flow.value, id, tid)
                                           /\ id \in DOMAIN s.dangling => Spotted(s, id, flow.warnings)
  OBVIOUS
<1> HIDE DEF j, tid
<1>2. CASE j.kind = "ExternCall" /\ j.target = "free"
  <2>1. flow = handle_call_to_free(prog, s, j, tid)
    BY <1>2 DEF update_call_stub
  <2> HIDE DEF flow
  <2>2. CASE j.args = <<>> \/ j.args[1] = None
    <3>1. flow = Flow(s, {})
      BY <2>1, <2>2 DEF handle_call_to_free
    <3>2. flow.value = s
      BY <3>1 DEF Flow
    <3> QED BY <1>2, <2>2, <3>2 DEF Accounted, Grows
  <2>3. CASE j.args # <<>> /\ j.args[1] # None
    <3>1. j.args[1] \subseteq DOMAIN prog.ids /\ tid \in Int
      BY <1>1, <1>2, <2>3
    <3>2. /\ Accounted(s, flow.value, flow.warnings)
          /\ \A id \in get_non_recursive_ids(prog, j.args[1]) :
               prog.ids[id].unique => /\ IsRecorded(prog, flow.value, id, tid)
                                      /\ id \in DOMAIN s.dangling => Spotted(s, id, flow.warnings)
      BY <1>1, <2>1, <2>3, <3>1, FreeIs
    <3> QED BY <1>2, <3>2
  <2> QED BY <2>2, <2>3
<1>3. CASE ~(j.kind = "ExternCall" /\ j.target = "free")
  <2>1. flow = UseWarning(tid, collect_cwe_warnings_of_call_params(s, j.args))
    BY <1>3 DEF update_call_stub
  <2> HIDE DEF flow
  <2>2. /\ Warned(s, flow.value, flow.warnings)
        /\ \A id \in ArgIds(j.args) \cap Known(s) : Spotted(s, id, flow.warnings)
    BY <1>1, <2>1, ArgsAre
  <2>3. Accounted(s, flow.value, flow.warnings)
    BY <2>2 DEF Accounted, Warned
  <2> QED BY <1>3, <2>2, <2>3
<1> QED BY <1>2, <1>3

\* A node sends to nodes, and if its value is honest then what it sends is, with
\* the warnings that it sends.
LEMMA FlowsHonest ==
  ASSUME input \in Inputs, NEW n \in UafNodes(prog), NEW v \in NodeValues(prog, n), NEW f \in OutFlows(prog, v, n),
         NEW ws, NodeHonest(prog, n, v, ws)
  PROVE  f[1] \in UafNodes(prog) /\ NodeHonest(prog, f[1], f[2].value, ws \cup f[2].warnings)
<1> DEFINE W == ws \cup f[2].warnings
<1>1. /\ \A b : Start(b)[1] = "BlkStart" /\ Start(b)[2] = b /\ End(b)[1] = "BlkEnd" /\ End(b)[2] = b
      /\ \A b, r : CallReturn(b, r)[1] = "CallReturn" /\ CallReturn(b, r)[2] = b /\ CallReturn(b, r)[3] = r
  BY DEF Start, End, CallReturn
<1>2. None \notin States(prog) /\ v # None
  BY NoneIsNoNodeValue
<1>3. \A b \in DOMAIN prog.blks : Start(b) \in UafNodes(prog) /\ End(b) \in UafNodes(prog)
  BY DEF UafNodes
<1>4. \A s, g : Honest(s, g, ws) => Honest(s, g, W)
  BY MoreNames
<1> HIDE DEF W
<1>5. ASSUME SendsEnd(n, v, f) PROVE f[1] \in UafNodes(prog) /\ NodeHonest(prog, f[1], f[2].value, W)
  <2>1. PICK b \in DOMAIN prog.blks : n = Start(b) /\ f = <<End(b), BlockFlow(prog, v, b)>>
    BY <1>5 DEF SendsEnd
  <2>2. v \in States(prog) /\ Honest(v, prog.blks[b].sub, ws)
    BY <1>1, <1>2, <2>1 DEF NodeValues, NodeHonest
  <2>3. f[1] = End(b) /\ f[2] = BlockFlow(prog, v, b)
    BY <2>1
  <2>4. Warned(v, f[2].value, f[2].warnings)
    BY <2>2, <2>3, BlockKnown, DefsAre
  <2>5. Accounted(v, f[2].value, f[2].warnings)
    BY <2>4 DEF Warned, Accounted
  <2>6. Honest(f[2].value, prog.blks[b].sub, W)
    BY <1>2, <2>2, <2>5, HonestOn DEF W
  <2> QED BY <1>1, <1>3, <2>3, <2>6 DEF NodeHonest
<1>6. ASSUME SendsReturned(n, v, f) PROVE f[1] \in UafNodes(prog) /\ NodeHonest(prog, f[1], f[2].value, W)
  <2>1. PICK b \in DOMAIN prog.blks : \E r \in ReturnBlocks(prog, FirstJmp(prog, b).target) :
          /\ n = CallReturn(b, r) /\ FirstJmp(prog, b).kind = "Call"
          /\ f = <<Start(FirstJmp(prog, b).return),
                   update_return(prog, v.flow, v.call_stub, FirstJmp(prog, b), JmpTid(prog, b, 1))>>
    BY <1>6 DEF SendsReturned
  <2> DEFINE j == FirstJmp(prog, b)
             tid == JmpTid(prog, b, 1)
             s == v.call_stub
  <2>2. v.flow \in States(prog) \cup {None} /\ s \in States(prog) \cup {None} /\ Honest(s, prog.blks[b].sub, ws)
    BY <1>1, <1>2, <2>1 DEF NodeValues, NodeHonest
  <2>3. f[1] = Start(j.return) /\ f[2] = update_return(prog, v.flow, s, j, tid) /\ j.kind = "Call"
    BY <2>1
  <2>4. /\ IsListed(prog.ids) /\ IsListed(j.args) /\ tid \in Nat /\ j.return \in BlocksOf(prog, prog.blks[b].sub)
        /\ j.renaming # None => \A id \in DOMAIN j.renaming : j.renaming[id] \subseteq DOMAIN prog.ids
    BY <2>3, BlockKnown
  <2> HIDE DEF j, tid, s
  <2>5. Honest(f[2].value, prog.blks[b].sub, W)
    <3>1. CASE v.flow = None \/ s = None \/ j.renaming = None
      <4>1. f[2].value = None
        BY <2>3, <3>1 DEF update_return, Flow
      <4> QED BY <4>1 DEF Honest
    <3>2. CASE ~(v.flow = None \/ s = None \/ j.renaming = None)
      <4>1. v.flow \in States(prog) /\ s \in States(prog) /\ tid \in Int
        BY <2>2, <2>4, <3>2
      <4>2. Accounted(s, f[2].value, f[2].warnings)
        BY <1>2, <2>3, <2>4, <3>2, <4>1, ReturnIs
      <4> QED BY <1>2, <2>2, <3>2, <4>2, HonestOn DEF W
    <3> QED BY <3>1, <3>2
  <2>6. j.return \in DOMAIN prog.blks /\ prog.blks[j.return].sub = prog.blks[b].sub
    BY <2>4 DEF BlocksOf
  <2> QED BY <1>1, <1>3, <2>3, <2>5, <2>6 DEF NodeHonest
<1>7. ASSUME SendsCall(n, v, f) PROVE f[1] \in UafNodes(prog) /\ NodeHonest(prog, f[1], f[2].value, W)
  <2>1. PICK b \in DOMAIN prog.blks :
          /\ FirstJmp(prog, b).kind = "Call"
          /\ f = <<Start(prog.entry[FirstJmp(prog, b).target]), update_call(v, FirstJmp(prog, b), JmpTid(prog, b, 1))>>
    BY <1>7 DEF SendsCall
  <2>2. f[2].value = None /\ f[1] = Start(prog.entry[FirstJmp(prog, b).target])
    BY <2>1 DEF update_call, Flow
  <2>3. prog.entry[FirstJmp(prog, b).target] \in DOMAIN prog.blks
    BY <2>1, BlockKnown, ProgramsAreNormal DEF IsNormal, BlocksOf, prog
  <2> QED BY <1>3, <2>2, <2>3 DEF NodeHonest
<1>8. ASSUME SendsStub(n, v, f) PROVE f[1] \in UafNodes(prog) /\ NodeHonest(prog, f[1], f[2].value, W)
  <2>1. PICK b \in DOMAIN prog.blks : \E x \in ReturnBlocks(prog, FirstJmp(prog, b).target) :
          /\ n = End(b) /\ FirstJmp(prog, b).kind = "Call"
          /\ f = <<CallReturn(b, x), Flow([call_stub |-> v, flow |-> None], {})>>
    BY <1>8 DEF SendsStub
  <2>2. PICK r \in ReturnBlocks(prog, FirstJmp(prog, b).target) :
          f = <<CallReturn(b, r), Flow([call_stub |-> v, flow |-> None], {})>>
    BY <2>1
  <2>3. f[1] = CallReturn(b, r) /\ f[2].value = [call_stub |-> v, flow |-> None]
    BY <2>2 DEF Flow
  <2>4. f[2].value.call_stub = v /\ f[2].value.flow = None
    BY <2>3
  <2>5. f[1] \in CallReturns(prog)
    BY <2>1, <2>3 DEF CallReturns
  <2>6. Honest(v, prog.blks[b].sub, W)
    BY <1>1, <1>2, <1>4, <2>1 DEF NodeHonest
  <2> QED BY <1>1, <2>3, <2>4, <2>5, <2>6 DEF NodeHonest, Honest, UafNodes
<1>9. ASSUME SendsReturn(n, v, f) PROVE f[1] \in UafNodes(prog) /\ NodeHonest(prog, f[1], f[2].value, W)
  <2>1. PICK b \in DOMAIN prog.blks : \E x \in ReturnBlocks(prog, FirstJmp(prog, b).target) :
          /\ n = End(x) /\ FirstJmp(prog, b).kind = "Call"
          /\ f = <<CallReturn(b, x), Flow([call_stub |-> None, flow |-> v], {})>>
    BY <1>9 DEF SendsReturn
  <2>2. PICK r \in ReturnBlocks(prog, FirstJmp(prog, b).target) :
          n = End(r) /\ f = <<CallReturn(b, r), Flow([call_stub |-> None, flow |-> v], {})>>
    BY <2>1
  <2>3. f[1] = CallReturn(b, r) /\ f[2].value = [call_stub |-> None, flow |-> v]
    BY <2>2 DEF Flow
  <2>4. f[2].value.call_stub = None /\ f[2].value.flow = v
    BY <2>3
  <2>5. f[1] \in CallReturns(prog)
    BY <2>1, <2>3 DEF CallReturns
  <2>6. Honest(v, prog.blks[r].sub, W)
    BY <1>1, <1>2, <1>4, <2>2 DEF NodeHonest
  <2> QED BY <1>1, <2>3, <2>4, <2>5, <2>6 DEF NodeHonest, Honest, UafNodes
<1>10. ASSUME SendsExtern(n, v, f) PROVE f[1] \in UafNodes(prog) /\ NodeHonest(prog, f[1], f[2].value, W)
  <2>1. PICK b \in DOMAIN prog.blks :
          /\ n = End(b) /\ FirstJmp(prog, b).kind \in {"ExternCall", "CallInd"}
          /\ f = <<Start(FirstJmp(prog, b).return), update_call_stub(prog, v, FirstJmp(prog, b), JmpTid(prog, b, 1))>>
    BY <1>10 DEF SendsExtern
  <2> DEFINE j == FirstJmp(prog, b)
             tid == JmpTid(prog, b, 1)
  <2>2. v \in States(prog) /\ Honest(v, prog.blks[b].sub, ws)
    BY <1>1, <1>2, <2>1 DEF NodeValues, NodeHonest
  <2>3. f[1] = Start(j.return) /\ f[2] = update_call_stub(prog, v, j, tid)
    BY <2>1
  <2>4. Accounted(v, f[2].value, f[2].warnings)
    BY <2>1, <2>2, <2>3, StubIs
  <2>5. Honest(f[2].value, prog.blks[b].sub, W)
    BY <1>2, <2>2, <2>4, HonestOn DEF W
  <2>6. j.return \in DOMAIN prog.blks /\ prog.blks[j.return].sub = prog.blks[b].sub
    BY <2>1, BlockKnown DEF BlocksOf
  <2> HIDE DEF j
  <2> QED BY <1>1, <1>3, <2>3, <2>5, <2>6 DEF NodeHonest
<1>11. ASSUME SendsJump(n, v, f) PROVE f[1] \in UafNodes(prog) /\ NodeHonest(prog, f[1], f[2].value, W)
  <2>1. PICK b \in DOMAIN prog.blks : \E x \in BlocksOf(prog, prog.blks[b].sub) :
          n = End(b) /\ f = <<Start(x), Flow(v, {})>>
    BY <1>11 DEF SendsJump
  <2>2. PICK t \in BlocksOf(prog, prog.blks[b].sub) : f = <<Start(t), Flow(v, {})>>
    BY <2>1
  <2>3. f[1] = Start(t) /\ f[2].value = v
    BY <2>2 DEF Flow
  <2>4. Honest(v, prog.blks[b].sub, W)
    BY <1>1, <1>2, <1>4, <2>1 DEF NodeHonest
  <2>5. t \in DOMAIN prog.blks /\ prog.blks[t].sub = prog.blks[b].sub
    BY <2>2 DEF BlocksOf
  <2> QED BY <1>1, <1>3, <2>3, <2>4, <2>5 DEF NodeHonest
<1> QED BY <1>5, <1>6, <1>7, <1>8, <1>9, <1>10, <1>11, FlowShapes DEF W

\* The node was handled with its value: its warnings were sent, and the nodes
\* it leads to have the objects that it sends.
PassedOn(n) ==
  values[n] # None =>
    \A f \in OutFlows(prog, values[n], n) :
      f[2].warnings \subseteq raw /\ NodeGrows(f[1], f[2].value, values[f[1]])

\* Functions are entered, node values are honest and handled nodes passed them
\* on.
SoundNodes ==
  /\ \A f \in DOMAIN prog.entry : values[Start(prog.entry[f])] # None
  /\ \A n \in UafNodes(prog) : NodeHonest(prog, n, values[n], raw)
  /\ \A n \in UafNodes(prog) \ worklist : PassedOn(n)

SoundInv == UafInv /\ (stage = "cwe416" => SoundNodes)

\* The values after a node was handled.
LEMMA StepKeeps ==
  ASSUME input \in Inputs, UafTyped, \A m \in UafNodes(prog) : NodeHonest(prog, m, values[m], raw), NEW n \in worklist
  PROVE  LET flows == OutFlows(prog, values[n], n)
             new == UafStep(values, flows)
         IN  /\ \A m \in UafNodes(prog) :
                  /\ NodeGrows(m, values[m], new[m])
                  /\ NodeHonest(prog, m, new[m], raw \cup UNION {f[2].warnings : f \in flows})
             /\ \A f \in flows : f[1] \in UafNodes(prog) /\ NodeGrows(f[1], f[2].value, new[f[1]])
<1> DEFINE flows == OutFlows(prog, values[n], n)
           new == UafStep(values, flows)
           W == raw \cup UNION {f[2].warnings : f \in flows}
           Incoming(m) == {f[2].value : f \in {f \in flows : f[1] = m}} \ {None}
<1> SUFFICES /\ \A m \in UafNodes(prog) : NodeGrows(m, values[m], new[m]) /\ NodeHonest(prog, m, new[m], W)
             /\ \A f \in flows : f[1] \in UafNodes(prog) /\ NodeGrows(f[1], f[2].value, new[f[1]])
  OBVIOUS
<1>1. n \in UafNodes(prog) /\ values[n] \in NodeValues(prog, n) /\ n[1] \in {"BlkStart", "BlkEnd", "CallReturn"}
  BY DEF UafTyped, UafNodes, CallReturns, Start, End, CallReturn
<1>2. \A f \in flows : /\ f[2].value # None => f[2].value \in NodeValues(prog, f[1])
                       /\ f[1] \in UafNodes(prog)
                       /\ NodeHonest(prog, f[1], f[2].value, W)
  <2> SUFFICES ASSUME NEW f \in flows
               PROVE  /\ f[2].value # None => f[2].value \in NodeValues(prog, f[1])
                      /\ f[1] \in UafNodes(prog)
                      /\ NodeHonest(prog, f[1], f[2].value, W)
    OBVIOUS
  <2>1. f[1] \in UafNodes(prog) /\ NodeHonest(prog, f[1], f[2].value, raw \cup f[2].warnings)
    BY <1>1, FlowsHonest
  <2>2. f[2].value # None => f[2].value \in NodeValues(prog, f[1])
    BY <1>1, FlowsTyped
  <2>3. raw \cup f[2].warnings \subseteq W
    OBVIOUS
  <2> HIDE DEF W, flows
  <2> QED BY <2>1, <2>2, <2>3, MoreNames
<1>3. PICK w : \A f \in flows : f[2].value \in {w, None}
  BY <1>1, FlowsAgree
<1>4. new = [m \in UafNodes(prog) |->
               IF Incoming(m) = {} THEN values[m]
               ELSE MergeValues(m, values[m], CHOOSE x \in Incoming(m) : TRUE)]
  BY DEF UafStep, UafTyped
<1>5. raw \subseteq W
  OBVIOUS
<1> HIDE DEF new, W
<1>6. \A m : Incoming(m) = {} \/ (Incoming(m) = {w} /\ w # None /\ \E f \in flows : f[1] = m /\ f[2].value = w)
  <2> HIDE DEF flows
  <2> QED BY <1>3
<1>7. \A f \in flows : f[2].value = None \/ Incoming(f[1]) # {}
  <2> HIDE DEF flows
  <2> QED OBVIOUS
<1> HIDE DEF Incoming, flows
<1>8. ASSUME NEW m \in UafNodes(prog)
      PROVE  /\ NodeGrows(m, values[m], new[m]) /\ NodeHonest(prog, m, new[m], W)
             /\ Incoming(m) # {} => NodeGrows(m, w, new[m])
  <2>1. NodeHonest(prog, m, values[m], W) /\ (values[m] = None \/ values[m] \in NodeValues(prog, m))
    BY <1>5, MoreNames DEF UafTyped
  <2>2. CASE Incoming(m) = {}
    <3>1. new[m] = values[m]
      BY <1>4, <2>2
    <3>2. NodeGrows(m, values[m], values[m])
      BY DEF NodeGrows, OptionGrows, Grows
    <3> QED BY <2>1, <2>2, <3>1, <3>2
  <2>3. CASE Incoming(m) # {}
    <3>1. Incoming(m) = {w} /\ w # None
      BY <1>6, <2>3
    <3>2. PICK f \in flows : f[1] = m /\ f[2].value = w
      BY <1>6, <2>3
    <3>3. w \in NodeValues(prog, m) /\ NodeHonest(prog, m, w, W)
      BY <1>2, <3>1, <3>2
    <3>4. new[m] = MergeValues(m, values[m], w)
      BY <1>4, <3>1
    <3>5. NodeHonest(prog, m, new[m], W) /\ NodeGrows(m, values[m], new[m]) /\ NodeGrows(m, w, new[m])
      BY <2>1, <3>3, <3>4, ValuesKeep
    <3> QED BY <3>5
  <2> QED BY <2>2, <2>3
<1>9. \A f \in flows : NodeGrows(f[1], f[2].value, new[f[1]])
  <2> SUFFICES ASSUME NEW f \in flows PROVE NodeGrows(f[1], f[2].value, new[f[1]])
    OBVIOUS
  <2>1. CASE f[2].value = None
    BY <2>1 DEF NodeGrows
  <2>2. CASE f[2].value # None
    <3>1. f[2].value = w /\ Incoming(f[1]) # {} /\ f[1] \in UafNodes(prog)
      BY <1>2, <1>3, <1>7, <2>2
    <3> QED BY <1>8, <3>1
  <2> QED BY <2>1, <2>2
<1> QED BY <1>2, <1>8, <1>9

\* Every step of the caller keeps SoundInv.
LEMMA SoundInvInductive ==
  ASSUME SoundInv, [Next]_vars
  PROVE  SoundInv'
<1>1. UafInv' /\ input \in Inputs /\ prog' = prog
  <2>1. UNCHANGED input
    BY DEF Next, vars, Disassemble, FilterModules, ReadConfig, ComputeAnalyses, RunModule,
           PrintResults, StartCwe416, UpdateNode, FinishCwe416, StartStats, StartDominators,
           UpdateDominators, FinishDominators, FinishStats, Done, Exit
  <2> QED BY <2>1, UafInvInductive DEF SoundInv, UafInv, prog
<1> SUFFICES ASSUME stage' = "cwe416" PROVE SoundNodes'
  BY <1>1 DEF SoundInv
<1>2. CASE StartCwe416
  <2>1. values' = StartValues(prog) /\ worklist' = {n \in DOMAIN values' : values'[n] # None}
    BY <1>2 DEF StartCwe416, Exit
  <2>2. DOMAIN values' = UafNodes(prog) /\ worklist' = {n \in UafNodes(prog) : values'[n] # None}
    BY <1>1, <2>1, StartTyped
  <2>3. \A n \in UafNodes(prog) : values'[n] = IF \E f \in DOMAIN prog.entry : n = Start(prog.entry[f])
                                               THEN new_state(prog.blks[n[2]].sub) ELSE None
    BY <2>1 DEF StartValues
  <2>4. \A f \in DOMAIN prog.entry : Start(prog.entry[f]) \in UafNodes(prog) /\ prog.blks[prog.entry[f]].sub = f
    BY <1>1, ProgramsAreNormal DEF IsNormal, BlocksOf, prog, UafNodes
  <2>5. \A f \in DOMAIN prog.entry : new_state(f) # None
    <3> SUFFICES ASSUME NEW f \in DOMAIN prog.entry PROVE new_state(f) # None
      OBVIOUS
    <3>1. NoObjects \in ObjectMaps(prog)
      <4>1. NoObjects \in [{} -> ObjectStates] /\ {} \in SUBSET DOMAIN prog.ids
        BY DEF NoObjects
      <4> QED BY <4>1, MapsAre
    <3>2. new_state(f) \in States(prog)
      BY <3>1 DEF new_state, States
    <3> QED BY <1>1, <3>2, NoneIsNoNodeValue
  <2>6. \A f \in DOMAIN prog.entry : values'[Start(prog.entry[f])] # None
    <3> SUFFICES ASSUME NEW f \in DOMAIN prog.entry PROVE values'[Start(prog.entry[f])] # None
      OBVIOUS
    <3>1. Start(prog.entry[f])[2] = prog.entry[f]
      BY DEF Start
    <3> QED BY <2>3, <2>4, <2>5, <3>1
  <2>7. ASSUME NEW n \in UafNodes(prog) PROVE NodeHonest(prog, n, values'[n], raw')
    <3>1. CASE values'[n] = None
      BY <3>1 DEF NodeHonest
    <3>2. CASE values'[n] # None
      <4>1. PICK f \in DOMAIN prog.entry : n = Start(prog.entry[f])
        BY <2>3, <3>2
      <4>2. n[1] = "BlkStart"
        BY <4>1 DEF Start
      <4>3. values'[n] = new_state(prog.blks[n[2]].sub)
        BY <2>3, <3>2
      <4>4. /\ new_state(prog.blks[n[2]].sub).fn = prog.blks[n[2]].sub
            /\ FlaggedIn(new_state(prog.blks[n[2]].sub)) = {}
        BY DEF new_state, FlaggedIn, Flagged, NoObjects
      <4> QED BY <4>2, <4>3, <4>4 DEF NodeHonest, Honest
    <3> QED BY <3>1, <3>2
  <2>8. \A n \in UafNodes(prog) \ worklist' : values'[n] = None
    BY <2>2
  <2> QED BY <1>1, <2>6, <2>7, <2>8 DEF SoundNodes, PassedOn
<1>3. CASE UpdateNode
  <2>1. UafTyped /\ SoundNodes
    BY <1>3 DEF SoundInv, UafInv, UpdateNode
  <2>2. PICK n \in worklist :
          LET flows == OutFlows(prog, values[n], n)
          IN  /\ values' = UafStep(values, flows)
              /\ worklist' = (worklist \ {n}) \cup {m \in DOMAIN values : values'[m] # values[m]}
              /\ raw' = raw \cup UNION {f[2].warnings : f \in flows}
    BY <1>3 DEF UpdateNode
  <2> DEFINE flows == OutFlows(prog, values[n], n)
             new == UafStep(values, flows)
  <2>3. /\ \A m \in UafNodes(prog) : NodeGrows(m, values[m], values'[m]) /\ NodeHonest(prog, m, values'[m], raw')
        /\ \A f \in flows : f[1] \in UafNodes(prog) /\ NodeGrows(f[1], f[2].value, values'[f[1]])
    BY <1>1, <2>1, <2>2, StepKeeps DEF SoundNodes
  <2>4. \A m \in UafNodes(prog) : values[m] # None => values'[m] # None
    BY <2>3 DEF NodeGrows
  <2>5. \A f \in DOMAIN prog.entry : Start(prog.entry[f]) \in UafNodes(prog)
    BY <1>1, ProgramsAreNormal DEF IsNormal, BlocksOf, prog, UafNodes
  <2>6. ASSUME NEW m \in UafNodes(prog), m \notin worklist', values'[m] # None,
               NEW f \in OutFlows(prog, values'[m], m)
        PROVE  f[2].warnings \subseteq raw' /\ NodeGrows(f[1], f[2].value, values'[f[1]])
    <3>1. values'[m] = values[m]
      BY <2>1, <2>2, <2>6 DEF UafTyped
    <3>2. CASE m = n
      <4>1. f \in flows
        BY <2>6, <3>1, <3>2
      <4>2. raw' = raw \cup UNION {g[2].warnings : g \in flows}
        BY <2>2
      <4> HIDE DEF flows
      <4> QED BY <2>3, <4>1, <4>2
    <3>3. CASE m # n
      <4>1. m \notin worklist
        BY <2>2, <2>6, <3>3
      <4>2. f[2].warnings \subseteq raw /\ NodeGrows(f[1], f[2].value, values[f[1]])
        BY <2>1, <2>6, <3>1, <4>1 DEF SoundNodes, PassedOn
      <4>3. raw \subseteq raw'
        BY <2>2
      <4>4. f[1] \in UafNodes(prog)
        BY <1>1, <2>1, <2>6, <3>1, FlowsHonest DEF UafTyped, SoundNodes
      <4> QED BY <2>3, <4>2, <4>3, <4>4, NodeGrowsOn
    <3> QED BY <3>2, <3>3
  <2> HIDE DEF flows, new
  <2> QED BY <1>1, <2>1, <2>3, <2>4, <2>5, <2>6 DEF SoundNodes, PassedOn
<1>4. CASE UNCHANGED <<stage, values, worklist, raw>>
  <2>1. SoundNodes
    BY <1>4 DEF SoundInv
  <2> QED BY <1>1, <1>4, <2>1 DEF SoundNodes, PassedOn
<1>5. StartCwe416 \/ UpdateNode \/ UNCHANGED <<stage, values, worklist, raw>>
  BY DEF Next, vars, computation, Disassemble, FilterModules, ReadConfig, ComputeAnalyses, RunModule,
         PrintResults, FinishCwe416, StartStats, StartDominators,
         UpdateDominators, FinishDominators, FinishStats, Done, Exit
<1> QED BY <1>2, <1>3, <1>4, <1>5

-----------------------------------------------------------------------------
(* The executions and what the check for CWE416 records of them *)

\* The computation for CWE416 is over.
Settled ==
  /\ input \in Inputs /\ UafTyped /\ SoundNodes /\ worklist = {}
  /\ raw \in Finites(AllWarnings(prog))

\* Objects that warnings name are blamed, and objects that blamed ones stand for.
LEMMA BlamedIs ==
  ASSUME input \in Inputs
  PROVE  /\ Named(raw) \subseteq Blamed
         /\ \A c \in DOMAIN prog.blks :
              LET j == FirstJmp(prog, c)
              IN  j.kind = "Call" /\ j.renaming # None =>
                    \A x \in DOMAIN j.renaming : \A y \in j.renaming[x] :
                      <<j.target, x>> \in Blamed => <<prog.blks[c].sub, y>> \in Blamed
<1> DEFINE p == prog
           J(c) == FirstJmp(p, c)
           C == {c \in DOMAIN p.blks : J(c).kind = "Call" /\ J(c).renaming # None}
           I == DOMAIN p.ids
           Edge(c, x) == <<<<J(c).target, x[1]>>, c, <<p.blks[c].sub, x[2]>>>>
           Pairs(c) == {x \in (DOMAIN J(c).renaming) \X I : x[2] \in J(c).renaming[x[1]]}
           Z == {z \in C \X (I \X I) : z[2] \in Pairs(z[1])}
           f == [z \in Z |-> Edge(z[1], z[2])]
<1>1. Renamings = UNION {{Edge(c, x) : x \in Pairs(c)} : c \in C}
  BY DEF Renamings
<1>2. IsNormal(p) /\ ObjectsAreKnown(p)
  BY ProgramsAreNormal, ProgramsHaveObjects DEF prog
<1>3. IsFiniteSet(C) /\ IsFiniteSet(I)
  <2>1. DOMAIN p.ids = 1..Len(p.ids) /\ Len(p.ids) \in Nat
    BY <1>2 DEF ObjectsAreKnown, IsListed
  <2>2. IsFiniteSet(I)
    BY <2>1, FS_Interval
  <2>3. C \subseteq DOMAIN p.blks /\ IsFiniteSet(DOMAIN p.blks)
    BY <1>2 DEF IsNormal
  <2> HIDE DEF C, I
  <2> QED BY <2>2, <2>3, FS_Subset
<1>4. \A c \in C : DOMAIN J(c).renaming \subseteq I /\ \A x \in DOMAIN J(c).renaming : J(c).renaming[x] \subseteq I
  BY <1>2 DEF ObjectsAreKnown
<1> HIDE DEF C, I, J, Edge
<1>5. IsFiniteSet(Z)
  <2>1. IsFiniteSet(C \X (I \X I))
    BY <1>3, FS_Product
  <2>2. Z \subseteq C \X (I \X I)
    OBVIOUS
  <2> HIDE DEF Z
  <2> QED BY <2>1, <2>2, FS_Subset
<1>6. Renamings = {f[z] : z \in Z}
  <2>1. \A c \in C : \A x \in Pairs(c) : <<c, x>> \in Z /\ f[<<c, x>>] = Edge(c, x)
    BY <1>4
  <2>2. \A z \in Z : z[1] \in C /\ z[2] \in Pairs(z[1]) /\ f[z] = Edge(z[1], z[2])
    OBVIOUS
  <2> HIDE DEF Z, f, Pairs
  <2>3. ASSUME NEW e \in Renamings PROVE e \in {f[z] : z \in Z}
    <3>1. PICK c \in C : \E x \in Pairs(c) : e = Edge(c, x)
      BY <1>1
    <3>2. PICK y \in Pairs(c) : e = Edge(c, y)
      BY <3>1
    <3> QED BY <2>1, <3>2
  <2>4. ASSUME NEW z \in Z PROVE f[z] \in Renamings
    BY <1>1, <2>2
  <2> QED BY <2>3, <2>4
<1>7. IsFiniteSet(Renamings)
  <2>1. f \in [Z -> Renamings]
    <3> HIDE DEF Z
    <3> QED BY <1>6
  <2> HIDE DEF f, Z
  <2> QED BY <1>5, <1>6, <2>1, ImageFinite
<1>8. Blamed = Reach(Named(raw), Renamings)
  BY DEF Blamed, Named
<1>9. Named(raw) \subseteq Blamed /\ Closed(Blamed, Renamings)
  BY <1>7, <1>8, ReachClosed
<1>10. ASSUME NEW c \in C, NEW x \in DOMAIN J(c).renaming, NEW y \in J(c).renaming[x], <<J(c).target, x>> \in Blamed
       PROVE  <<p.blks[c].sub, y>> \in Blamed
  <2>1. <<x, y>> \in Pairs(c)
    BY <1>4
  <2>2. Edge(c, <<x, y>>) \in Renamings
    <3> HIDE DEF Pairs
    <3> QED BY <1>1, <2>1
  <2>3. Edge(c, <<x, y>>)[1] = <<J(c).target, x>> /\ Edge(c, <<x, y>>)[3] = <<p.blks[c].sub, y>>
    BY DEF Edge
  <2> QED BY <1>9, <1>10, <2>2, <2>3 DEF Closed
<1> QED BY <1>9, <1>10 DEF C, J, p

\* The end of a block has the objects of its start, and the uses of these in the
\* block are named.
LEMMA AtEndIs ==
  ASSUME Settled, NEW b \in DOMAIN prog.blks, values[Start(b)] # None
  PROVE  LET s == values[Start(b)]
             t == values[End(b)]
             f == prog.blks[b].sub
             defs == prog.blks[b].defs
         IN  /\ s \in States(prog) /\ t \in States(prog) /\ t # None /\ Grows(s, t)
             /\ s.fn = f /\ t.fn = f /\ \A id \in FlaggedIn(t) : <<f, id>> \in Named(raw)
             /\ \A i \in DOMAIN defs : defs[i].at # None =>
                  \A id \in defs[i].at \cap Known(s) : <<f, id>> \in Named(raw)
<1> DEFINE s == values[Start(b)]
           t == values[End(b)]
           f == prog.blks[b].sub
           defs == prog.blks[b].defs
           flow == BlockFlow(prog, s, b)
<1>1. /\ Start(b)[1] = "BlkStart" /\ Start(b)[2] = b /\ End(b)[1] = "BlkEnd" /\ End(b)[2] = b
      /\ Start(b) \in UafNodes(prog) /\ End(b) \in UafNodes(prog)
  BY DEF Start, End, UafNodes
<1>2. <<End(b), flow>> \in OutFlows(prog, s, Start(b))
  BY <1>1 DEF OutFlows
<1>3. flow.warnings \subseteq raw /\ NodeGrows(End(b), flow.value, t)
  BY <1>1, <1>2 DEF Settled, SoundNodes, PassedOn
<1>4. s \in States(prog) /\ input \in Inputs
  BY <1>1 DEF Settled, UafTyped, NodeValues
<1>5. /\ Warned(s, flow.value, flow.warnings) /\ flow.value \in States(prog)
      /\ \A i \in DOMAIN defs : defs[i].at # None => defs[i].at \cap Known(s) \subseteq FlaggedIn(flow.value)
  BY <1>4, BlockKnown, DefsAre, DefsTyped
<1>6. flow.value # None
  BY <1>4, <1>5, NoneIsNoNodeValue
<1> HIDE DEF flow
<1>7. t # None /\ Grows(flow.value, t)
  BY <1>1, <1>3, <1>6 DEF NodeGrows
<1>8. t \in States(prog)
  BY <1>1, <1>7 DEF Settled, UafTyped, NodeValues
<1>9. Honest(s, f, raw) /\ Honest(t, f, raw)
  BY <1>1, <1>7 DEF Settled, SoundNodes, NodeHonest, Honest
<1>10. Grows(s, t)
  BY <1>5, <1>7 DEF Warned, Grows
<1>11. ASSUME NEW id \in FlaggedIn(flow.value) PROVE <<f, id>> \in Named(raw)
  <2>1. Named(flow.warnings) \subseteq Named(raw)
    BY <1>3, MoreNames
  <2> QED BY <1>5, <1>9, <2>1 DEF Warned, Honest
<1> QED BY <1>5, <1>7, <1>8, <1>9, <1>10, <1>11, <1>4 DEF Honest

\* The pairs that an execution at a block may have freed: the object is recorded
\* at the start of the block or blamed.
Goods(b) ==
  {x \in AllCauses(prog) :
     /\ x[2] # <<>> /\ prog.ids[x[1]].unique
     /\ \/ IsRecorded(prog, values[Start(b)], x[1], Last(x[2]))
        \/ <<prog.blks[b].sub, x[1]>> \in Blamed}
Described ==
  {e \in [blk : DOMAIN prog.blks, pos : Nat, freed : Finites(AllCauses(prog))] :
     /\ e.pos <= Len(prog.blks[e.blk].defs)
     /\ values[Start(e.blk)] # None
     /\ e.freed \subseteq Goods(e.blk)}

\* What is recorded or blamed at a block is at blocks with more objects.
LEMMA GoodsGrow ==
  ASSUME NEW b, NEW c, Grows(values[Start(b)], values[Start(c)]), prog.blks[b].sub = prog.blks[c].sub
  PROVE  Goods(b) \subseteq Goods(c)
<1>1. \A x : IsRecorded(prog, values[Start(b)], x[1], Last(x[2])) => IsRecorded(prog, values[Start(c)], x[1], Last(x[2]))
  BY RecordsStay
<1> QED BY <1>1 DEF Goods

\* A free adds a pair or replaces one by it.
LEMMA WithFreedGood ==
  ASSUME NEW U, NEW freed \in Finites(U), NEW id, NEW path, prog.ids[id].unique => <<id, path>> \in U
  PROVE  WithFreed(freed, id, path) \in Finites(U)
<1>1. CASE ~prog.ids[id].unique
  BY <1>1 DEF WithFreed
<1>2. CASE prog.ids[id].unique
  <2> DEFINE kept == {x \in freed : x[1] # id \/ SameCall(id, x[2]) # SameCall(id, path)}
  <2>1. WithFreed(freed, id, path) = kept \cup {<<id, path>>}
    BY <1>2 DEF WithFreed
  <2>2. kept \subseteq freed /\ IsFiniteSet(freed) /\ freed \subseteq U
    BY DEF Finites
  <2> HIDE DEF kept
  <2>3. kept \in Finites(U) /\ {<<id, path>>} \in Finites(U)
    BY <1>2, <2>2, FS_Subset, FS_Singleton DEF Finites
  <2> QED BY <2>1, <2>3, FinitesGrow
<1> QED BY <1>1, <1>2

\* After a return the pairs of the caller are kept, replaced, or come from pairs
\* of the callee.
LEMMA AfterReturnGood ==
  ASSUME NEW U, NEW q, q.freed \in Finites(U), NEW r, IsFiniteSet(r.freed), NEW call, NEW tid,
         \A x \in r.freed : \A id \in TargetsOf(prog, call.renaming, tid, x[1]) :
           ~SameCall(x[1], x[2]) /\ prog.ids[id].unique => <<id, Append(x[2], tid)>> \in U
  PROVE  \A e \in AfterReturn(q, r, call, tid) : \E freed \in Finites(U) : e = Exec(call.return, 0, freed)
<1> DEFINE seen == {x \in r.freed : x[1] \in DOMAIN call.renaming /\ call.renaming[x[1]] # {}
                                    /\ Len(x[2]) < MaxFreePath}
           One(freed, x, id) ==
             IF id \in get_non_recursive_ids(prog, call.renaming[x[1]]) /\ prog.ids[id].tid # tid
                /\ ~SameCall(x[1], x[2])
             THEN WithFreed(freed, id, Append(x[2], tid)) ELSE freed
           Freed(freeds, x) ==
             freeds \cup UNION {{One(freed, x, id) : id \in call.renaming[x[1]]} : freed \in freeds}
           Is(seq, fs) == fs = [i \in 0..Len(seq) |-> IF i = 0 THEN {q.freed} ELSE Freed(fs[i - 1], seq[i])]
           All(seq) == (CHOOSE fs : Is(seq, fs))[Len(seq)]
           X == SUBSET Finites(U)
<1>1. AfterReturn(q, r, call, tid) = {Exec(call.return, 0, freed) : freed \in UNION {All(seq) : seq \in SetToSeqs(seen)}}
  BY DEF AfterReturn
<1>2. IsFiniteSet(seen) /\ seen \subseteq r.freed /\ \A x \in seen : x[1] \in DOMAIN call.renaming
  <2>1. seen \subseteq r.freed
    OBVIOUS
  <2>2. IsFiniteSet(seen)
    <3> HIDE DEF seen
    <3> QED BY <2>1, FS_Subset
  <2> QED BY <2>2
<1> HIDE DEF seen
<1>3. ASSUME NEW x \in seen, NEW freed \in Finites(U), NEW id \in call.renaming[x[1]]
      PROVE  One(freed, x, id) \in Finites(U)
  <2>1. CASE id \in get_non_recursive_ids(prog, call.renaming[x[1]]) /\ prog.ids[id].tid # tid /\ ~SameCall(x[1], x[2])
    <3>1. id \in TargetsOf(prog, call.renaming, tid, x[1])
      BY <1>2, <2>1 DEF TargetsOf
    <3>2. prog.ids[id].unique => <<id, Append(x[2], tid)>> \in U
      BY <1>2, <2>1, <3>1
    <3>3. WithFreed(freed, id, Append(x[2], tid)) \in Finites(U)
      BY <3>2, WithFreedGood
    <3> QED BY <2>1, <3>3
  <2>2. CASE ~(id \in get_non_recursive_ids(prog, call.renaming[x[1]]) /\ prog.ids[id].tid # tid /\ ~SameCall(x[1], x[2]))
    BY <2>2
  <2> QED BY <2>1, <2>2
<1> HIDE DEF One
<1>4. \A x \in seen : \A freeds \in X : Freed(freeds, x) \in X
  <2> SUFFICES ASSUME NEW x \in seen, NEW freeds \in X, NEW y \in Freed(freeds, x) PROVE y \in Finites(U)
    OBVIOUS
  <2>1. CASE y \in freeds
    BY <2>1
  <2>2. CASE y \notin freeds
    <3>1. PICK freed \in freeds : y \in {One(freed, x, id) : id \in call.renaming[x[1]]}
      BY <2>2
    <3>2. freed \in Finites(U)
      OBVIOUS
    <3> QED BY <1>3, <3>1, <3>2
  <2> QED BY <2>1, <2>2
<1> HIDE DEF Freed, X
<1>5. ASSUME NEW seq \in SetToSeqs(seen) PROVE All(seq) \in X
  <2> DEFINE k == Len(seq)
             F == [z \in (1..k) \X X |-> Freed(z[2], seq[z[1]])]
  <2>1. k \in Nat /\ \A i \in 1..k : seq[i] \in seen
    <3>1. seq \in Seq(seen)
      BY <1>2, SetToSeqsExist
    <3> QED BY <3>1
  <2>2. {q.freed} \in X
    BY DEF X
  <2> HIDE DEF k
  <2>3. F \in [(1..k) \X X -> X]
    BY <1>4, <2>1
  <2>4. PICK s : Iterates(s, k, X, {q.freed}, F)
    <3> HIDE DEF F
    <3> QED BY <2>1, <2>2, <2>3, Iteration
  <2>5. s \in [0..k -> X] /\ s[0] = {q.freed} /\ \A i \in 1..k : s[i] = F[<<i, s[i - 1]>>]
    <3> HIDE DEF F
    <3> QED BY <2>4 DEF Iterates
  <2>6. \A i \in 1..k : s[i] = Freed(s[i - 1], seq[i])
    <3>1. \A i \in 1..k : <<i, s[i - 1]>> \in (1..k) \X X
      BY <2>1, <2>5
    <3> QED BY <2>5, <3>1
  <2>7. Is(seq, s)
    <3>1. s = [i \in 0..k |-> s[i]]
      BY <2>5
    <3>2. \A i \in 0..k : s[i] = IF i = 0 THEN {q.freed} ELSE Freed(s[i - 1], seq[i])
      <4> SUFFICES ASSUME NEW i \in 0..k PROVE s[i] = IF i = 0 THEN {q.freed} ELSE Freed(s[i - 1], seq[i])
        OBVIOUS
      <4>1. i = 0 \/ i \in 1..k
        BY <2>1
      <4> QED BY <2>5, <2>6, <4>1
    <3> QED BY <3>1, <3>2, Zenon DEF k
  <2> DEFINE c == CHOOSE fs : Is(seq, fs)
  <2>8. Is(seq, c)
    BY <2>7
  <2>9. All(seq) = c[k]
    BY DEF k
  <2> HIDE DEF c
  <2>10. /\ c[0] = {q.freed}
         /\ \A i \in 1..k : c[i] = Freed(c[i - 1], seq[i])
    <3>1. 0 \in 0..k /\ \A i \in 1..k : i \in 0..k /\ i # 0
      BY <2>1
    <3> QED BY <2>8, <3>1 DEF k
  <2> DEFINE T == {i \in Nat : i <= k => c[i] \in X}
  <2>11. 0 \in T
    BY <2>2, <2>10
  <2>12. \A i \in Nat : i \in T => i + 1 \in T
    <3> SUFFICES ASSUME NEW i \in Nat, i \in T, i + 1 <= k PROVE c[i + 1] \in X
      OBVIOUS
    <3>1. i + 1 \in 1..k /\ (i + 1) - 1 = i /\ c[i] \in X
      BY <2>1
    <3> QED BY <1>4, <2>1, <2>10, <3>1
  <2>13. \A i \in Nat : i \in T
    <3> HIDE DEF T
    <3> QED BY <2>11, <2>12, Induction
  <2>14. c[k] \in X
    BY <2>1, <2>13
  <2> HIDE DEF All
  <2> QED BY <2>9, <2>14
<1> HIDE DEF All
<1>6. ASSUME NEW e \in AfterReturn(q, r, call, tid) PROVE \E freed \in Finites(U) : e = Exec(call.return, 0, freed)
  <2>1. PICK seq \in SetToSeqs(seen) : \E freed \in All(seq) : e = Exec(call.return, 0, freed)
    BY <1>1
  <2>2. All(seq) \subseteq Finites(U)
    BY <1>5 DEF X
  <2> QED BY <2>1, <2>2
<1> QED BY <1>6

\* What a block sends at its end to a block of its function reaches it.
LEMMA SentOn ==
  ASSUME Settled, NEW b \in DOMAIN prog.blks, values[Start(b)] # None,
         NEW c \in BlocksOf(prog, prog.blks[b].sub), NEW flow,
         <<Start(c), flow>> \in OutFlows(prog, values[End(b)], End(b)), flow.value # None,
         Grows(values[End(b)], flow.value)
  PROVE  /\ values[Start(c)] # None /\ Grows(flow.value, values[Start(c)])
         /\ Goods(b) \subseteq Goods(c)
         /\ flow.warnings \subseteq raw
<1>1. values[End(b)] # None /\ Grows(values[Start(b)], values[End(b)])
  BY AtEndIs
<1>2. End(b) \in UafNodes(prog) /\ Start(c)[1] = "BlkStart"
  BY DEF UafNodes, Start
<1>3. flow.warnings \subseteq raw /\ NodeGrows(Start(c), flow.value, values[Start(c)])
  BY <1>1, <1>2 DEF Settled, SoundNodes, PassedOn
<1>4. values[Start(c)] # None /\ Grows(flow.value, values[Start(c)])
  BY <1>2, <1>3 DEF NodeGrows
<1>5. Grows(values[Start(b)], values[Start(c)])
  BY <1>1, <1>4 DEF Grows
<1>6. prog.blks[b].sub = prog.blks[c].sub
  BY DEF BlocksOf
<1> QED BY <1>3, <1>4, <1>5, <1>6, GoodsGrow

\* An execution that arrives at a block.
LEMMA Arrived ==
  ASSUME Settled, NEW c \in DOMAIN prog.blks, values[Start(c)] # None, NEW freed \in Finites(Goods(c))
  PROVE  Exec(c, 0, freed) \in Described
<1>1. freed \in Finites(AllCauses(prog)) /\ freed \subseteq Goods(c)
  BY DEF Finites, Goods
<1>2. Len(prog.blks[c].defs) \in Nat
  BY BlockKnown DEF IsListed, Settled
<1>3. Exec(c, 0, freed) = [blk |-> c, pos |-> 0, freed |-> freed]
  BY DEF Exec
<1> QED BY <1>1, <1>2, <1>3 DEF Described

\* An execution continues with a jump inside its function.
LEMMA JumpsDescribed ==
  ASSUME Settled, NEW e \in Described, FirstJmp(prog, e.blk).kind \notin {"Call", "ExternCall", "CallInd", "CallOther"},
         NEW x \in PlainJumps(prog, e.blk)
  PROVE  Exec(x[3][2], 0, e.freed) \in Described
<1> DEFINE b == e.blk
           j == FirstJmp(prog, b)
           flow == Flow(values[End(b)], {})
<1>1. /\ b \in DOMAIN prog.blks /\ values[Start(b)] # None
      /\ e.freed \in Finites(AllCauses(prog)) /\ e.freed \subseteq Goods(b)
  BY DEF Described
<1>2. BlockIsNormal(prog, b)
  <2>1. IsNormal(prog)
    BY ProgramsAreNormal DEF prog, Settled
  <2> QED BY <1>1, <2>1 DEF IsNormal
<1>3. j.kind # "Return"
  <2>1. Len(prog.blks[b].jmps) = 2 => j.kind = "CBranch"
    <3>1. Len(prog.blks[b].jmps) = 2 => prog.blks[b].jmps[1].kind = "CBranch"
      BY <1>2 DEF BlockIsNormal
    <3> QED BY <3>1 DEF FirstJmp
  <2> QED BY <2>1 DEF PlainJumps, FirstJmp
<1>4. PICK t \in BlocksOf(prog, prog.blks[b].sub) : x[3] = Start(t)
  BY <1>2, JumpEdges
<1>5. <<Start(t), flow>> \in OutFlows(prog, values[End(b)], End(b))
  <2>1. End(b)[1] = "BlkEnd" /\ End(b)[2] = b
    BY DEF End
  <2>2. OutFlows(prog, values[End(b)], End(b)) = {<<y[3], flow>> : y \in add_jump_edge(prog, b)}
    BY <1>3, <2>1 DEF OutFlows
  <2>3. x \in add_jump_edge(prog, b)
    BY <1>2, InterJumps
  <2> QED BY <1>4, <2>2, <2>3
<1>6. values[End(b)] # None /\ flow.value = values[End(b)] /\ Grows(values[End(b)], flow.value)
  BY <1>1, AtEndIs DEF Flow, Grows
<1>7. values[Start(t)] # None /\ Goods(b) \subseteq Goods(t) /\ t \in DOMAIN prog.blks
  <2> HIDE DEF flow
  <2> QED BY <1>1, <1>5, <1>6, SentOn DEF BlocksOf
<1>8. e.freed \in Finites(Goods(t)) /\ x[3][2] = t
  BY <1>1, <1>4, <1>7 DEF Finites, Start
<1> QED BY <1>7, <1>8, Arrived

\* An execution continues after a call that is not entered.
LEMMA StubsDescribed ==
  ASSUME Settled, NEW e \in Described, FirstJmp(prog, e.blk).kind \in {"ExternCall", "CallInd"},
         NEW freed \in AfterStub(e, FirstJmp(prog, e.blk), JmpTid(prog, e.blk, 1))
  PROVE  Exec(FirstJmp(prog, e.blk).return, 0, freed) \in Described
<1> DEFINE b == e.blk
           j == FirstJmp(prog, b)
           tid == JmpTid(prog, b, 1)
           s == values[End(b)]
           d == j.return
           flow == update_call_stub(prog, s, j, tid)
           frees == j.kind = "ExternCall" /\ j.target = "free"
<1>1. /\ b \in DOMAIN prog.blks /\ values[Start(b)] # None
      /\ e.freed \in Finites(AllCauses(prog)) /\ e.freed \subseteq Goods(b)
  BY DEF Described
<1>2. input \in Inputs
  BY DEF Settled
<1>3. /\ tid \in Nat /\ d \in BlocksOf(prog, prog.blks[b].sub)
      /\ j.kind = "ExternCall" /\ j.args # <<>> => j.args[1] = None \/ j.args[1] \subseteq DOMAIN prog.ids
  BY <1>1, <1>2, BlockKnown
<1>4. s \in States(prog)
  BY <1>1, AtEndIs
<1>5. <<Start(d), flow>> \in OutFlows(prog, s, End(b))
  <2>1. End(b)[1] = "BlkEnd" /\ End(b)[2] = b
    BY DEF End
  <2>2. OutFlows(prog, s, End(b)) = {<<Start(d), flow>>}
    BY <2>1 DEF OutFlows
  <2> QED BY <2>2
<1>6. /\ Grows(s, flow.value)
      /\ frees /\ j.args # <<>> /\ j.args[1] # None =>
           \A id \in get_non_recursive_ids(prog, j.args[1]) :
             prog.ids[id].unique => IsRecorded(prog, flow.value, id, tid)
  BY <1>1, <1>2, <1>4, StubIs DEF Accounted
<1>7. flow.value # None
  BY <1>1, <1>2, <1>4, StubTyped, NoneIsNoNodeValue
<1>8. freed = e.freed \/ /\ frees /\ j.args # <<>> /\ j.args[1] # None
                         /\ \E id \in get_non_recursive_ids(prog, j.args[1]) : freed = WithFreed(e.freed, id, <<tid>>)
  BY DEF AfterStub, AfterFree
<1> HIDE DEF flow, s
<1>9. /\ values[Start(d)] # None /\ Grows(flow.value, values[Start(d)])
      /\ Goods(b) \subseteq Goods(d) /\ d \in DOMAIN prog.blks
  BY <1>1, <1>3, <1>5, <1>6, <1>7, SentOn DEF BlocksOf, s
<1> HIDE DEF d
<1>10. e.freed \in Finites(Goods(d))
  BY <1>1, <1>9 DEF Finites
<1>11. freed \in Finites(Goods(d))
  <2>1. CASE freed = e.freed
    BY <1>10, <2>1
  <2>2. CASE freed # e.freed
    <3>1. PICK id \in get_non_recursive_ids(prog, j.args[1]) : freed = WithFreed(e.freed, id, <<tid>>)
      BY <1>8, <2>2
    <3>2. id \in DOMAIN prog.ids
      BY <1>3, <1>8, <2>2, NonRecursive
    <3>3. Last(<<tid>>) = tid /\ <<tid>> \in Seq(Int) /\ <<tid>> # <<>>
      BY <1>3 DEF Last
    <3> DEFINE x == <<id, <<tid>>>>
    <3>4. x \in AllCauses(prog) /\ x[1] = id /\ x[2] = <<tid>>
      BY <3>2, <3>3 DEF AllCauses
    <3> HIDE DEF x, tid
    <3>5. ASSUME prog.ids[id].unique PROVE x \in Goods(d)
      <4>1. IsRecorded(prog, flow.value, id, tid)
        BY <1>6, <1>8, <2>2, <3>5
      <4>2. IsRecorded(prog, values[Start(d)], id, tid)
        BY <1>9, <4>1, RecordsStay
      <4> QED BY <3>3, <3>4, <3>5, <4>2 DEF Goods
    <3> QED BY <1>10, <3>1, <3>5, WithFreedGood DEF x
  <2> QED BY <2>1, <2>2
<1> QED BY <1>9, <1>11, Arrived DEF d

\* After a call the objects of the caller are known, and those that the callee
\* freed are recorded or blamed under their names in the caller.
LEMMA ReturnsAgree ==
  ASSUME Settled, NEW b \in DOMAIN prog.blks, values[Start(b)] # None,
         FirstJmp(prog, b).kind = "Call", FirstJmp(prog, b).renaming # None,
         NEW r \in ReturnBlocks(prog, FirstJmp(prog, b).target), values[Start(r)] # None
  PROVE  LET j == FirstJmp(prog, b)
             tid == JmpTid(prog, b, 1)
             d == j.return
         IN  /\ d \in DOMAIN prog.blks /\ values[Start(d)] # None /\ Goods(b) \subseteq Goods(d)
             /\ \A x \in Goods(r) : \A id \in TargetsOf(prog, j.renaming, tid, x[1]) :
                  ~SameCall(x[1], x[2]) /\ prog.ids[id].unique => <<id, Append(x[2], tid)>> \in Goods(d)
<1> DEFINE j == FirstJmp(prog, b)
           tid == JmpTid(prog, b, 1)
           d == j.return
           n == CallReturn(b, r)
           s == values[End(b)]
           t == values[End(r)]
           v == values[n]
           flow == update_return(prog, v.flow, v.call_stub, j, tid)
<1>1. /\ input \in Inputs /\ r \in DOMAIN prog.blks /\ prog.blks[r].sub = j.target /\ FirstJmp(prog, r).kind = "Return"
  BY DEF Settled, ReturnBlocks, BlocksOf
<1>2. /\ tid \in Nat /\ d \in BlocksOf(prog, prog.blks[b].sub) /\ IsListed(prog.ids) /\ IsListed(j.args)
      /\ \A id \in DOMAIN j.renaming : j.renaming[id] \subseteq DOMAIN prog.ids
  BY <1>1, BlockKnown
<1>3. d \in DOMAIN prog.blks /\ prog.blks[d].sub = prog.blks[b].sub
  BY <1>2 DEF BlocksOf
<1>4. /\ n[1] = "CallReturn" /\ n[2] = b /\ n[3] = r /\ n \in CallReturns(prog)
      /\ n \in UafNodes(prog) /\ End(b) \in UafNodes(prog) /\ End(r) \in UafNodes(prog)
      /\ Start(d)[1] = "BlkStart"
  BY <1>1 DEF CallReturn, CallReturns, UafNodes, Start
<1>5. /\ s \in States(prog) /\ t \in States(prog) /\ s # None /\ t # None
      /\ Grows(values[Start(b)], s) /\ Grows(values[Start(r)], t)
  BY <1>1, AtEndIs
<1>6. /\ End(b)[1] = "BlkEnd" /\ End(b)[2] = b /\ End(r)[1] = "BlkEnd" /\ End(r)[2] = r
  BY DEF End
<1> HIDE DEF n, d, s, t
<1>7. v # None /\ OptionGrows(s, v.call_stub)
  <2> DEFINE f == Flow([call_stub |-> s, flow |-> None], {})
  <2>1. <<n, f>> \in OutFlows(prog, s, End(b))
    BY <1>4, <1>6 DEF OutFlows
  <2>2. NodeGrows(n, f.value, v)
    BY <1>4, <1>5, <2>1 DEF Settled, SoundNodes, PassedOn, s
  <2>3. f.value # None /\ f.value.call_stub = s
    <3>1. f.value = [call_stub |-> s, flow |-> None]
      BY DEF Flow
    <3>2. f.value \in NodeValues(prog, n)
      BY <1>4, <1>5, <3>1 DEF NodeValues
    <3>3. f.value # None
      BY <1>1, <3>2, NoneIsNoNodeValue
    <3> QED BY <3>1, <3>3
  <2> QED BY <1>4, <2>2, <2>3 DEF NodeGrows
<1>8. OptionGrows(t, v.flow)
  <2> DEFINE f == Flow([call_stub |-> None, flow |-> t], {})
  <2>1. <<n, f>> \in OutFlows(prog, t, End(r))
    BY <1>1, <1>4, <1>6 DEF OutFlows
  <2>2. NodeGrows(n, f.value, v)
    BY <1>4, <1>5, <2>1 DEF Settled, SoundNodes, PassedOn, t
  <2>3. f.value # None /\ f.value.flow = t
    <3>1. f.value = [call_stub |-> None, flow |-> t]
      BY DEF Flow
    <3>2. f.value \in NodeValues(prog, n)
      BY <1>4, <1>5, <3>1 DEF NodeValues
    <3>3. f.value # None
      BY <1>1, <3>2, NoneIsNoNodeValue
    <3> QED BY <3>1, <3>3
  <2> QED BY <1>4, <2>2, <2>3 DEF NodeGrows
<1>9. /\ v.call_stub # None /\ Grows(s, v.call_stub) /\ v.flow # None /\ Grows(t, v.flow)
      /\ v.call_stub \in States(prog) /\ v.flow \in States(prog)
  <2>1. v \in [call_stub : States(prog) \cup {None}, flow : States(prog) \cup {None}]
    BY <1>4, <1>7 DEF Settled, UafTyped, NodeValues
  <2>2. v.call_stub \in States(prog) \cup {None} /\ v.flow \in States(prog) \cup {None}
    BY <2>1
  <2> QED BY <1>5, <1>7, <1>8, <2>2 DEF OptionGrows
<1>10. /\ flow.value # None
       /\ Grows(v.call_stub, flow.value)
       /\ \A id \in DOMAIN v.flow.dangling \ Flagged(v.flow.dangling) :
            \A x \in TargetsOf(prog, j.renaming, tid, id) :
              prog.ids[x].unique => IsRecorded(prog, flow.value, x, tid)
  BY <1>1, <1>2, <1>9, ReturnIs, NoneIsNoNodeValue DEF Accounted
<1>11. <<Start(d), flow>> \in OutFlows(prog, v, n)
  BY <1>4 DEF OutFlows, d
<1> HIDE DEF flow
<1>12. values[Start(d)] # None /\ Grows(flow.value, values[Start(d)])
  <2>1. NodeGrows(Start(d), flow.value, values[Start(d)])
    BY <1>4, <1>7, <1>11 DEF Settled, SoundNodes, PassedOn
  <2> QED BY <1>4, <1>10, <2>1 DEF NodeGrows
<1>13. Goods(b) \subseteq Goods(d)
  <2>1. Grows(values[Start(b)], values[Start(d)])
    BY <1>5, <1>9, <1>10, <1>12 DEF Grows
  <2> QED BY <1>3, <2>1, GoodsGrow
<1>14. \A id \in Flagged(v.flow.dangling) : <<prog.blks[r].sub, id>> \in Named(raw)
  <2>1. NodeHonest(prog, n, v, raw)
    BY <1>4 DEF Settled, SoundNodes
  <2> QED BY <1>4, <1>7, <1>9, <2>1 DEF NodeHonest, Honest, FlaggedIn
<1>15. ASSUME NEW x \in Goods(r), NEW id \in TargetsOf(prog, j.renaming, tid, x[1]),
              ~SameCall(x[1], x[2]), prog.ids[id].unique
       PROVE  <<id, Append(x[2], tid)>> \in Goods(d)
  <2>1. x \in AllCauses(prog) /\ x[2] \in Seq(Int)
    BY DEF Goods, AllCauses
  <2>2. x[1] \in DOMAIN j.renaming /\ id \in j.renaming[x[1]] /\ id \in DOMAIN prog.ids
    BY <1>2, NonRecursive DEF TargetsOf
  <2> DEFINE path == Append(x[2], tid)
             y == <<id, path>>
  <2>3. path \in Seq(Int) /\ path # <<>> /\ Last(path) = tid
    <3>1. tid \in Int
      BY <1>2
    <3> HIDE DEF tid
    <3>2. path \in Seq(Int) /\ Len(path) = Len(x[2]) + 1 /\ Len(x[2]) \in Nat /\ path[Len(x[2]) + 1] = tid
      BY <2>1, <3>1, AppendProperties, LenProperties
    <3> HIDE DEF path
    <3> QED BY <3>2, EmptySeq DEF Last
  <2>4. y \in AllCauses(prog) /\ y[1] = id /\ y[2] = path
    BY <2>2, <2>3 DEF AllCauses
  <2>5. CASE <<prog.blks[r].sub, x[1]>> \in Blamed
    <3>1. <<prog.blks[b].sub, id>> \in Blamed
      BY <1>1, <2>2, <2>5, BlamedIs
    <3> HIDE DEF y, path
    <3> QED BY <1>3, <1>15, <2>3, <2>4, <3>1 DEF Goods, y, path
  <2>6. CASE <<prog.blks[r].sub, x[1]>> \notin Blamed
    <3>1. IsRecorded(prog, values[Start(r)], x[1], Last(x[2]))
      BY <2>6 DEF Goods
    <3>2. x[1] \in DOMAIN values[Start(r)].dangling
      BY <1>15, <3>1 DEF IsRecorded, SameCall
    <3>3. x[1] \in DOMAIN v.flow.dangling
      BY <1>5, <1>9, <3>2 DEF Grows
    <3>4. x[1] \notin Flagged(v.flow.dangling)
      BY <1>1, <1>14, <2>6, BlamedIs
    <3>5. IsRecorded(prog, flow.value, id, tid)
      BY <1>10, <1>15, <3>3, <3>4
    <3>6. IsRecorded(prog, values[Start(d)], id, tid)
      BY <1>12, <3>5, RecordsStay
    <3> HIDE DEF y, path
    <3> QED BY <1>15, <2>3, <2>4, <3>6 DEF Goods, y, path
  <2> QED BY <2>5, <2>6
<1> QED BY <1>3, <1>12, <1>13, <1>15 DEF d

\* An execution continues after a call with an execution of the callee.
LEMMA CallsDescribed ==
  ASSUME Settled, NEW q \in Described, NEW r \in Described,
         FirstJmp(prog, q.blk).kind = "Call", FirstJmp(prog, q.blk).renaming # None,
         r.blk \in ReturnBlocks(prog, FirstJmp(prog, q.blk).target)
  PROVE  AfterReturn(q, r, FirstJmp(prog, q.blk), JmpTid(prog, q.blk, 1)) \subseteq Described
<1> DEFINE j == FirstJmp(prog, q.blk)
           tid == JmpTid(prog, q.blk, 1)
           d == j.return
<1>1. /\ q.blk \in DOMAIN prog.blks /\ values[Start(q.blk)] # None
      /\ q.freed \in Finites(AllCauses(prog)) /\ q.freed \subseteq Goods(q.blk)
      /\ values[Start(r.blk)] # None /\ r.freed \in Finites(AllCauses(prog)) /\ r.freed \subseteq Goods(r.blk)
  BY DEF Described
<1>2. /\ d \in DOMAIN prog.blks /\ values[Start(d)] # None /\ Goods(q.blk) \subseteq Goods(d)
      /\ \A x \in Goods(r.blk) : \A id \in TargetsOf(prog, j.renaming, tid, x[1]) :
           ~SameCall(x[1], x[2]) /\ prog.ids[id].unique => <<id, Append(x[2], tid)>> \in Goods(d)
  BY <1>1, ReturnsAgree
<1>3. q.freed \in Finites(Goods(d)) /\ IsFiniteSet(r.freed)
  BY <1>1, <1>2 DEF Finites
<1> HIDE DEF j, tid, d
<1>4. \A e \in AfterReturn(q, r, j, tid) : \E freed \in Finites(Goods(d)) : e = Exec(j.return, 0, freed)
  <2> DEFINE U == Goods(d)
  <2>1. \A x \in r.freed : \A id \in TargetsOf(prog, j.renaming, tid, x[1]) :
          ~SameCall(x[1], x[2]) /\ prog.ids[id].unique => <<id, Append(x[2], tid)>> \in U
    BY <1>1, <1>2
  <2>2. q.freed \in Finites(U)
    BY <1>3
  <2> HIDE DEF U
  <2>3. \A e \in AfterReturn(q, r, j, tid) : \E freed \in Finites(U) : e = Exec(j.return, 0, freed)
    BY <1>3, <2>1, <2>2, AfterReturnGood
  <2> QED BY <2>3 DEF U
<1>5. ASSUME NEW e \in AfterReturn(q, r, j, tid) PROVE e \in Described
  <2>1. PICK freed \in Finites(Goods(d)) : e = Exec(d, 0, freed)
    BY <1>4 DEF d
  <2> QED BY <1>2, <2>1, Arrived
<1> QED BY <1>5 DEF j, tid

\* Every step of an execution is described.
LEMMA StepsDescribed ==
  ASSUME Settled, NEW execs \in SUBSET Described, NEW e \in Described
  PROVE  Steps(execs, e) \subseteq Described
<1> DEFINE j == FirstJmp(prog, e.blk)
           tid == JmpTid(prog, e.blk, 1)
<1>1. /\ e \in [blk : DOMAIN prog.blks, pos : Nat, freed : Finites(AllCauses(prog))]
      /\ e.pos <= Len(prog.blks[e.blk].defs) /\ values[Start(e.blk)] # None /\ e.freed \subseteq Goods(e.blk)
      /\ Len(prog.blks[e.blk].defs) \in Nat
  BY BlockKnown DEF Described, IsListed, Settled
<1>2. CASE ~AtEnd(e)
  <2>1. Steps(execs, e) = {Exec(e.blk, e.pos + 1, e.freed)}
    BY <1>2 DEF Steps
  <2>2. e.pos + 1 \in Nat /\ e.pos + 1 <= Len(prog.blks[e.blk].defs)
    BY <1>1, <1>2 DEF AtEnd, Here
  <2>3. Exec(e.blk, e.pos + 1, e.freed) = [blk |-> e.blk, pos |-> e.pos + 1, freed |-> e.freed]
    BY DEF Exec
  <2> DEFINE f == [blk |-> e.blk, pos |-> e.pos + 1, freed |-> e.freed]
  <2>4. f \in [blk : DOMAIN prog.blks, pos : Nat, freed : Finites(AllCauses(prog))]
    BY <1>1, <2>2
  <2>5. f.blk = e.blk /\ f.pos = e.pos + 1 /\ f.freed = e.freed
    OBVIOUS
  <2> HIDE DEF f
  <2>6. f \in Described
    BY <1>1, <2>2, <2>4, <2>5 DEF Described
  <2> QED BY <2>1, <2>3, <2>6 DEF f
<1>3. CASE AtEnd(e) /\ j.kind = "Call"
  <2>1. CASE j.renaming = None
    BY <1>3, <2>1 DEF Steps
  <2>2. CASE j.renaming # None
    <3>1. Steps(execs, e) = UNION {AfterReturn(e, r, j, tid) :
                                     r \in {r \in execs : AtEnd(r) /\ r.blk \in ReturnBlocks(prog, j.target)}}
      BY <1>3, <2>2 DEF Steps
    <3>2. \A r \in execs : r.blk \in ReturnBlocks(prog, j.target) => AfterReturn(e, r, j, tid) \subseteq Described
      BY <1>3, <2>2, CallsDescribed
    <3> HIDE DEF j, tid
    <3> QED BY <3>1, <3>2
  <2> QED BY <2>1, <2>2
<1>4. CASE AtEnd(e) /\ j.kind \in {"ExternCall", "CallInd"}
  <2>1. Steps(execs, e) = {Exec(j.return, 0, freed) : freed \in AfterStub(e, j, tid)}
    BY <1>4 DEF Steps
  <2>2. \A freed \in AfterStub(e, j, tid) : Exec(j.return, 0, freed) \in Described
    BY <1>4, StubsDescribed
  <2> HIDE DEF j, tid
  <2> QED BY <2>1, <2>2
<1>5. CASE AtEnd(e) /\ j.kind = "CallOther"
  <2>1. Steps(execs, e) = {}
    BY <1>5 DEF Steps
  <2> QED BY <2>1
<1>6. CASE AtEnd(e) /\ j.kind \notin {"Call", "ExternCall", "CallInd", "CallOther"}
  <2>1. Steps(execs, e) = {Exec(x[3][2], 0, e.freed) : x \in PlainJumps(prog, e.blk)}
    BY <1>6 DEF Steps
  <2>2. \A x \in PlainJumps(prog, e.blk) : Exec(x[3][2], 0, e.freed) \in Described
    BY <1>6, JumpsDescribed
  <2> QED BY <2>1, <2>2
<1> QED BY <1>2, <1>3, <1>4, <1>5, <1>6

\* Executions start described.
LEMMA StartsDescribed ==
  ASSUME Settled
  PROVE  {Exec(prog.entry[f], 0, {}) : f \in DOMAIN prog.entry} \subseteq Described
<1> SUFFICES ASSUME NEW f \in DOMAIN prog.entry PROVE Exec(prog.entry[f], 0, {}) \in Described
  OBVIOUS
<1>1. IsNormal(prog)
  BY ProgramsAreNormal DEF prog, Settled
<1>2. prog.entry[f] \in DOMAIN prog.blks
  BY <1>1 DEF IsNormal, BlocksOf
<1>3. values[Start(prog.entry[f])] # None
  BY DEF Settled, SoundNodes
<1>4. {} \in Finites(Goods(prog.entry[f]))
  BY FS_EmptySet DEF Finites
<1> QED BY <1>2, <1>3, <1>4, Arrived

\* All executions are described.
LEMMA ExecutionsDescribed ==
  ASSUME Settled
  PROVE  Executions \subseteq Described
<1> DEFINE k == MaxSteps
           X == SUBSET Described
           x0 == {Exec(prog.entry[f], 0, {}) : f \in DOMAIN prog.entry}
           F == [z \in (1..k) \X X |-> Continued(z[2])]
           Is(r) == r = [i \in 0..k |-> IF i = 0 THEN x0 ELSE Continued(r[i - 1])]
<1>1. k \in Nat
  BY StepsAreCounted
<1>2. \A x \in X : Continued(x) \in X
  BY StepsDescribed DEF Continued
<1>3. x0 \in X
  BY StartsDescribed
<1>4. ExecRounds = CHOOSE r : Is(r)
  BY DEF ExecRounds
<1> HIDE DEF k, X, x0
<1>5. F \in [(1..k) \X X -> X]
  BY <1>2
<1>6. PICK s : Iterates(s, k, X, x0, F)
  <2> HIDE DEF F
  <2> QED BY <1>1, <1>3, <1>5, Iteration
<1>7. Is(s)
  <2>1. s \in [0..k -> X] /\ s[0] = x0 /\ \A i \in 1..k : s[i] = F[<<i, s[i - 1]>>]
    <3> HIDE DEF F
    <3> QED BY <1>6 DEF Iterates
  <2>2. \A i \in 1..k : <<i, s[i - 1]>> \in (1..k) \X X
    BY <1>1, <2>1
  <2>3. \A i \in 1..k : s[i] = Continued(s[i - 1])
    BY <2>1, <2>2
  <2> HIDE DEF F
  <2> QED BY <1>1, <2>1, <2>3
<1>8. Is(CHOOSE r : Is(r))
  BY <1>7
<1>9. Is(ExecRounds)
  <2> HIDE DEF Is
  <2> QED BY <1>4, <1>8
<1> DEFINE S == {i \in Nat : i <= k => ExecRounds[i] \in X}
<1>10. 0 \in S
  <2>1. 0 \in 0..k
    BY <1>1
  <2> QED BY <1>3, <1>9, <2>1
<1>11. \A i \in Nat : i \in S => i + 1 \in S
  <2> SUFFICES ASSUME NEW i \in Nat, i \in S, i + 1 <= k PROVE ExecRounds[i + 1] \in X
    OBVIOUS
  <2>1. i + 1 \in 0..k /\ i + 1 # 0 /\ (i + 1) - 1 = i /\ ExecRounds[i] \in X
    BY <1>1
  <2>2. ExecRounds[i + 1] = Continued(ExecRounds[i])
    BY <1>9, <2>1
  <2> QED BY <1>2, <2>1, <2>2
<1>12. \A i \in Nat : i \in S
  <2> HIDE DEF S
  <2> QED BY <1>10, <1>11, Induction
<1>13. ExecRounds[k] \in X
  BY <1>1, <1>12
<1> QED BY <1>13 DEF Executions, k, X

\* The warnings of a call that is not entered were sent.
LEMMA StubSent ==
  ASSUME Settled, NEW b \in DOMAIN prog.blks, values[Start(b)] # None,
         FirstJmp(prog, b).kind \in {"ExternCall", "CallInd"}
  PROVE  update_call_stub(prog, values[End(b)], FirstJmp(prog, b), JmpTid(prog, b, 1)).warnings \subseteq raw
<1> DEFINE flow == update_call_stub(prog, values[End(b)], FirstJmp(prog, b), JmpTid(prog, b, 1))
<1>1. End(b)[1] = "BlkEnd" /\ End(b)[2] = b /\ End(b) \in UafNodes(prog)
  BY DEF End, UafNodes
<1>2. <<Start(FirstJmp(prog, b).return), flow>> \in OutFlows(prog, values[End(b)], End(b))
  BY <1>1 DEF OutFlows
<1>3. values[End(b)] # None
  BY AtEndIs
<1> HIDE DEF flow
<1>4. flow.warnings \subseteq raw
  BY <1>1, <1>2, <1>3 DEF Settled, SoundNodes, PassedOn
<1> QED BY <1>4 DEF flow

\* The warnings for the arguments of an internal call were sent.
LEMMA CallSent ==
  ASSUME Settled, NEW b \in DOMAIN prog.blks, values[Start(b)] # None, FirstJmp(prog, b).kind = "Call"
  PROVE  UseWarning(JmpTid(prog, b, 1),
                    collect_cwe_warnings_of_call_params(values[End(b)], FirstJmp(prog, b).args)).warnings \subseteq raw
<1> DEFINE flow == update_call(values[End(b)], FirstJmp(prog, b), JmpTid(prog, b, 1))
<1>1. End(b)[1] = "BlkEnd" /\ End(b)[2] = b /\ End(b) \in UafNodes(prog)
  BY DEF End, UafNodes
<1>2. <<Start(prog.entry[FirstJmp(prog, b).target]), flow>> \in OutFlows(prog, values[End(b)], End(b))
  BY <1>1 DEF OutFlows
<1>3. values[End(b)] # None
  BY AtEndIs
<1>4. flow.warnings = UseWarning(JmpTid(prog, b, 1),
                        collect_cwe_warnings_of_call_params(values[End(b)], FirstJmp(prog, b).args)).warnings
  BY DEF update_call, check_internal_call_params_for_use_after_free, Flow
<1> HIDE DEF flow
<1>5. flow.warnings \subseteq raw
  BY <1>1, <1>2, <1>3 DEF Settled, SoundNodes, PassedOn
<1> QED BY <1>4, <1>5

\* A use that the check spots is blamed.
LEMMA SpottedIsBlamed ==
  ASSUME Settled, NEW b \in DOMAIN prog.blks, values[Start(b)] # None, NEW ws, ws \subseteq raw, NEW id,
         Spotted(values[End(b)], id, ws)
  PROVE  <<prog.blks[b].sub, id>> \in Blamed
<1>1. /\ values[End(b)].fn = prog.blks[b].sub
      /\ \A x \in FlaggedIn(values[End(b)]) : <<prog.blks[b].sub, x>> \in Named(raw)
  BY AtEndIs
<1>2. Named(ws) \subseteq Named(raw) /\ Named(raw) \subseteq Blamed
  BY MoreNames, BlamedIs DEF Settled
<1> QED BY <1>1, <1>2 DEF Spotted

\* What a described execution uses or frees again after it was freed is blamed.
LEMMA UsesAreBlamed ==
  ASSUME Settled, NEW e \in Described, NEW id \in UsedFreed(e)
  PROVE  <<Here(e).sub, id>> \in Blamed
<1> DEFINE b == e.blk
           j == FirstJmp(prog, b)
           tid == JmpTid(prog, b, 1)
           s == values[Start(b)]
           t == values[End(b)]
           defs == prog.blks[b].defs
           frees == j.kind = "ExternCall" /\ j.target = "free"
<1>1. /\ b \in DOMAIN prog.blks /\ e.pos \in Nat /\ e.pos <= Len(defs) /\ s # None /\ e.freed \subseteq Goods(b)
      /\ Len(defs) \in Nat /\ DOMAIN defs = 1..Len(defs)
  BY BlockKnown DEF Described, IsListed, Settled
<1>2. input \in Inputs /\ Here(e) = prog.blks[b]
  BY DEF Settled, Here
<1>3. /\ t \in States(prog) /\ Grows(s, t)
      /\ \A i \in DOMAIN defs : defs[i].at # None =>
           \A x \in defs[i].at \cap Known(s) : <<prog.blks[b].sub, x>> \in Named(raw)
  BY <1>1, AtEndIs
<1>4. Known(s) \subseteq Known(t)
  BY <1>3 DEF Grows, Known
<1>5. Named(raw) \subseteq Blamed
  BY <1>2, BlamedIs
<1> SUFFICES ASSUME <<prog.blks[b].sub, id>> \notin Blamed PROVE FALSE
  BY <1>2
<1>6. \A x \in e.freed : x[1] = id => IsRecorded(prog, s, id, Last(x[2])) /\ prog.ids[id].unique
  BY <1>1 DEF Goods
<1>7. id \in FreedIds(e.freed) => id \in Known(s)
  BY <1>6 DEF FreedIds, IsRecorded, Known
<1> HIDE DEF s, t
<1>8. CASE ~AtEnd(e)
  <2>1. /\ defs[e.pos + 1].at # None /\ id \in defs[e.pos + 1].at \cap FreedIds(e.freed)
    BY <1>2, <1>8 DEF UsedFreed
  <2>2. e.pos + 1 \in DOMAIN defs
    BY <1>1, <1>2, <1>8 DEF AtEnd
  <2> QED BY <1>3, <1>5, <1>7, <2>1, <2>2
<1>9. CASE AtEnd(e) /\ frees
  <2>1. /\ j.args # <<>> /\ j.args[1] # None /\ id \in get_non_recursive_ids(prog, j.args[1])
        /\ \E x \in e.freed : x[1] = id /\ ~SameCall(x[1], x[2])
    <3>1. UsedFreed(e) = IF j.args = <<>> \/ j.args[1] = None THEN {}
                         ELSE get_non_recursive_ids(prog, j.args[1])
                                \cap {x[1] : x \in {x \in e.freed : ~SameCall(x[1], x[2])}}
      BY <1>9 DEF UsedFreed
    <3> HIDE DEF j
    <3> QED BY <3>1
  <2>2. id \in DOMAIN t.dangling /\ prog.ids[id].unique
    <3>1. PICK x \in e.freed : x[1] = id /\ ~SameCall(x[1], x[2])
      BY <2>1
    <3>2. id \in DOMAIN s.dangling
      BY <1>6, <3>1 DEF IsRecorded, SameCall
    <3> QED BY <1>3, <1>6, <3>1, <3>2 DEF Grows
  <2> DEFINE flow == update_call_stub(prog, t, j, tid)
  <2>3. Spotted(t, id, flow.warnings) /\ Grows(t, flow.value)
    <3>1. /\ Accounted(t, flow.value, flow.warnings)
          /\ frees /\ j.args # <<>> /\ j.args[1] # None =>
               \A x \in get_non_recursive_ids(prog, j.args[1]) :
                 prog.ids[x].unique => /\ IsRecorded(prog, flow.value, x, tid)
                                       /\ x \in DOMAIN t.dangling => Spotted(t, x, flow.warnings)
      BY <1>1, <1>2, <1>3, <1>9, StubIs
    <3> HIDE DEF flow, frees
    <3> QED BY <1>9, <2>1, <2>2, <3>1 DEF Accounted
  <2>4. flow.warnings \subseteq raw
    BY <1>1, <1>9, <2>3, StubSent DEF t, s
  <2> QED BY <1>1, <2>3, <2>4, SpottedIsBlamed DEF s, t
<1>10. CASE AtEnd(e) /\ ~frees
  <2>1. j.kind \in {"Call", "CallInd", "ExternCall"} /\ id \in ArgIds(j.args) \cap FreedIds(e.freed)
    BY <1>10 DEF UsedFreed
  <2>2. id \in ArgIds(j.args) \cap Known(t)
    BY <1>4, <1>7, <2>1
  <2>3. CASE j.kind = "Call"
    <3> DEFINE flow == UseWarning(tid, collect_cwe_warnings_of_call_params(t, j.args))
    <3>1. Spotted(t, id, flow.warnings)
      <4>1. IsListed(prog.ids) /\ IsListed(j.args)
        BY <1>1, <1>2, <2>1, BlockKnown
      <4> QED BY <1>3, <2>2, <4>1, ArgsAre
    <3>2. flow.warnings \subseteq raw
      BY <1>1, <2>3, CallSent DEF s, t
    <3> QED BY <1>1, <3>1, <3>2, SpottedIsBlamed DEF s, t
  <2>4. CASE j.kind # "Call"
    <3> DEFINE flow == update_call_stub(prog, t, j, tid)
    <3>1. Accounted(t, flow.value, flow.warnings) /\ Spotted(t, id, flow.warnings)
      BY <1>1, <1>2, <1>3, <1>10, <2>1, <2>2, <2>4, StubIs
    <3>2. flow.warnings \subseteq raw
      BY <1>1, <2>1, <2>4, StubSent DEF s, t
    <3> QED BY <1>1, <3>1, <3>2, SpottedIsBlamed DEF s, t
  <2> QED BY <2>3, <2>4
<1> QED BY <1>8, <1>9, <1>10

\* A freed object is used by no execution without a warning: if an execution of
\* a function, up to the first CallOther, uses or frees again an object that was
\* freed since it started, then a warning of checkers/cwe_416 names the object or
\* the object of a callee that it is, for every program and every order of the
\* fixpoint computation.
THEOREM FreedUses == Spec => []FreedUsesAreFound
<1>1. Init => SoundInv
  BY FS_EmptySet DEF Init, SoundInv, UafInv, Finites
<1>2. SoundInv /\ [Next]_vars => SoundInv'
  BY SoundInvInductive
<1>3. SoundInv => FreedUsesAreFound
  <2> SUFFICES ASSUME SoundInv, Converged,
                      NEW e \in Executions, NEW id \in UsedFreed(e)
               PROVE  <<Here(e).sub, id>> \in Blamed
    BY DEF FreedUsesAreFound
  <2>1. Settled
    BY DEF SoundInv, UafInv, Converged, Settled
  <2>2. e \in Described
    BY <2>1, ExecutionsDescribed
  <2> QED BY <2>1, <2>2, UsesAreBlamed
<1> QED BY <1>1, <1>2, <1>3, PTL DEF Spec
-----------------------------------------------------------------------------
(* Call graphs *)

IsChain(c, f) == c[1][1] = f /\ \A j \in 1..(Len(c) - 1) : c[j + 1][1] = c[j][3]

\* A call of the last function makes a chain longer.
LEMMA ChainGrows ==
  ASSUME NEW calls, NEW f, NEW c \in Seq(calls), Len(c) >= 1, IsChain(c, f),
         NEW e \in calls, e[1] = Last(c)[3]
  PROVE  IsChain(Append(c, e), f)
<1> DEFINE d == Append(c, e)
<1>1. /\ Len(c) \in Nat /\ Len(d) = Len(c) + 1 /\ d[Len(c) + 1] = e
      /\ \A j \in 1..Len(c) : d[j] = c[j]
  OBVIOUS
<1> HIDE DEF d
<1>2. d[1][1] = f
  BY <1>1 DEF IsChain
<1>3. ASSUME NEW j \in 1..(Len(d) - 1) PROVE d[j + 1][1] = d[j][3]
  <2>1. CASE j = Len(c)
    BY <1>1, <2>1 DEF Last
  <2>2. CASE j # Len(c)
    <3>1. j \in 1..(Len(c) - 1) /\ j \in 1..Len(c) /\ j + 1 \in 1..Len(c)
      BY <1>1, <2>2
    <3> QED BY <1>1, <3>1 DEF IsChain
  <2> QED BY <2>1, <2>2
<1> QED BY <1>2, <1>3 DEF IsChain, d

\* A chain of several calls is one call longer than a chain.
LEMMA ChainShrinks ==
  ASSUME NEW calls, NEW f, NEW i \in Nat, NEW d \in Seq(calls), Len(d) = i + 2, IsChain(d, f)
  PROVE  \E c \in Seq(calls) : \E e \in calls :
           Len(c) = i + 1 /\ IsChain(c, f) /\ e[1] = Last(c)[3] /\ d = Append(c, e)
<1> DEFINE c == SubSeq(d, 1, i + 1)
           e == d[i + 2]
<1>1. /\ c \in Seq(calls) /\ Len(c) = i + 1 /\ \A j \in 1..(i + 1) : c[j] = d[j]
      /\ e \in calls
  OBVIOUS
<1>2. d = Append(c, e)
  OBVIOUS
<1> HIDE DEF c
<1>3. IsChain(c, f)
  BY <1>1 DEF IsChain
<1>4. e[1] = Last(c)[3]
  <2>1. i + 1 \in 1..(Len(d) - 1) /\ (i + 1) + 1 = i + 2
    OBVIOUS
  <2> QED BY <1>1, <2>1 DEF IsChain, Last
<1> HIDE DEF e
<1> QED BY <1>1, <1>2, <1>3, <1>4

\* CallChains has the chains of up to k + 1 calls.
LEMMA ChainsAre ==
  ASSUME NEW f, NEW calls, NEW k \in Nat
  PROVE  \A c : c \in CallChains(f, calls, k) <=>
                  c \in Seq(calls) /\ Len(c) \in 1..(k + 1) /\ IsChain(c, f)
<1> DEFINE X == SUBSET Seq(calls)
           first == {<<e>> : e \in {e \in calls : e[1] = f}}
           Next1(C) == UNION {{Append(c, e) : e \in {e \in calls : e[1] = Last(c)[3]}} : c \in C}
           F == [x \in (1..k) \X X |-> Next1(x[2])]
           Is(r) == r = [i \in 0..k |-> IF i = 0 THEN first ELSE Next1(r[i - 1])]
           s == CHOOSE r : Is(r)
<1>1. F \in [(1..k) \X X -> X]
  <2> SUFFICES ASSUME NEW C \in X PROVE Next1(C) \in X
    OBVIOUS
  <2>1. \A c \in C, e \in calls : Append(c, e) \in Seq(calls)
    OBVIOUS
  <2> QED BY <2>1
<1>2. first \in X
  <2>1. \A e \in calls : <<e>> \in Seq(calls)
    OBVIOUS
  <2> QED BY <2>1
<1>3. PICK r : Iterates(r, k, X, first, F)
  <2> HIDE DEF X, first, F
  <2> QED BY <1>1, <1>2, Iteration
<1>4. r \in [0..k -> X] /\ r[0] = first /\ \A i \in 1..k : r[i] = Next1(r[i - 1])
  <2>1. r \in [0..k -> X] /\ r[0] = first /\ \A i \in 1..k : r[i] = F[<<i, r[i - 1]>>]
    <3> HIDE DEF X, first, F
    <3> QED BY <1>3 DEF Iterates
  <2>2. ASSUME NEW i \in 1..k PROVE r[i] = Next1(r[i - 1])
    <3>1. r[i - 1] \in X
      <4> HIDE DEF X, first, F
      <4> QED BY <2>1
    <3>2. <<i, r[i - 1]>> \in (1..k) \X X
      <4> HIDE DEF X, first
      <4> QED BY <3>1
    <3> HIDE DEF Next1, X, first
    <3> QED BY <2>1, <3>2
  <2> HIDE DEF X, first, F, Next1
  <2> QED BY <2>1, <2>2
<1>5. Is(r)
  <2> HIDE DEF X, first, F, Next1
  <2> QED BY <1>4
<1>6. Is(s)
  <2> HIDE DEF Is
  <2> QED BY <1>5
<1>7. CallChains(f, calls, k) = UNION {s[i] : i \in 0..k}
  BY DEF CallChains
<1> HIDE DEF s
<1>8. s[0] = first /\ \A i \in 1..k : s[i] = Next1(s[i - 1])
  <2> HIDE DEF first, Next1
  <2> QED BY <1>6
<1> DEFINE T == {i \in Nat : i <= k => \A c : c \in s[i] <=> c \in Seq(calls) /\ Len(c) = i + 1 /\ IsChain(c, f)}
<1> HIDE DEF Is, X, F
<1>9. 0 \in T
  <2> SUFFICES ASSUME NEW c PROVE c \in first <=> c \in Seq(calls) /\ Len(c) = 1 /\ IsChain(c, f)
    BY <1>8
  <2>1. ASSUME c \in first PROVE c \in Seq(calls) /\ Len(c) = 1 /\ IsChain(c, f)
    <3>1. PICK e \in calls : e[1] = f /\ c = <<e>>
      BY <2>1
    <3>2. c \in Seq(calls) /\ Len(c) = 1 /\ c[1] = e
      BY <3>1
    <3> HIDE DEF first
    <3>3. 1..(Len(c) - 1) = {}
      BY <3>2
    <3> QED BY <3>1, <3>2, <3>3 DEF IsChain
  <2>2. ASSUME c \in Seq(calls), Len(c) = 1, IsChain(c, f) PROVE c \in first
    <3>1. c = <<c[1]>> /\ c[1] \in calls /\ c[1][1] = f
      BY <2>2 DEF IsChain
    <3> QED BY <3>1
  <2> QED BY <2>1, <2>2
<1> HIDE DEF first
<1>10. \A i \in Nat : i \in T => i + 1 \in T
  <2> SUFFICES ASSUME NEW i \in Nat, i \in T, i + 1 <= k, NEW d
               PROVE  d \in s[i + 1] <=> d \in Seq(calls) /\ Len(d) = i + 2 /\ IsChain(d, f)
    OBVIOUS
  <2>1. \A c : c \in s[i] <=> c \in Seq(calls) /\ Len(c) = i + 1 /\ IsChain(c, f)
    OBVIOUS
  <2>2. d \in s[i + 1] <=> \E c \in s[i] : \E e \in calls : e[1] = Last(c)[3] /\ d = Append(c, e)
    BY <1>8
  <2> HIDE DEF T, Next1
  <2>3. ASSUME d \in s[i + 1] PROVE d \in Seq(calls) /\ Len(d) = i + 2 /\ IsChain(d, f)
    <3>1. PICK c \in s[i], e \in calls : e[1] = Last(c)[3] /\ d = Append(c, e)
      BY <2>2, <2>3
    <3>2. c \in Seq(calls) /\ Len(c) = i + 1 /\ IsChain(c, f)
      BY <2>1
    <3>3. d \in Seq(calls) /\ Len(d) = i + 2
      BY <3>1, <3>2
    <3> QED BY <3>1, <3>2, <3>3, ChainGrows
  <2>4. ASSUME d \in Seq(calls), Len(d) = i + 2, IsChain(d, f) PROVE d \in s[i + 1]
    BY <2>1, <2>2, <2>4, ChainShrinks
  <2> QED BY <2>3, <2>4
<1>11. \A i \in Nat : i \in T
  <2> HIDE DEF T
  <2> QED BY <1>9, <1>10, Induction
<1>12. \A i \in 0..k : \A c : c \in s[i] <=> c \in Seq(calls) /\ Len(c) = i + 1 /\ IsChain(c, f)
  BY <1>11
<1> HIDE DEF T, Next1
<1>13. ASSUME NEW c, c \in Seq(calls), Len(c) \in 1..(k + 1), IsChain(c, f)
       PROVE  \E i \in 0..k : c \in s[i]
  <2>1. Len(c) - 1 \in 0..k /\ (Len(c) - 1) + 1 = Len(c)
    BY <1>13
  <2> QED BY <1>12, <1>13, <2>1
<1>14. ASSUME NEW c, NEW i \in 0..k, c \in s[i] PROVE c \in Seq(calls) /\ Len(c) \in 1..(k + 1) /\ IsChain(c, f)
  BY <1>12, <1>14
<1> QED BY <1>7, <1>13, <1>14

\* A normalised program has finitely many calls, of its functions, and an
\* address names one of them.
LEMMA CallsAre ==
  ASSUME NEW p, IsNormal(p)
  PROVE  LET calls == get_program_callgraph(p)
         IN  /\ IsFiniteSet(calls)
             /\ \A e \in calls : e[3] \in DOMAIN p.entry
             /\ \A e, d \in calls : e[2] = d[2] => e = d
<1> DEFINE B == DOMAIN p.blks
           call(b) == <<p.blks[b].sub, JmpTid(p, b, 1), p.blks[b].jmps[1].target>>
           All == {call(b) : b \in B}
           calls == get_program_callgraph(p)
<1>1. IsFiniteSet(B)
  BY DEF IsNormal
<1>2. \A e \in calls : \E b \in B : e = call(b) /\ p.blks[b].jmps[1].target \in DOMAIN p.entry
  <2> SUFFICES ASSUME NEW e \in calls
               PROVE  \E b \in B : e = call(b) /\ p.blks[b].jmps[1].target \in DOMAIN p.entry
    OBVIOUS
  <2>0. PICK b \in B : \E k \in DOMAIN p.blks[b].jmps :
          /\ p.blks[b].jmps[k].kind = "Call"
          /\ e = <<p.blks[b].sub, JmpTid(p, b, k), p.blks[b].jmps[k].target>>
    BY DEF get_program_callgraph
  <2>1. PICK k \in DOMAIN p.blks[b].jmps :
          /\ p.blks[b].jmps[k].kind = "Call"
          /\ e = <<p.blks[b].sub, JmpTid(p, b, k), p.blks[b].jmps[k].target>>
    BY <2>0
  <2>2. BlockIsNormal(p, b)
    BY DEF IsNormal
  <2>3. p.blks[b].jmps[k].target \in DOMAIN p.entry
    BY <2>1, <2>2 DEF BlockIsNormal
  <2>4. k = 1
    <3>1. \/ DOMAIN p.blks[b].jmps = {1}
          \/ /\ DOMAIN p.blks[b].jmps = {1, 2} /\ p.blks[b].jmps[1].kind = "CBranch"
             /\ p.blks[b].jmps[2].kind = "Branch"
      BY <2>2 DEF BlockIsNormal
    <3> QED BY <2>1, <3>1
  <2> QED BY <2>1, <2>3, <2>4
<1>3. IsFiniteSet(All)
  <2>1. [b \in B |-> call(b)] \in [B -> All] /\ All = {[b \in B |-> call(b)][x] : x \in B}
    OBVIOUS
  <2> HIDE DEF B, call, All
  <2> QED BY <1>1, <2>1, ImageFinite
<1>4. calls \subseteq All
  BY <1>2
<1>5. IsFiniteSet(calls)
  <2> HIDE DEF All, calls
  <2> QED BY <1>3, <1>4, FS_Subset
<1>6. \A e \in calls : e[3] \in DOMAIN p.entry
  <2> HIDE DEF calls, B
  <2> QED BY <1>2
<1>7. ASSUME NEW e \in calls, NEW d \in calls, e[2] = d[2] PROVE e = d
  <2>1. PICK b \in B : e = call(b)
    BY <1>2
  <2>2. PICK c \in B : d = call(c)
    BY <1>2
  <2>3. JmpTid(p, b, 1) = JmpTid(p, c, 1)
    BY <1>7, <2>1, <2>2
  <2>4. b = c
    BY <2>3 DEF IsNormal
  <2> QED BY <2>1, <2>2, <2>4
<1> QED BY <1>5, <1>6, <1>7

\* There are finitely many functions, since each has a first block of its own.
LEMMA FunctionsFinite ==
  ASSUME NEW p, IsNormal(p)
  PROVE  IsFiniteSet(DOMAIN p.entry) /\ Cardinality(DOMAIN p.entry) \in Nat
<1> DEFINE F == DOMAIN p.entry
           B == DOMAIN p.blks
           g == [f \in F |-> p.entry[f]]
<1>1. IsFiniteSet(B) /\ \A f \in F : p.entry[f] \in B /\ p.blks[p.entry[f]].sub = f
  BY DEF IsNormal, BlocksOf
<1>2. g \in [F -> B] /\ \A f, h \in F : g[f] = g[h] => f = h
  BY <1>1
<1> HIDE DEF F, B, g
<1>3. g \in Injection(F, B)
  BY <1>2 DEF Injection, IsInjective
<1>4. IsFiniteSet(F)
  BY <1>1, <1>3, FS_Injection
<1> QED BY <1>4, FS_CardinalityType DEF F

\* A path without repetition in a finite set is no longer than the set is big.
LEMMA SimpleInside ==
  ASSUME NEW S, IsFiniteSet(S), NEW a, NEW edges, NEW q, IsSimple(q, a, edges),
         \A i \in 1..Len(q) : q[i] \in S
  PROVE  Len(q) <= Cardinality(S)
<1> DEFINE D == 1..Len(q)
           g == [i \in D |-> q[i]]
<1>1. Len(q) \in Nat /\ Len(q) >= 1
  BY DEF IsSimple
<1>2. g \in Injection(D, S)
  BY DEF IsSimple, Injection, IsInjective
<1>3. Cardinality(D) <= Cardinality(S)
  <2> HIDE DEF D, g
  <2> QED BY <1>2, FS_Injection
<1>4. Cardinality(D) = Len(q)
  BY <1>1, FS_Interval
<1> QED BY <1>3, <1>4

\* What a search reaches, a path without repetition leads to.
LEMMA SearchPaths ==
  ASSUME NEW a, NEW edges, IsFiniteSet(edges), NEW n \in Reach({a}, edges)
  PROVE  \E q : IsSimple(q, a, edges) /\ q[Len(q)] = n
<1> DEFINE S == {Last(q) : q \in PathsFrom(a, edges)}
<1>1. {a} \subseteq S
  BY PathStart
<1>2. Closed(S, edges)
  BY StepOn DEF Closed
<1>3. PICK q \in PathsFrom(a, edges) : Last(q) = n
  <2>1. Reach({a}, edges) \subseteq S
    <3> HIDE DEF S
    <3> QED BY <1>1, <1>2, ReachLeast
  <2> QED BY <2>1
<1> QED BY <1>3, PathsFromAre DEF Last

\* A call in a function that the search from f reaches is the last one of a
\* chain from f that visits no function twice before it.
LEMMA ChainTo ==
  ASSUME NEW F, IsFiniteSet(F), NEW calls, IsFiniteSet(calls), \A e \in calls : e[3] \in F,
         NEW f \in F, NEW x \in calls, x[1] \in Reach({f}, calls)
  PROVE  \E c \in Seq(calls) : Len(c) \in 1..Cardinality(F) /\ IsChain(c, f) /\ c[Len(c)] = x
<1>1. PICK q : IsSimple(q, f, calls) /\ q[Len(q)] = x[1]
  <2> DEFINE n == x[1]
  <2>1. n \in Reach({f}, calls)
    OBVIOUS
  <2> HIDE DEF n
  <2>2. \E q : IsSimple(q, f, calls) /\ q[Len(q)] = n
    BY <2>1, SearchPaths
  <2> QED BY <2>2 DEF n
<1>2. /\ Len(q) \in Nat /\ Len(q) >= 1 /\ q[1] = f /\ q \in Seq(NodesFrom(f, calls))
      /\ \A i \in 1..(Len(q) - 1) : \E e \in calls : e[1] = q[i] /\ e[3] = q[i + 1]
  BY <1>1 DEF IsSimple
<1>3. \A i \in 1..Len(q) : q[i] \in F
  <2>1. NodesFrom(f, calls) \subseteq F
    BY DEF NodesFrom
  <2> QED BY <1>2, <2>1
<1>4. Len(q) <= Cardinality(F)
  BY <1>1, <1>3, SimpleInside
<1> DEFINE n == Len(q)
           c == [i \in 1..n |-> IF i = n THEN x ELSE CHOOSE e \in calls : e[1] = q[i] /\ e[3] = q[i + 1]]
<1>5. c[n] = x
  BY <1>2
<1>6. \A i \in 1..n : i # n => c[i] \in calls /\ c[i][1] = q[i] /\ c[i][3] = q[i + 1]
  <2> SUFFICES ASSUME NEW i \in 1..n, i # n
               PROVE  c[i] \in calls /\ c[i][1] = q[i] /\ c[i][3] = q[i + 1]
    OBVIOUS
  <2>1. i \in 1..(n - 1)
    BY <1>2
  <2>2. c[i] = CHOOSE e \in calls : e[1] = q[i] /\ e[3] = q[i + 1]
    OBVIOUS
  <2>3. \E e \in calls : e[1] = q[i] /\ e[3] = q[i + 1]
    BY <1>2, <2>1
  <2> HIDE DEF c
  <2> QED BY <2>2, <2>3
<1>7. DOMAIN c = 1..n /\ c = [i \in 1..n |-> c[i]]
  OBVIOUS
<1> HIDE DEF c
<1>8. \A i \in 1..n : c[i] \in calls /\ c[i][1] = q[i]
  BY <1>1, <1>5, <1>6
<1>9. c \in Seq(calls) /\ Len(c) = n
  <2>1. c \in [1..n -> calls]
    BY <1>7, <1>8
  <2> QED BY <1>2, <2>1
<1>10. IsChain(c, f)
  <2>1. c[1][1] = f
    BY <1>2, <1>8
  <2>2. ASSUME NEW j \in 1..(n - 1) PROVE c[j + 1][1] = c[j][3]
    <3>1. j \in 1..n /\ j # n /\ j + 1 \in 1..n
      BY <1>2
    <3> QED BY <1>6, <1>8, <3>1
  <2> QED BY <1>9, <2>1, <2>2 DEF IsChain
<1>11. n \in 1..Cardinality(F)
  <2>1. Cardinality(F) \in Nat
    BY FS_CardinalityType
  <2> QED BY <1>2, <1>4, <2>1
<1> QED BY <1>5, <1>9, <1>10, <1>11

\* A call of a function that the backward search from g reaches is the first
\* one of a chain to g that visits no function twice after it.
LEMMA ChainFrom ==
  ASSUME NEW F, IsFiniteSet(F), NEW calls, IsFiniteSet(calls), \A e \in calls : e[3] \in F,
         NEW g \in F, NEW x \in calls, x[3] \in Reach({g}, Reversed(calls))
  PROVE  \E c \in Seq(calls) : /\ Len(c) \in 1..Cardinality(F) /\ IsChain(c, x[1])
                               /\ c[1] = x /\ c[Len(c)][3] = g
<1> DEFINE back == Reversed(calls)
<1>1. PICK q : IsSimple(q, g, back) /\ q[Len(q)] = x[3]
  <2>1. IsFiniteSet(back)
    BY ReversedFinite
  <2> DEFINE n == x[3]
  <2>2. n \in Reach({g}, back)
    OBVIOUS
  <2> HIDE DEF back, n
  <2>3. \E q : IsSimple(q, g, back) /\ q[Len(q)] = n
    BY <2>1, <2>2, SearchPaths
  <2> QED BY <2>3 DEF n
<1>2. Len(q) \in Nat /\ Len(q) >= 1 /\ q[1] = g
  BY <1>1 DEF IsSimple
<1>3. ASSUME NEW i \in 1..(Len(q) - 1)
      PROVE  \E e \in calls : e[3] = q[i] /\ e[1] = q[i + 1]
  <2>1. PICK d \in back : d[1] = q[i] /\ d[3] = q[i + 1]
    BY <1>1 DEF IsSimple
  <2>2. PICK e \in calls : d = <<e[3], e[2], e[1]>>
    BY DEF Reversed
  <2> QED BY <2>1, <2>2
<1>4. \A i \in 1..Len(q) : q[i] \in F
  <2> SUFFICES ASSUME NEW i \in 1..Len(q) PROVE q[i] \in F
    OBVIOUS
  <2>1. CASE i = Len(q)
    BY <1>1, <2>1
  <2>2. CASE i # Len(q)
    <3>1. i \in 1..(Len(q) - 1)
      BY <1>2, <2>2
    <3> QED BY <1>3, <3>1
  <2> QED BY <2>1, <2>2
<1>5. Len(q) <= Cardinality(F)
  BY <1>1, <1>4, SimpleInside
<1> HIDE DEF back
<1> DEFINE n == Len(q)
           At(i) == (n + 1) - i
           c == [i \in 1..n |-> IF i = 1 THEN x ELSE CHOOSE e \in calls : e[3] = q[At(i)] /\ e[1] = q[At(i) + 1]]
<1>6. c[1] = x /\ At(1) = n /\ At(n) = 1
  BY <1>2
<1>7. \A i \in 1..n : i # 1 => c[i] \in calls /\ c[i][3] = q[At(i)] /\ c[i][1] = q[At(i) + 1]
  <2> SUFFICES ASSUME NEW i \in 1..n, i # 1
               PROVE  c[i] \in calls /\ c[i][3] = q[At(i)] /\ c[i][1] = q[At(i) + 1]
    OBVIOUS
  <2>1. At(i) \in 1..(n - 1)
    BY <1>2
  <2>2. c[i] = CHOOSE e \in calls : e[3] = q[At(i)] /\ e[1] = q[At(i) + 1]
    OBVIOUS
  <2> HIDE DEF c, At
  <2>3. \E e \in calls : e[3] = q[At(i)] /\ e[1] = q[At(i) + 1]
    BY <1>3, <2>1
  <2> QED BY <2>2, <2>3
<1>8. DOMAIN c = 1..n /\ c = [i \in 1..n |-> c[i]]
  OBVIOUS
<1> HIDE DEF c
<1>9. \A i \in 1..n : c[i] \in calls /\ c[i][3] = q[At(i)]
  <2> HIDE DEF At
  <2> QED BY <1>1, <1>6, <1>7
<1>10. c \in Seq(calls) /\ Len(c) = n
  <2>1. c \in [1..n -> calls]
    BY <1>8, <1>9
  <2> QED BY <1>2, <2>1
<1>11. IsChain(c, x[1])
  <2>1. ASSUME NEW j \in 1..(n - 1) PROVE c[j + 1][1] = c[j][3]
    <3>1. j \in 1..n /\ j + 1 \in 1..n /\ j + 1 # 1 /\ At(j + 1) + 1 = At(j)
      BY <1>2
    <3> HIDE DEF At
    <3> QED BY <1>7, <1>9, <3>1
  <2> QED BY <1>6, <1>10, <2>1 DEF IsChain
<1>12. c[n][3] = g
  <2>1. n \in 1..n
    BY <1>2
  <2> QED BY <1>2, <1>6, <1>9, <2>1
<1>13. n \in 1..Cardinality(F)
  <2>1. Cardinality(F) \in Nat
    BY FS_CardinalityType
  <2> QED BY <1>2, <1>5, <2>1
<1> QED BY <1>6, <1>10, <1>11, <1>12, <1>13

\* Chains that end and begin with the same call are parts of one chain.
LEMMA ChainsJoin ==
  ASSUME NEW calls, NEW f, NEW c \in Seq(calls), NEW d \in Seq(calls), Len(c) >= 1, Len(d) >= 1,
         IsChain(c, f), IsChain(d, d[1][1]), c[Len(c)] = d[1]
  PROVE  \E w \in Seq(calls) : /\ Len(w) = Len(c) + Len(d) - 1 /\ IsChain(w, f)
                               /\ w[Len(c)] = d[1] /\ w[Len(w)] = d[Len(d)]
<1> DEFINE m == Len(c)
           n == Len(d)
           w == [i \in 1..(m + n - 1) |-> IF i <= m THEN c[i] ELSE d[i - m + 1]]
<1>1. m \in Nat /\ n \in Nat /\ m >= 1 /\ n >= 1
  OBVIOUS
<1>2. \A i \in 1..m : c[i] \in calls
  OBVIOUS
<1>3. \A i \in 1..n : d[i] \in calls
  OBVIOUS
<1>4. /\ \A j \in 1..(m - 1) : c[j + 1][1] = c[j][3]
      /\ \A j \in 1..(n - 1) : d[j + 1][1] = d[j][3]
      /\ c[1][1] = f /\ c[m] = d[1]
  BY DEF IsChain
<1> HIDE DEF m, n
<1>5. ASSUME NEW i \in 1..m PROVE w[i] = c[i]
  BY <1>1
<1>6. ASSUME NEW i \in m..(m + n - 1) PROVE w[i] = d[i - m + 1]
  <2>1. CASE i = m
    <3>1. w[i] = c[m]
      BY <1>1, <2>1
    <3>2. i - m + 1 = 1
      BY <1>1, <2>1
    <3> HIDE DEF w
    <3> QED BY <1>4, <3>1, <3>2
  <2>2. CASE i # m
    BY <1>1, <2>2
  <2> QED BY <2>1, <2>2
<1>7. DOMAIN w = 1..(m + n - 1) /\ w = [i \in 1..(m + n - 1) |-> w[i]]
  OBVIOUS
<1> HIDE DEF w
<1>8. \A i \in 1..(m + n - 1) : w[i] \in calls
  <2> SUFFICES ASSUME NEW i \in 1..(m + n - 1) PROVE w[i] \in calls
    OBVIOUS
  <2>1. CASE i <= m
    BY <1>1, <1>2, <1>5, <2>1
  <2>2. CASE i > m
    <3>1. i \in m..(m + n - 1) /\ i - m + 1 \in 1..n
      BY <1>1, <2>2
    <3> QED BY <1>3, <1>6, <3>1
  <2> QED BY <1>1, <2>1, <2>2
<1>9. w \in Seq(calls) /\ Len(w) = m + n - 1
  <2>1. w \in [1..(m + n - 1) -> calls] /\ m + n - 1 \in Nat
    BY <1>1, <1>7, <1>8
  <2> QED BY <2>1
<1>10. IsChain(w, f)
  <2>1. w[1][1] = f
    BY <1>1, <1>4, <1>5
  <2>2. ASSUME NEW j \in 1..(m + n - 2) PROVE w[j + 1][1] = w[j][3]
    <3>1. CASE j < m
      <4>1. j \in 1..m /\ j + 1 \in 1..m /\ j \in 1..(m - 1)
        BY <1>1, <3>1
      <4> QED BY <1>4, <1>5, <4>1
    <3>2. CASE j >= m
      <4>1. /\ j \in m..(m + n - 1) /\ j + 1 \in m..(m + n - 1) /\ j - m + 1 \in 1..(n - 1)
            /\ (j + 1) - m + 1 = (j - m + 1) + 1
        BY <1>1, <3>2
      <4>2. w[j] = d[j - m + 1] /\ w[j + 1] = d[(j - m + 1) + 1]
        BY <1>6, <4>1
      <4> QED BY <1>4, <4>1, <4>2
    <3> QED BY <1>1, <3>1, <3>2
  <2>3. Len(w) - 1 = m + n - 2
    BY <1>1, <1>9
  <2> QED BY <2>1, <2>2, <2>3 DEF IsChain
<1>11. w[m] = d[1] /\ w[m + n - 1] = d[n]
  <2>1. m \in m..(m + n - 1) /\ m + n - 1 \in m..(m + n - 1) /\ m - m + 1 = 1 /\ (m + n - 1) - m + 1 = n
    BY <1>1
  <2>2. w[m] = d[m - m + 1] /\ w[m + n - 1] = d[(m + n - 1) - m + 1]
    BY <1>6, <2>1
  <2> QED BY <2>1, <2>2
<1> QED BY <1>9, <1>10, <1>11 DEF m, n

\* Every call of a chain from f to g is reached from f, and g from it.
LEMMA ChainIsBetween ==
  ASSUME NEW calls, IsFiniteSet(calls), NEW f, NEW g, NEW c \in Seq(calls), Len(c) >= 1,
         IsChain(c, f), c[Len(c)][3] = g
  PROVE  \A i \in 1..Len(c) : c[i][1] \in Reach({f}, calls) /\ c[i][3] \in Reach({g}, Reversed(calls))
<1> DEFINE n == Len(c)
           from == Reach({f}, calls)
           to == Reach({g}, Reversed(calls))
<1>1. n \in Nat /\ n >= 1 /\ \A i \in 1..n : c[i] \in calls
  OBVIOUS
<1>2. c[1][1] = f /\ c[n][3] = g /\ \A j \in 1..(n - 1) : c[j + 1][1] = c[j][3]
  BY DEF IsChain
<1>3. f \in from /\ \A e \in calls : e[1] \in from => e[3] \in from
  BY ReachClosed DEF Closed
<1>4. g \in to /\ \A e \in calls : e[3] \in to => e[1] \in to
  <2>1. IsFiniteSet(Reversed(calls))
    BY ReversedFinite
  <2>2. g \in to /\ \A d \in Reversed(calls) : d[1] \in to => d[3] \in to
    BY <2>1, ReachClosed DEF Closed
  <2>3. ASSUME NEW e \in calls PROVE \E d \in Reversed(calls) : d[1] = e[3] /\ d[3] = e[1]
    <3>1. <<e[3], e[2], e[1]>> \in Reversed(calls)
      BY DEF Reversed
    <3> QED BY <3>1
  <2> HIDE DEF to
  <2> QED BY <2>2, <2>3
<1> HIDE DEF n, from, to
<1> DEFINE S == {i \in Nat : i + 1 <= n => c[i + 1][1] \in from}
           T == {i \in Nat : i + 1 <= n => c[n - i][3] \in to}
<1>5. \A i \in Nat : i \in S
  <2>1. 0 \in S
    BY <1>2, <1>3
  <2>2. ASSUME NEW i \in Nat, i \in S PROVE i + 1 \in S
    <3> SUFFICES ASSUME (i + 1) + 1 <= n PROVE c[(i + 1) + 1][1] \in from
      OBVIOUS
    <3>1. i + 1 \in 1..(n - 1) /\ i + 1 \in 1..n /\ i + 1 <= n
      BY <1>1
    <3>2. c[i + 1][1] \in from
      BY <2>2, <3>1
    <3> QED BY <1>1, <1>2, <1>3, <3>1, <3>2
  <2> HIDE DEF S
  <2> QED BY <2>1, <2>2, Induction
<1>6. \A i \in Nat : i \in T
  <2>1. 0 \in T
    BY <1>1, <1>2, <1>4
  <2>2. ASSUME NEW i \in Nat, i \in T PROVE i + 1 \in T
    <3> SUFFICES ASSUME (i + 1) + 1 <= n PROVE c[n - (i + 1)][3] \in to
      OBVIOUS
    <3>1. n - (i + 1) \in 1..(n - 1) /\ n - i \in 1..n /\ i + 1 <= n /\ (n - (i + 1)) + 1 = n - i
      BY <1>1
    <3>2. c[n - i][3] \in to
      BY <2>2, <3>1
    <3>3. c[n - i][1] = c[n - (i + 1)][3]
      BY <1>2, <3>1
    <3> QED BY <1>1, <1>4, <3>1, <3>2, <3>3
  <2> HIDE DEF T
  <2> QED BY <2>1, <2>2, Induction
<1>7. ASSUME NEW i \in 1..n PROVE c[i][1] \in from /\ c[i][3] \in to
  <2>1. i - 1 \in Nat /\ (i - 1) + 1 <= n /\ (i - 1) + 1 = i
    BY <1>1
  <2>2. n - i \in Nat /\ (n - i) + 1 <= n /\ n - (n - i) = i
    BY <1>1
  <2>3. c[(i - 1) + 1][1] \in from /\ c[n - (n - i)][3] \in to
    BY <1>5, <1>6, <2>1, <2>2
  <2> QED BY <2>1, <2>2, <2>3
<1> QED BY <1>7 DEF n, from, to

\* A call lies on a chain from f to g if its function is reached from f and g
\* from the function it calls, and only then.
LEMMA CallsOnChains ==
  ASSUME NEW F, IsFiniteSet(F), NEW calls, IsFiniteSet(calls), \A e \in calls : e[3] \in F,
         NEW f \in F, NEW g \in F, NEW x
  PROVE  (\E c \in CallChains(f, calls, 2 * Cardinality(F)) : Last(c)[3] = g /\ x \in Range(c))
           <=> x \in calls /\ x[1] \in Reach({f}, calls) /\ x[3] \in Reach({g}, Reversed(calls))
<1> DEFINE k == 2 * Cardinality(F)
           from == Reach({f}, calls)
           to == Reach({g}, Reversed(calls))
<1>1. Cardinality(F) \in Nat /\ k \in Nat
  BY FS_CardinalityType
<1>2. ASSUME NEW c \in CallChains(f, calls, k), Last(c)[3] = g, x \in Range(c)
      PROVE  x \in calls /\ x[1] \in from /\ x[3] \in to
  <2>1. c \in Seq(calls) /\ Len(c) \in 1..(k + 1) /\ IsChain(c, f)
    <3> HIDE DEF k
    <3> QED BY <1>1, <1>2, ChainsAre
  <2>2. Len(c) >= 1 /\ c[Len(c)][3] = g
    BY <1>2, <2>1 DEF Last
  <2>3. PICK i \in 1..Len(c) : x = c[i]
    BY <1>2, <2>1 DEF Range
  <2>4. c[i][1] \in from /\ c[i][3] \in to
    BY <2>1, <2>2, ChainIsBetween
  <2> HIDE DEF from, to, k
  <2> QED BY <2>1, <2>3, <2>4
<1>3. ASSUME x \in calls, x[1] \in from, x[3] \in to
      PROVE  \E c \in CallChains(f, calls, k) : Last(c)[3] = g /\ x \in Range(c)
  <2>1. PICK c \in Seq(calls) : Len(c) \in 1..Cardinality(F) /\ IsChain(c, f) /\ c[Len(c)] = x
    BY <1>3, ChainTo
  <2>2. PICK d \in Seq(calls) : /\ Len(d) \in 1..Cardinality(F) /\ IsChain(d, x[1])
                                /\ d[1] = x /\ d[Len(d)][3] = g
    BY <1>3, ChainFrom
  <2> HIDE DEF from, to
  <2>3. /\ Len(c) \in Nat /\ Len(d) \in Nat /\ Len(c) >= 1 /\ Len(d) >= 1
        /\ Len(c) + Len(d) - 1 \in 1..(k + 1) /\ Len(c) \in 1..(Len(c) + Len(d) - 1)
    BY <1>1, <2>1, <2>2
  <2>4. PICK w \in Seq(calls) : /\ Len(w) = Len(c) + Len(d) - 1 /\ IsChain(w, f)
                                /\ w[Len(c)] = d[1] /\ w[Len(w)] = d[Len(d)]
    <3>1. IsChain(d, d[1][1]) /\ c[Len(c)] = d[1]
      BY <2>1, <2>2
    <3> HIDE DEF k
    <3> QED BY <2>1, <2>3, <3>1, ChainsJoin
  <2>5. w \in CallChains(f, calls, k)
    <3>1. Len(w) \in 1..(k + 1)
      BY <2>3, <2>4
    <3> HIDE DEF k
    <3> QED BY <1>1, <2>4, <3>1, ChainsAre
  <2>6. Last(w)[3] = g
    BY <2>2, <2>4 DEF Last
  <2>7. x \in Range(w)
    <3>1. Len(c) \in DOMAIN w /\ w[Len(c)] = x
      BY <2>2, <2>3, <2>4
    <3> QED BY <3>1 DEF Range
  <2> QED BY <2>5, <2>6, <2>7
<1> QED BY <1>2, <1>3

\* The calls that are found between two functions are those on the chains.
LEMMA CallSequencesAre ==
  ASSUME input \in Inputs
  PROVE  CallSequencesOnPaths
<1> DEFINE F == DOMAIN prog.entry
           calls == get_program_callgraph(prog)
           k == 2 * Cardinality(F)
<1>1. IsNormal(prog)
  BY ProgramsAreNormal DEF prog
<1>2. /\ IsFiniteSet(calls) /\ \A e \in calls : e[3] \in F
      /\ \A e, d \in calls : e[2] = d[2] => e = d
  BY <1>1, CallsAre
<1>3. IsFiniteSet(F)
  BY <1>1, FunctionsFinite
<1> SUFFICES ASSUME NEW f \in F, NEW g \in F
             PROVE  find_call_sequences_to_target(calls, f, g)
                      = {e[2] : e \in UNION {Range(c) : c \in {c \in CallChains(f, calls, k) : Last(c)[3] = g}}}
  BY DEF CallSequencesOnPaths
<1> DEFINE from == Reach({f}, calls)
           to == Reach({g}, Reversed(calls))
           between == {e \in calls : e[1] \in from /\ e[3] \in to}
           on == UNION {Range(c) : c \in {c \in CallChains(f, calls, k) : Last(c)[3] = g}}
<1>4. find_call_sequences_to_target(calls, f, g)
        = {e[2] : e \in {e \in calls : e[1] \in from}} \cap {e[2] : e \in {e \in calls : e[3] \in to}}
  BY DEF find_call_sequences_to_target
<1>5. \A x : x \in on <=> \E c \in CallChains(f, calls, k) : Last(c)[3] = g /\ x \in Range(c)
  OBVIOUS
<1>6. \A x : x \in on <=> x \in calls /\ x[1] \in from /\ x[3] \in to
  <2> HIDE DEF on, calls, F
  <2> QED BY <1>2, <1>3, <1>5, CallsOnChains
<1>7. on = between
  <2> HIDE DEF on, calls, from, to
  <2> QED BY <1>6
<1>8. {e[2] : e \in {e \in calls : e[1] \in from}} \cap {e[2] : e \in {e \in calls : e[3] \in to}}
        = {e[2] : e \in between}
  <2> HIDE DEF calls, from, to
  <2> QED BY <1>2
<1> HIDE DEF on, between, from, to
<1> QED BY <1>4, <1>7, <1>8 DEF on

Both(U) == U \cup Reversed(U)
Component(n, U) == Reach({n}, Both(U))
Components(V, U) == {Component(n, U) : n \in V}

\* A component is the least set with the node that no edge leaves or enters.
LEMMA ComponentIs ==
  ASSUME NEW U, IsFiniteSet(U), NEW n
  PROVE  /\ n \in Component(n, U)
         /\ \A e \in U : e[1] \in Component(n, U) <=> e[3] \in Component(n, U)
         /\ \A S : n \in S /\ (\A e \in U : e[1] \in S <=> e[3] \in S) => Component(n, U) \subseteq S
<1>1. IsFiniteSet(Both(U))
  <2>1. IsFiniteSet(Reversed(U))
    BY ReversedFinite
  <2> QED BY <2>1, FS_Union DEF Both
<1>2. {n} \subseteq Component(n, U) /\ Closed(Component(n, U), Both(U))
  BY <1>1, ReachClosed DEF Component
<1>3. ASSUME NEW e \in U
      PROVE  \E d \in Both(U) : d[1] = e[3] /\ d[3] = e[1]
  <2>1. <<e[3], e[2], e[1]>> \in Both(U)
    BY DEF Both, Reversed
  <2> QED BY <2>1
<1>4. \A e \in U : e[1] \in Component(n, U) <=> e[3] \in Component(n, U)
  <2> SUFFICES ASSUME NEW e \in U PROVE e[1] \in Component(n, U) <=> e[3] \in Component(n, U)
    OBVIOUS
  <2>1. e \in Both(U)
    BY DEF Both
  <2>2. PICK d \in Both(U) : d[1] = e[3] /\ d[3] = e[1]
    BY <1>3
  <2> QED BY <1>2, <2>1, <2>2 DEF Closed
<1>5. ASSUME NEW S, n \in S, \A e \in U : e[1] \in S <=> e[3] \in S PROVE Component(n, U) \subseteq S
  <2>1. Closed(S, Both(U))
    <3> SUFFICES ASSUME NEW d \in Both(U), d[1] \in S PROVE d[3] \in S
      BY DEF Closed
    <3>1. CASE d \in U
      BY <1>5, <3>1
    <3>2. CASE d \in Reversed(U)
      <4>1. PICK e \in U : d = <<e[3], e[2], e[1]>>
        BY <3>2 DEF Reversed
      <4> QED BY <1>5, <4>1
    <3> QED BY <3>1, <3>2 DEF Both
  <2> QED BY <1>1, <1>5, <2>1, ReachLeast DEF Component
<1> QED BY <1>2, <1>4, <1>5

\* Every node of a component has this component.
LEMMA SameComponent ==
  ASSUME NEW U, IsFiniteSet(U), NEW n, NEW m \in Component(n, U)
  PROVE  Component(m, U) = Component(n, U)
<1>1. ASSUME NEW x, NEW y \in Component(x, U) PROVE Component(y, U) \subseteq Component(x, U)
  BY ComponentIs
<1> DEFINE S == {x \in Component(n, U) : n \in Component(x, U)}
<1>2. n \in S
  BY ComponentIs
<1>3. ASSUME NEW e \in U, e[1] \in S PROVE e[3] \in S
  <2>1. e[3] \in Component(n, U)
    BY <1>3, ComponentIs
  <2>2. e[1] \in Component(e[3], U)
    BY ComponentIs
  <2>3. Component(e[1], U) \subseteq Component(e[3], U)
    BY <1>1, <2>2
  <2> QED BY <1>3, <2>1, <2>3
<1>4. ASSUME NEW e \in U, e[3] \in S PROVE e[1] \in S
  <2>1. e[1] \in Component(n, U)
    BY <1>4, ComponentIs
  <2>2. e[3] \in Component(e[1], U)
    BY ComponentIs
  <2>3. Component(e[3], U) \subseteq Component(e[1], U)
    BY <1>1, <2>2
  <2> QED BY <1>4, <2>1, <2>3
<1>5. Component(n, U) \subseteq S
  <2> HIDE DEF S
  <2> QED BY <1>2, <1>3, <1>4, ComponentIs
<1>6. n \in Component(m, U)
  BY <1>5
<1> QED BY <1>1, <1>6

\* One edge connects at most two components.
LEMMA EdgeConnects ==
  ASSUME NEW V, IsFiniteSet(V), NEW U, IsFiniteSet(U), NEW e
  PROVE  Cardinality(Components(V, U)) <= Cardinality(Components(V, U \cup {e})) + 1
<1> DEFINE W == U \cup {e}
           c == Component(e[3], U)
           D == Components(V, U) \ {c}
           rep(x) == CHOOSE n \in V : x = Component(n, U)
           g == [x \in D |-> Component(rep(x), W)]
<1>1. IsFiniteSet(W)
  BY FS_AddElement
<1>2. ASSUME NEW X, IsFiniteSet(X) PROVE IsFiniteSet(Components(V, X))
  <2>1. [n \in V |-> Component(n, X)] \in [V -> Components(V, X)]
    BY DEF Components
  <2>2. Components(V, X) = {[n \in V |-> Component(n, X)][i] : i \in V}
    BY DEF Components
  <2> QED BY <2>1, <2>2, ImageFinite
<1>3. \A x \in D : rep(x) \in V /\ x = Component(rep(x), U)
  <2> SUFFICES ASSUME NEW x \in D PROVE rep(x) \in V /\ x = Component(rep(x), U)
    OBVIOUS
  <2>1. \E n \in V : x = Component(n, U)
    BY DEF Components
  <2> QED BY <2>1
<1> HIDE DEF rep
<1>4. ASSUME NEW x \in D, NEW y \in D, Component(rep(x), W) = Component(rep(y), W) PROVE x = y
  <2> DEFINE n == rep(x)
             m == rep(y)
             S == IF e[1] \in x THEN x \cup c ELSE x
  <2>1. x = Component(n, U) /\ y = Component(m, U) /\ x # c /\ y # c
    BY <1>3
  <2> HIDE DEF n, m
  <2>2. e[3] \notin x
    <3>1. e[3] \in x => Component(e[3], U) = x
      BY <2>1, SameComponent
    <3> QED BY <2>1, <3>1
  <2>3. m \in Component(n, W)
    BY <1>1, <1>4, ComponentIs DEF n, m
  <2>4. /\ n \in x /\ \A d \in U : d[1] \in x <=> d[3] \in x
        /\ e[3] \in c /\ \A d \in U : d[1] \in c <=> d[3] \in c
    BY <2>1, ComponentIs
  <2> HIDE DEF c
  <2>5. n \in S
    BY <2>4
  <2>6. \A d \in W : d[1] \in S <=> d[3] \in S
    <3>1. \A d \in U : d[1] \in S <=> d[3] \in S
      BY <2>4
    <3>2. e[1] \in S <=> e[3] \in S
      <4>1. CASE e[1] \in x
        BY <2>4, <4>1
      <4>2. CASE e[1] \notin x
        BY <2>2, <4>2
      <4> QED BY <4>1, <4>2
    <3> HIDE DEF S
    <3> QED BY <3>1, <3>2
  <2>7. m \in S
    <3> HIDE DEF S, W
    <3> QED BY <1>1, <2>3, <2>5, <2>6, ComponentIs
  <2>8. m \notin c
    <3>1. m \in c => Component(m, U) = Component(e[3], U)
      BY SameComponent DEF c
    <3> QED BY <2>1, <3>1 DEF c
  <2>9. m \in x
    BY <2>7, <2>8
  <2> QED BY <2>1, <2>9, SameComponent
<1>5. g \in Injection(D, Components(V, W))
  <2>1. g \in [D -> Components(V, W)]
    BY <1>3 DEF Components
  <2>2. \A x, y \in D : g[x] = g[y] => x = y
    <3> HIDE DEF D, W
    <3> QED BY <1>4
  <2> HIDE DEF g, D, W
  <2> QED BY <2>1, <2>2 DEF Injection, IsInjective
<1>6. Cardinality(D) <= Cardinality(Components(V, W))
  <2>1. IsFiniteSet(Components(V, W))
    BY <1>1, <1>2
  <2> HIDE DEF D, W, g
  <2> QED BY <1>5, <2>1, FS_Injection
<1>7. Cardinality(Components(V, U)) <= Cardinality(D) + 1 /\ Cardinality(D) \in Nat
  <2>1. IsFiniteSet(Components(V, U)) /\ IsFiniteSet(D)
    BY <1>2, FS_RemoveElement
  <2>2. Cardinality(D) = IF c \in Components(V, U) THEN Cardinality(Components(V, U)) - 1
                         ELSE Cardinality(Components(V, U))
    <3> HIDE DEF c
    <3> QED BY <2>1, FS_RemoveElement
  <2>3. Cardinality(Components(V, U)) \in Nat /\ Cardinality(D) \in Nat
    <3> HIDE DEF D
    <3> QED BY <2>1, FS_CardinalityType
  <2> HIDE DEF D, c
  <2> QED BY <2>2, <2>3
<1>8. Cardinality(Components(V, W)) \in Nat
  <2>1. IsFiniteSet(Components(V, W))
    BY <1>1, <1>2
  <2> QED BY <2>1, FS_CardinalityType
<1>9. Cardinality(Components(V, U)) \in Nat
  BY <1>2, FS_CardinalityType
<1> HIDE DEF D, W
<1> QED BY <1>6, <1>7, <1>8, <1>9 DEF W

\* A graph has no more nodes than edges and components.
LEMMA FewNodes ==
  ASSUME NEW V, IsFiniteSet(V), NEW E, IsFiniteSet(E)
  PROVE  Cardinality(V) <= Cardinality(E) + Cardinality(Components(V, E))
<1> DEFINE Bound(U) == Cardinality(V) <= Cardinality(U) + Cardinality(Components(V, U))
           S == {i \in Nat : \A U \in SUBSET E : Cardinality(U) = i => Bound(U)}
<1>1. \A U \in SUBSET E : IsFiniteSet(U)
  BY FS_Subset
<1>2. ASSUME NEW U, IsFiniteSet(U)
      PROVE  IsFiniteSet(Components(V, U)) /\ Cardinality(Components(V, U)) \in Nat
  <2>1. [n \in V |-> Component(n, U)] \in [V -> Components(V, U)]
    BY DEF Components
  <2>2. Components(V, U) = {[n \in V |-> Component(n, U)][i] : i \in V}
    BY DEF Components
  <2>3. IsFiniteSet(Components(V, U))
    BY <2>1, <2>2, ImageFinite
  <2> QED BY <2>3, FS_CardinalityType
<1>3. 0 \in S
  <2> SUFFICES ASSUME NEW U \in SUBSET E, Cardinality(U) = 0 PROVE Bound(U)
    OBVIOUS
  <2>1. U = {}
    BY <1>1, FS_EmptySet
  <2>2. \A n \in V : Component(n, U) = {n}
    <3> SUFFICES ASSUME NEW n \in V PROVE Component(n, U) = {n}
      OBVIOUS
    <3>1. n \in {n} /\ \A e \in U : e[1] \in {n} <=> e[3] \in {n}
      BY <2>1
    <3>2. IsFiniteSet(U)
      BY <1>1
    <3>3. n \in Component(n, U) /\ Component(n, U) \subseteq {n}
      BY <3>1, <3>2, ComponentIs
    <3> QED BY <3>3
  <2> DEFINE g == [n \in V |-> Component(n, U)]
  <2>3. g \in [V -> Components(V, U)]
    BY DEF Components
  <2>4. \A n, m \in V : g[n] = g[m] => n = m
    BY <2>2
  <2>5. g \in Injection(V, Components(V, U))
    <3> HIDE DEF g
    <3> QED BY <2>3, <2>4 DEF Injection, IsInjective
  <2>6. Cardinality(V) <= Cardinality(Components(V, U))
    <3> HIDE DEF g
    <3> QED BY <1>1, <1>2, <2>5, FS_Injection
  <2>7. Cardinality(V) \in Nat /\ Cardinality(Components(V, U)) \in Nat
    BY <1>1, <1>2, FS_CardinalityType
  <2> HIDE DEF g
  <2> QED BY <2>6, <2>7
<1>4. \A i \in Nat : i \in S => i + 1 \in S
  <2> SUFFICES ASSUME NEW i \in Nat, i \in S, NEW W \in SUBSET E, Cardinality(W) = i + 1 PROVE Bound(W)
    OBVIOUS
  <2>1. PICK e : e \in W
    <3>1. IsFiniteSet(W)
      BY <1>1
    <3>2. W # {}
      BY <3>1, FS_EmptySet
    <3> QED BY <3>2
  <2> DEFINE U == W \ {e}
  <2>2. U \in SUBSET E /\ U \cup {e} = W /\ IsFiniteSet(U) /\ Cardinality(U) = i
    <3>1. IsFiniteSet(W)
      BY <1>1
    <3>2. Cardinality(U) = Cardinality(W) - 1 /\ IsFiniteSet(U)
      BY <2>1, <3>1, FS_RemoveElement
    <3> QED BY <2>1, <3>2
  <2>3. Bound(U)
    <3> HIDE DEF U, Bound
    <3> QED BY <2>2
  <2> HIDE DEF U, S
  <2>4. Cardinality(Components(V, U)) <= Cardinality(Components(V, U \cup {e})) + 1
    BY <2>2, EdgeConnects
  <2>5. Cardinality(Components(V, U)) <= Cardinality(Components(V, W)) + 1
    BY <2>2, <2>4
  <2>6. Cardinality(Components(V, U)) \in Nat /\ Cardinality(Components(V, W)) \in Nat /\ Cardinality(V) \in Nat
    BY <1>1, <1>2, <2>2, FS_CardinalityType
  <2> QED BY <2>2, <2>3, <2>5, <2>6
<1>5. \A i \in Nat : i \in S
  <2> HIDE DEF S
  <2> QED BY <1>3, <1>4, Induction
<1>6. Cardinality(E) \in Nat
  BY FS_CardinalityType
<1> HIDE DEF Bound
<1>7. Bound(E)
  BY <1>5, <1>6
<1> QED BY <1>7 DEF Bound

\* The cyclomatic complexity of a function is positive.
LEMMA ComplexityPositive ==
  ASSUME NEW p, IsNormal(p), NEW f \in DOMAIN p.entry
  PROVE  cyclomatic_complexity(p, f) >= 1
<1> DEFINE E == IntraproceduralCfg(p, f)
           V == CfgNodes(p, f)
           C == Components(V, E)
<1>1. IsFiniteSet(E)
  BY CfgFinite
<1>2. IsFiniteSet(V)
  <2> DEFINE g == [e \in E |-> e[1]]
             h == [e \in E |-> e[3]]
             A == {g[e] : e \in E}
             B == {h[e] : e \in E}
  <2>1. IsFiniteSet(A) /\ IsFiniteSet(B)
    <3>1. g \in [E -> A] /\ h \in [E -> B]
      OBVIOUS
    <3> HIDE DEF g, h, E
    <3> QED BY <1>1, <3>1, ImageFinite
  <2>2. V \subseteq A \cup B
    <3> HIDE DEF E
    <3> QED BY DEF CfgNodes, E
  <2>3. IsFiniteSet(A \cup B)
    <3> HIDE DEF A, B
    <3> QED BY <2>1, FS_Union
  <2> HIDE DEF A, B, V
  <2> QED BY <2>2, <2>3, FS_Subset
<1>3. V # {}
  <2>1. p.entry[f] \in BlocksOf(p, f)
    BY DEF IsNormal
  <2>2. add_block(p.entry[f]) \in E
    BY <2>1 DEF IntraproceduralCfg
  <2> HIDE DEF E
  <2> QED BY <2>2 DEF CfgNodes, E
<1>4. ConnectedComponents(p, f) = C
  BY DEF ConnectedComponents, Components, Component, Both
<1> HIDE DEF E, V
<1>5. IsFiniteSet(C) /\ C # {}
  <2>1. [n \in V |-> Component(n, E)] \in [V -> C]
    BY DEF Components
  <2>2. C = {[n \in V |-> Component(n, E)][i] : i \in V}
    BY DEF Components
  <2>3. IsFiniteSet(C)
    <3> HIDE DEF C
    <3> QED BY <1>2, <2>1, <2>2, ImageFinite
  <2> QED BY <1>3, <2>3 DEF Components
<1>6. Cardinality(V) <= Cardinality(E) + Cardinality(C)
  BY <1>1, <1>2, FewNodes
<1> HIDE DEF C
<1>7. /\ Cardinality(V) \in Nat /\ Cardinality(E) \in Nat /\ Cardinality(C) \in Nat
      /\ Cardinality(C) # 0
  BY <1>1, <1>2, <1>5, FS_CardinalityType, FS_EmptySet
<1>8. cyclomatic_complexity(p, f) = Cardinality(E) - Cardinality(V) + 2 * Cardinality(C)
  BY <1>4 DEF cyclomatic_complexity, E, V
<1> QED BY <1>6, <1>7, <1>8

\* A division of at most d by d parts.
LEMMA QuotientBound ==
  ASSUME NEW m \in Nat, NEW d \in Nat, d # 0, m <= d, NEW c \in Nat
  PROVE  (m * c) \div d <= c
<1> DEFINE a == m * c
           q == a \div d
<1>1. a \in Nat /\ a <= d * c
  OBVIOUS
<1>2. q \in Int /\ d * q <= a
  <2> HIDE DEF a
  <2> QED BY <1>1
<1> HIDE DEF a, q
<1>3. d * q <= d * c
  BY <1>1, <1>2
<1>4. q > c => d * q > d * c
  BY <1>2
<1>5. ~(q > c)
  BY <1>1, <1>2, <1>3, <1>4
<1> QED BY <1>2, <1>5 DEF a, q

\* The greatest number of a bounded set.
LEMMA MaxIs ==
  ASSUME NEW k \in Nat, NEW T, T \subseteq 0..k, T # {}
  PROVE  Max(T) \in T /\ \A t \in T : t <= Max(T)
<1> DEFINE U == {k - t : t \in T}
<1>0. \A t \in T : t \in Int /\ k - t \in Nat
  <2> SUFFICES ASSUME NEW t \in T PROVE t \in Int /\ k - t \in Nat
    OBVIOUS
  <2>1. t \in 0..k
    OBVIOUS
  <2> QED BY <2>1
<1>1. U \subseteq Nat /\ U # {}
  BY <1>0
<1>2. PICK u \in U : \A v \in U : u <= v
  <2> HIDE DEF U
  <2> QED BY <1>1, LeastNat
<1>3. PICK t0 \in T : u = k - t0
  OBVIOUS
<1>4. \A t \in T : t0 >= t
  <2> SUFFICES ASSUME NEW t \in T PROVE t0 >= t
    OBVIOUS
  <2>1. u <= k - t
    BY <1>2
  <2> QED BY <1>0, <1>3, <2>1
<1>5. Max(T) \in T /\ \A t \in T : Max(T) >= t
  BY <1>4 DEF Max
<1> QED BY <1>0, <1>5

\* The head of a loop has dominators.
LEMMA HeadsAreReached ==
  ASSUME input \in Inputs, NEW f, f \in DOMAIN prog.entry, NEW doms, Exact(f, doms),
         NEW l \in compute_natural_loops(prog, f, doms)
  PROVE  l.head \in DOMAIN doms
<1> DEFINE E == IntraproceduralCfg(prog, f)
           B == BlocksOf(prog, f)
           a == Start(prog.entry[f])
<1>1. IsFiniteSet(E)
  BY ProgramsAreNormal, CfgFinite DEF prog
<1>2. PICK e0 \in E :
        /\ e0[2] # "Block" /\ IsBlock(e0[1]) /\ IsBlock(e0[3])
        /\ e0[1][2] \in DOMAIN doms /\ e0[3][2] \in doms[e0[1][2]]
        /\ l = natural_loop(prog, f, e0[1][2], e0[3][2])
  BY DEF compute_natural_loops, BackEdges
<1> DEFINE tail == e0[1][2]
           head == e0[3][2]
<1>3. e0[1] = End(tail) /\ e0[3] = Start(head) /\ tail \in B /\ head \in B
  BY <1>2, BlockEdges
<1>4. l.head = head
  BY <1>2 DEF natural_loop
<1>5. PICK q \in PathsFrom(a, E) : Last(q) = Start(tail)
  BY <1>2 DEF Exact, PathsTo, EntryPaths
<1>6. add_block(tail) \in E /\ add_block(tail)[1] = Start(tail) /\ add_block(tail)[3] = End(tail)
  BY <1>3 DEF IntraproceduralCfg, add_block
<1> HIDE DEF E, a, tail, head
<1>7. PICK r \in PathsFrom(a, E) : Last(r) = End(tail)
  BY <1>1, <1>5, <1>6, StepOn
<1>8. PICK s \in PathsFrom(a, E) : Last(s) = Start(head)
  BY <1>1, <1>3, <1>7, StepOn
<1>9. s \in PathsTo(f, Start(head))
  BY <1>8 DEF PathsTo, EntryPaths, E, a
<1> QED BY <1>3, <1>4, <1>9 DEF Exact

\* The flattening score is at most one, in millionths.
LEMMA FlatteningBounded ==
  ASSUME input \in Inputs, NEW f, f \in DOMAIN prog.entry, NEW doms, Exact(f, doms)
  PROVE  flattening_score(prog, f, doms, compute_natural_loops(prog, f, doms)) <= 1000000
<1> DEFINE B == BlocksOf(prog, f)
           loops == compute_natural_loops(prog, f, doms)
           heads == {Cardinality(doms[l.head]) : l \in loops}
           d == Cardinality(B)
<1>1. IsFiniteSet(B) /\ B # {}
  <2>1. IsNormal(prog)
    BY ProgramsAreNormal DEF prog
  <2>2. B \in SUBSET (DOMAIN prog.blks) /\ IsFiniteSet(DOMAIN prog.blks) /\ prog.entry[f] \in B
    BY <2>1 DEF BlocksOf, IsNormal
  <2> HIDE DEF B
  <2> QED BY <2>2, FS_Subset
<1>2. d \in Nat /\ d # 0
  <2> HIDE DEF B
  <2> QED BY <1>1, FS_CardinalityType, FS_EmptySet
<1>3. \A l \in loops : Cardinality(doms[l.head]) \in 0..d
  <2> SUFFICES ASSUME NEW l \in loops PROVE Cardinality(doms[l.head]) \in 0..d
    OBVIOUS
  <2>1. l.head \in DOMAIN doms
    BY HeadsAreReached
  <2>2. doms[l.head] \subseteq B
    BY <2>1 DEF Exact, Dominating
  <2> HIDE DEF B, loops
  <2>3. IsFiniteSet(doms[l.head]) /\ Cardinality(doms[l.head]) <= Cardinality(B)
    BY <1>1, <2>2, FS_Subset
  <2>4. Cardinality(doms[l.head]) \in Nat
    BY <2>3, FS_CardinalityType
  <2> QED BY <1>2, <2>3, <2>4
<1>4. heads \cup {0} \subseteq 0..d
  BY <1>2, <1>3
<1>5. flattening_score(prog, f, doms, loops) = (Max(heads \cup {0}) * 1000000) \div d
  BY DEF flattening_score
<1> HIDE DEF B, d, heads, loops
<1> DEFINE m == Max(heads \cup {0})
<1>6. m \in heads \cup {0}
  BY <1>2, <1>4, MaxIs
<1>7. m \in Nat /\ m <= d
  BY <1>2, <1>4, <1>6
<1> HIDE DEF m
<1>8. 1000000 \in Nat
  OBVIOUS
<1>9. (m * 1000000) \div d <= 1000000
  BY <1>2, <1>7, <1>8, QuotientBound
<1> QED BY <1>5, <1>9 DEF m, loops

\* The calls of imported functions, and the edges to one of them.
ExternCallsOf(p, s) ==
  {b \in DOMAIN p.blks : FirstJmp(p, b).kind = "ExternCall" /\ FirstJmp(p, b).target = s}
EdgeTo(p, f, s) == <<f, {JmpTid(p, b, 1) : b \in {b \in call_sites(p, f) : s \in get_call_targets(p, b)}}, s>>

LEMMA ExternCallSites ==
  ASSUME NEW p, IsNormal(p), NEW s \in p.symbols, NEW f, NEW b
  PROVE  b \in call_sites(p, f) /\ s \in get_call_targets(p, b)
           <=> b \in ExternCallsOf(p, s) /\ p.blks[b].sub = f
<1>1. ASSUME b \in call_sites(p, f), s \in get_call_targets(p, b)
      PROVE  b \in ExternCallsOf(p, s) /\ p.blks[b].sub = f
  <2>1. b \in DOMAIN p.blks /\ p.blks[b].sub = f
    BY <1>1 DEF call_sites, BlocksOf
  <2>2. FirstJmp(p, b).kind = "ExternCall" /\ FirstJmp(p, b).target = s
    BY <1>1, <2>1, ExternCallEdge
  <2> QED BY <2>1, <2>2 DEF ExternCallsOf
<1>2. ASSUME b \in ExternCallsOf(p, s), p.blks[b].sub = f
      PROVE  b \in call_sites(p, f) /\ s \in get_call_targets(p, b)
  <2>1. b \in DOMAIN p.blks /\ FirstJmp(p, b).kind = "ExternCall" /\ FirstJmp(p, b).target = s
    BY <1>2 DEF ExternCallsOf
  <2>2. BlockIsNormal(p, b)
    BY <2>1 DEF IsNormal
  <2>3. Len(p.blks[b].jmps) = 1
    BY <2>1, <2>2 DEF BlockIsNormal, FirstJmp
  <2>4. get_call_targets(p, b) = {s}
    BY <2>1, <2>3 DEF get_call_targets, IsCall
  <2> QED BY <1>2, <2>1, <2>4 DEF call_sites, BlocksOf
<1> QED BY <1>1, <1>2

\* The edges of the call graph that lead to an imported function.
LEMMA EdgesTo ==
  ASSUME NEW p, IsNormal(p), NEW s \in p.symbols
  PROVE  {e \in CallGraphNew(p).edges : e[3] = s}
           = {EdgeTo(p, f, s) : f \in {p.blks[b].sub : b \in ExternCallsOf(p, s)}}
<1> DEFINE G == CallGraphNew(p).edges
           F == {p.blks[b].sub : b \in ExternCallsOf(p, s)}
<1>1. \A f : DOMAIN analyze_callees(p, f) = UNION {get_call_targets(p, b) : b \in call_sites(p, f)}
  BY DEF analyze_callees, callees
<1>2. \A f : s \in DOMAIN analyze_callees(p, f) => analyze_callees(p, f)[s] = EdgeTo(p, f, s)[2]
  BY <1>1 DEF analyze_callees, EdgeTo
<1>3. \A f : s \in DOMAIN analyze_callees(p, f) <=> f \in F
  <2> SUFFICES ASSUME NEW f PROVE s \in DOMAIN analyze_callees(p, f) <=> f \in F
    OBVIOUS
  <2>1. s \in DOMAIN analyze_callees(p, f) <=> \E b : b \in call_sites(p, f) /\ s \in get_call_targets(p, b)
    <3> DEFINE W == UNION {get_call_targets(p, b) : b \in call_sites(p, f)}
    <3>1. s \in W <=> \E b : b \in call_sites(p, f) /\ s \in get_call_targets(p, b)
      OBVIOUS
    <3>2. DOMAIN analyze_callees(p, f) = W
      BY <1>1
    <3> HIDE DEF W
    <3> QED BY <3>1, <3>2
  <2> QED BY <2>1, ExternCallSites
<1>4. \A e : e \in G <=> \E f \in DOMAIN p.entry : \E g \in DOMAIN analyze_callees(p, f) :
                           e = <<f, analyze_callees(p, f)[g], g>>
  BY DEF CallGraphNew
<1>5. F \subseteq DOMAIN p.entry
  BY DEF IsNormal, ExternCallsOf
<1> HIDE DEF F, G
<1>6. ASSUME NEW e, e \in G, e[3] = s PROVE \E f \in F : e = EdgeTo(p, f, s)
  <2>1. PICK f \in DOMAIN p.entry : \E g \in DOMAIN analyze_callees(p, f) : e = <<f, analyze_callees(p, f)[g], g>>
    BY <1>4, <1>6
  <2>2. s \in DOMAIN analyze_callees(p, f) /\ e = <<f, analyze_callees(p, f)[s], s>>
    BY <1>6, <2>1
  <2>3. f \in F /\ analyze_callees(p, f)[s] = EdgeTo(p, f, s)[2]
    BY <1>2, <1>3, <2>2
  <2>4. e = EdgeTo(p, f, s)
    BY <2>2, <2>3 DEF EdgeTo
  <2> QED BY <2>3, <2>4
<1>7. ASSUME NEW f \in F PROVE EdgeTo(p, f, s) \in G /\ EdgeTo(p, f, s)[3] = s
  <2>1. s \in DOMAIN analyze_callees(p, f) /\ f \in DOMAIN p.entry
    BY <1>3, <1>5
  <2>2. EdgeTo(p, f, s) = <<f, analyze_callees(p, f)[s], s>>
    BY <1>2, <2>1 DEF EdgeTo
  <2> QED BY <1>4, <2>1, <2>2
<1> QED BY <1>6, <1>7 DEF F, G

\* Each call of an imported function is counted once.
LEMMA ExternCallsCounted ==
  ASSUME NEW p, IsNormal(p), NEW s \in p.symbols
  PROVE  num_cs(p, s) = Cardinality(ExternCallsOf(p, s))
<1> DEFINE X == ExternCallsOf(p, s)
           F == {p.blks[b].sub : b \in X}
           Y == UNION {{e} \X e[2] : e \in {EdgeTo(p, f, s) : f \in F}}
           h == [b \in X |-> <<EdgeTo(p, p.blks[b].sub, s), JmpTid(p, b, 1)>>]
<1>1. num_cs(p, s) = Cardinality(Y)
  <2> DEFINE Z == {e \in CallGraphNew(p).edges : e[3] = s}
             Z1 == {EdgeTo(p, f, s) : f \in F}
  <2>1. Z = Z1
    BY EdgesTo
  <2>2. num_cs(p, s) = Cardinality(UNION {{e} \X e[2] : e \in Z})
    BY DEF num_cs
  <2>3. Y = UNION {{e} \X e[2] : e \in Z1}
    OBVIOUS
  <2> HIDE DEF Z, Z1, Y
  <2> QED BY <2>1, <2>2, <2>3
<1>2. \A f, t : t \in EdgeTo(p, f, s)[2] <=> \E b \in X : p.blks[b].sub = f /\ t = JmpTid(p, b, 1)
  <2>1. \A f, t : t \in EdgeTo(p, f, s)[2] <=>
          \E b : b \in call_sites(p, f) /\ s \in get_call_targets(p, b) /\ t = JmpTid(p, b, 1)
    BY DEF EdgeTo
  <2> QED BY <2>1, ExternCallSites
<1>3. \A b, c \in X : JmpTid(p, b, 1) = JmpTid(p, c, 1) => b = c
  BY DEF IsNormal, ExternCallsOf
<1>4. IsFiniteSet(X)
  <2>1. X \in SUBSET (DOMAIN p.blks) /\ IsFiniteSet(DOMAIN p.blks)
    BY DEF IsNormal, ExternCallsOf
  <2> HIDE DEF X
  <2> QED BY <2>1, FS_Subset
<1>5. \A y : y \in Y <=> \E f \in F : \E t \in EdgeTo(p, f, s)[2] : y = <<EdgeTo(p, f, s), t>>
  <2> HIDE DEF F
  <2> QED OBVIOUS
<1> HIDE DEF X
<1>6. \A y : y \in Y <=> \E b \in X : y = <<EdgeTo(p, p.blks[b].sub, s), JmpTid(p, b, 1)>>
  <2>1. ASSUME NEW y, y \in Y PROVE \E b \in X : y = <<EdgeTo(p, p.blks[b].sub, s), JmpTid(p, b, 1)>>
    <3>1. PICK f \in F : \E t \in EdgeTo(p, f, s)[2] : y = <<EdgeTo(p, f, s), t>>
      BY <1>5, <2>1
    <3>2. PICK t \in EdgeTo(p, f, s)[2] : y = <<EdgeTo(p, f, s), t>>
      BY <3>1
    <3>3. PICK b \in X : p.blks[b].sub = f /\ t = JmpTid(p, b, 1)
      BY <1>2, <3>2
    <3> QED BY <3>2, <3>3
  <2>2. ASSUME NEW b \in X PROVE <<EdgeTo(p, p.blks[b].sub, s), JmpTid(p, b, 1)>> \in Y
    <3>1. p.blks[b].sub \in F /\ JmpTid(p, b, 1) \in EdgeTo(p, p.blks[b].sub, s)[2]
      BY <1>2, <2>2
    <3> HIDE DEF F, Y
    <3> QED BY <1>5, <3>1
  <2> HIDE DEF Y
  <2> QED BY <2>1, <2>2
<1> HIDE DEF F, Y
<1>7. h \in [X -> Y]
  BY <1>6
<1>8. \A b, c \in X : h[b] = h[c] => b = c
  BY <1>3
<1>9. \A y \in Y : \E b \in X : h[b] = y
  BY <1>6
<1> HIDE DEF h
<1>10. h \in Bijection(X, Y)
  BY <1>7, <1>8, <1>9 DEF Bijection, Injection, Surjection, IsInjective
<1>11. Cardinality(X) = Cardinality(Y)
  BY <1>4, <1>10, FS_Bijection DEF ExistsBijection
<1> QED BY <1>1, <1>11 DEF X

\* Both call graphs agree with the program: analysis/callgraph.rs finds for two
\* functions exactly the calls on the call chains between them, the call graph
\* of analysis/graph/call.rs counts every call of an imported function once, and
\* the scores that caller/src/cfg_stats.rs prints stay in their ranges, for
\* every program and every order of the dominator computation.
THEOREM CallGraphs == Spec => []CallGraphsAreExact
<1>1. Init => StatsInv
  BY DEF Init, StatsInv, Nothing
<1>2. StatsInv /\ [Next]_vars => StatsInv'
  BY StatsInvInductive
<1>3. StatsInv => CallGraphsAreExact
  <2> SUFFICES ASSUME StatsInv PROVE CallSequencesOnPaths /\ StatsCountCalls
    BY DEF CallGraphsAreExact
  <2>1. input \in Inputs /\ IsNormal(prog)
    BY ProgramsAreNormal DEF StatsInv, prog
  <2>2. CallSequencesOnPaths
    BY <2>1, CallSequencesAre
  <2>3. ASSUME Finished, NEW f \in DOMAIN prog.entry
        PROVE  /\ cyclomatic_complexity(prog, f) >= 1
               /\ flattening_score(prog, f, dominators[f],
                    compute_natural_loops(prog, f, dominators[f])) <= 1000000
    <3>1. Exact(f, dominators[f])
      BY <2>3 DEF StatsInv, Finished
    <3> QED BY <2>1, <3>1, ComplexityPositive, FlatteningBounded
  <2>4. ASSUME Finished, NEW s \in prog.symbols
        PROVE  num_cs(prog, s) = Cardinality(ExternCallsOf(prog, s))
    BY <2>1, ExternCallsCounted
  <2>5. StatsCountCalls
    BY <2>3, <2>4 DEF StatsCountCalls, CfgProperties, ExternCallsOf
  <2> QED BY <2>2, <2>5
<1> QED BY <1>1, <1>2, <1>3, PTL DEF Spec

==============================================================================
