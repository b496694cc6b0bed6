-------------------------- MODULE Communities_proofs --------------------------
(***************************************************************************)
(* What the clusters and their prose guarantee for any graph, any number   *)
(* of compiles that detect and name at once, and any edges they draw.      *)
(***************************************************************************)
EXTENDS Communities, FiniteSetTheorems, TLAPS

Partition(S, N) ==
  /\ UNION S = N /\ {} \notin S
  /\ \A C, D \in S : C \cap D # {} => C = D

-----------------------------------------------------------------------------
(* The clusters.                                                             *)

\* The smallest closed set around a node is a cluster: what is closed meets it whole or
\* not at all.
LEMMA ClusterAround ==
  ASSUME NEW N, NEW E \in SUBSET (N \X N), NEW n \in N
  PROVE  \E C \in Clusters(N, E) : n \in C
<1> DEFINE C == {m \in N : \A X \in SUBSET N : n \in X /\ Closed(X, E) => m \in X}
<1>1. C \in SUBSET N /\ n \in C
  OBVIOUS
<1>2. \A e \in E : e[1] \in N /\ e[2] \in N
  OBVIOUS
<1>3. Closed(C, E)
  <2> SUFFICES ASSUME NEW e \in E PROVE e[1] \in C <=> e[2] \in C
    BY DEF Closed
  <2>1. \A X \in SUBSET N : Closed(X, E) => (e[1] \in X <=> e[2] \in X)
    BY DEF Closed
  <2> QED BY <1>2, <2>1
<1>4. ASSUME NEW D \in SUBSET C, D # {}, Closed(D, E) PROVE D = C
  <2>1. CASE n \in D
    BY <1>1, <1>4, <2>1
  <2>2. CASE n \notin D
    <3>1. Closed(N \ D, E)
      BY <1>2, <1>4 DEF Closed
    <3>2. \A m \in C : m \in N \ D
      BY <2>2, <3>1
    <3> QED BY <1>4, <3>2
  <2> QED BY <2>1, <2>2
<1> HIDE DEF C
<1>5. C \in (SUBSET N) \ {{}}
  BY <1>1
<1>6. ASSUME NEW D \in (SUBSET C) \ {{}, C} PROVE ~Closed(D, E)
  BY <1>4
<1>7. C \in Clusters(N, E)
  BY <1>3, <1>5, <1>6 DEF Clusters
<1> QED BY <1>1, <1>7

\* Every node is in one cluster.
LEMMA ClustersPartition ==
  ASSUME NEW N, NEW E \in SUBSET (N \X N)
  PROVE  Partition(Clusters(N, E), N) /\ Clusters(N, E) \in SUBSET SUBSET N
<1>1. Clusters(N, E) \in SUBSET SUBSET N /\ {} \notin Clusters(N, E)
  BY DEF Clusters
<1>2. UNION Clusters(N, E) = N
  BY <1>1, ClusterAround
<1>3. ASSUME NEW C \in Clusters(N, E), NEW D \in Clusters(N, E), C \cap D # {}
      PROVE  C = D
  <2>1. Closed(C, E) /\ Closed(D, E)
    BY DEF Clusters
  <2>2. Closed(C \cap D, E)
    BY <2>1 DEF Closed
  <2>3. ASSUME NEW X \in Clusters(N, E), C \cap D \in SUBSET X PROVE C \cap D = X
    <3>1. \A Y \in (SUBSET X) \ {{}, X} : ~Closed(Y, E)
      BY DEF Clusters
    <3>2. C \cap D \notin (SUBSET X) \ {{}, X}
      BY <2>2, <3>1
    <3> QED BY <1>3, <2>3, <3>2
  <2>4. C \cap D = C /\ C \cap D = D
    BY <2>3
  <2> QED BY <2>4
<1> QED BY <1>1, <1>2, <1>3 DEF Partition

-----------------------------------------------------------------------------
(* Their numbers.                                                            *)

LEMMA LeastLemma ==
  ASSUME NEW C \in SUBSET Nat, C # {}
  PROVE  Least(C) \in C /\ Least(C) \in Nat /\ \A m \in C : Least(C) <= m
<1> DEFINE R == OpToRel(<, Nat)
<1>1. \A x, y \in Nat : <<x, y>> \in R <=> x < y
  BY DEF OpToRel
<1>2. IsWellFoundedOn(R, Nat)
  BY NatLessThanWellFounded
<1> HIDE DEF R
<1>3. PICK n \in C : \A m \in C : <<m, n>> \notin R
  BY <1>2, WFMin
<1>4. \A m \in C : m \in Nat /\ n \in Nat /\ ~(m < n)
  BY <1>1, <1>3
<1>5. \A m \in C : n <= m
  BY <1>4
<1> QED BY <1>5 DEF Least

\* Size and then the least node order the clusters.
LEMMA LargerLemma ==
  ASSUME NEW C \in SUBSET Nodes, NEW D \in SUBSET Nodes, C # {}, D # {}
  PROVE  /\ ~Larger(C, C)
         /\ C \cap D = {} => Larger(C, D) \/ Larger(D, C)
         /\ \A B \in SUBSET Nodes :
              B # {} /\ Larger(B, C) /\ Larger(C, D) => Larger(B, D)
<1>1. ASSUME NEW B \in SUBSET Nodes, B # {}
      PROVE  Cardinality(B) \in Nat /\ Least(B) \in B /\ Least(B) \in Nat
  <2>1. B \in SUBSET Nat /\ IsFiniteSet(B)
    BY CommunityAssumption, FS_Subset
  <2> QED BY <1>1, <2>1, FS_CardinalityType, LeastLemma
<1>2. ~Larger(C, C)
  BY <1>1 DEF Larger
<1>3. ASSUME C \cap D = {} PROVE Larger(C, D) \/ Larger(D, C)
  <2>1. Least(C) # Least(D)
    BY <1>1, <1>3
  <2> QED BY <1>1, <2>1 DEF Larger
<1>4. ASSUME NEW B \in SUBSET Nodes, B # {}, Larger(B, C), Larger(C, D) PROVE Larger(B, D)
  BY <1>1, <1>4 DEF Larger
<1> QED BY <1>2, <1>3, <1>4

\* No two clusters have the same number.
LEMMA NumberedLemma ==
  ASSUME NEW S \in SUBSET SUBSET Nodes, NEW N, Partition(S, N),
         NEW C \in S, NEW D \in S
  PROVE  /\ Numbered(S, C) \in Nat
         /\ Numbered(S, C) = Numbered(S, D) => C = D
         /\ Numbered(S, C) <= Numbered(S, D) /\ C # D => Larger(C, D)
<1> DEFINE Above(X) == {Y \in S : Larger(Y, X)}
<1>1. \A X \in S : X \in SUBSET Nodes /\ X # {}
  BY DEF Partition
<1>2. ASSUME NEW X \in S PROVE IsFiniteSet(Above(X)) /\ Cardinality(Above(X)) \in Nat
  <2>1. IsFiniteSet(SUBSET Nodes)
    BY CommunityAssumption, FS_SUBSET
  <2>2. Above(X) \in SUBSET SUBSET Nodes
    OBVIOUS
  <2>3. IsFiniteSet(Above(X))
    BY <2>1, <2>2, FS_Subset
  <2> QED BY <2>3, FS_CardinalityType
<1>3. ASSUME NEW X \in S, NEW Y \in S, Larger(X, Y)
      PROVE  Cardinality(Above(X)) < Cardinality(Above(Y))
  <2>1. Above(X) \in SUBSET Above(Y)
    BY <1>1, <1>3, LargerLemma
  <2>2. X \in Above(Y) /\ X \notin Above(X)
    BY <1>1, <1>3, LargerLemma
  <2> HIDE DEF Above
  <2> QED BY <1>2, <2>1, <2>2, FS_Subset
<1>4. \A X \in S : Numbered(S, X) = 1 + Cardinality(Above(X))
  BY DEF Numbered
<1> HIDE DEF Above
<1>5. C # D => Larger(C, D) \/ Larger(D, C)
  BY <1>1, LargerLemma DEF Partition
<1>6. Larger(D, C) => Cardinality(Above(D)) < Cardinality(Above(C))
  BY <1>3
<1>7. Larger(C, D) => Cardinality(Above(C)) < Cardinality(Above(D))
  BY <1>3
<1> QED BY <1>2, <1>4, <1>5, <1>6, <1>7

LEMMA ClusterOfLemma ==
  ASSUME NEW S, NEW N, Partition(S, N), NEW n \in N
  PROVE  ClusterOf(S, n) \in S /\ n \in ClusterOf(S, n)
         /\ \A C \in S : n \in C => ClusterOf(S, n) = C
<1>1. \E C \in S : n \in C
  BY DEF Partition
<1>2. ClusterOf(S, n) \in S /\ n \in ClusterOf(S, n)
  BY <1>1 DEF ClusterOf
<1> QED BY <1>2 DEF Partition

-----------------------------------------------------------------------------
(* The invariant: what a compile has found is a partition of the nodes it sees, and *)
(* the clusters of the graph it writes, for as long as no other compile is committed; *)
(* what it has been shown of a cluster is that cluster.                      *)

Detected(r) ==
  /\ Partition(found[r], UNION found[r])
  /\ stage[r] = "update" => ~(found[r] \subseteq updated[r])
  /\ stage[r] \in {"update", "commit"} /\ ~missed[r] =>
       /\ UNION found[r] = nodes \cup Brings[r]
       /\ undone = {} => found[r] = Clusters(nodes \cup Brings[r], edges \cup DrawnBy(r))

ShownItsMembers(r) == \A t \in todo[r] : t.shown = t.members

OneRowEach == \A a, b \in rows : a.members = b.members => a = b

CommunityInv ==
  /\ TypeOK
  /\ edges \subseteq nodes \X nodes
  /\ \A r \in Runs : Detected(r) /\ ShownItsMembers(r)
  /\ OneRowEach
  /\ RowsMatchNodes
  /\ ProseIsAboutItsMembers

-----------------------------------------------------------------------------
LEMMA FollowingLemma ==
  ASSUME NEW S \in SUBSET SUBSET Nodes, Partition(S, UNION S), NEW T \in SUBSET S, T # {}
  PROVE  \E C \in T : \A D \in T \ {C} : Larger(C, D)
<1> DEFINE K == {Numbered(S, C) : C \in T}
<1>1. K \in SUBSET Nat /\ K # {}
  BY NumberedLemma
<1>2. Least(K) \in K /\ \A k \in K : Least(K) <= k
  BY <1>1, LeastLemma
<1>3. PICK C \in T : \A D \in T : Numbered(S, C) <= Numbered(S, D)
  BY <1>2
<1>4. \A D \in T \ {C} : Larger(C, D)
  BY <1>3, NumberedLemma
<1> QED BY <1>4

\* A number finds exactly the nodes of its cluster.
LEMMA MembersLemma ==
  ASSUME NEW S \in SUBSET SUBSET Nodes, NEW N, Partition(S, N), NEW num,
         \A n \in N : num[n] = Numbered(S, ClusterOf(S, n)),
         NEW C \in S
  PROVE  C = {n \in N : num[n] = Numbered(S, C)}
<1>1. \A n \in C : n \in N
  BY DEF Partition
<1>2. ASSUME NEW n \in N PROVE n \in C <=> num[n] = Numbered(S, C)
  <2>1. /\ ClusterOf(S, n) \in S /\ n \in ClusterOf(S, n)
        /\ \A D \in S : n \in D => ClusterOf(S, n) = D
    BY ClusterOfLemma
  <2>2. num[n] = Numbered(S, C) => ClusterOf(S, n) = C
    BY <2>1, NumberedLemma
  <2> QED BY <2>1, <2>2
<1> QED BY <1>1, <1>2

\* The edges an open transaction sees are between the nodes it sees.
LEMMA DrawnLemma ==
  ASSUME NEW N \in SUBSET Nodes, NEW L \in SUBSET (Nodes \X Nodes)
  PROVE  {e \in L : {e[1], e[2]} \subseteq N} \in SUBSET (N \X N)
OBVIOUS

LEMMA InitHolds == Init => CommunityInv
<1> DEFINE N == UNION {Brings[r] : r \in Before}
           E == {e \in UNION {Links[r] : r \in Before} : {e[1], e[2]} \subseteq N}
           S == Clusters(N, E)
<1> SUFFICES ASSUME Init PROVE CommunityInv
  OBVIOUS
<1>1. N \in SUBSET Nodes /\ E \in SUBSET (N \X N)
  <2>1. N \in SUBSET Nodes /\ UNION {Links[r] : r \in Before} \in SUBSET (Nodes \X Nodes)
    BY CommunityAssumption
  <2> QED BY <2>1, DrawnLemma
<1>2. Partition(S, N) /\ S \in SUBSET SUBSET Nodes
  BY <1>1, ClustersPartition
<1>3. /\ nodes = N /\ edges = E
      /\ number = [n \in Nodes |-> IF n \in N THEN Numbered(S, ClusterOf(S, n)) ELSE 0]
      /\ rows = {[members |-> C, number |-> Numbered(S, C), prose |-> NoProse] : C \in S}
      /\ stage = [r \in Runs |-> IF r \in Before THEN "done" ELSE "ready"]
      /\ found = [r \in Runs |-> {}] /\ updated = [r \in Runs |-> {}]
      /\ todo = [r \in Runs |-> {}] /\ missed = [r \in Runs |-> FALSE] /\ undone = {}
  BY DEF Init
<1> HIDE DEF N, E, S
<1>4. \A C \in S : Numbered(S, C) \in Nat
  BY <1>2, NumberedLemma
<1>5. \A n \in N : n \in Nodes /\ ClusterOf(S, n) \in S
  BY <1>1, <1>2, ClusterOfLemma
<1>6. TypeOK
  <2>1. number \in [Nodes -> Nat]
    BY <1>3, <1>4, <1>5
  <2>2. rows \subseteq Row
    BY <1>2, <1>3, <1>4 DEF Row, NoProse
  <2> QED BY <1>1, <1>3, <2>1, <2>2 DEF TypeOK, Stages
<1>7. \A r \in Runs : Detected(r) /\ ShownItsMembers(r)
  BY <1>3 DEF Detected, Partition, ShownItsMembers
<1>8. OneRowEach /\ ProseIsAboutItsMembers
  BY <1>3 DEF OneRowEach, ProseIsAboutItsMembers
<1>9. RowsMatchNodes
  <2>1. \A n \in N : number[n] = Numbered(S, ClusterOf(S, n))
    BY <1>3, <1>5
  <2>2. \A C \in S : C = {n \in N : number[n] = Numbered(S, C)}
    BY <1>2, <2>1, MembersLemma
  <2>3. \A row \in rows : row.members = {n \in nodes : number[n] = row.number}
    BY <1>3, <2>2
  <2>4. {row.members : row \in rows} = S
    <3>1. \A row \in rows : row.members \in S
      BY <1>3
    <3>2. ASSUME NEW C \in S PROVE \E row \in rows : row.members = C
      <4>1. [members |-> C, number |-> Numbered(S, C), prose |-> NoProse] \in rows
        BY <1>3
      <4> QED BY <4>1
    <3> QED BY <3>1, <3>2
  <2>5. UNION S = N
    BY <1>2 DEF Partition
  <2>6. S = Clusters(nodes, edges)
    BY <1>3 DEF S
  <2>7. \A n \in nodes : \E row \in rows : n \in row.members
    BY <1>3, <2>4, <2>5
  <2> QED BY <2>3, <2>4, <2>6, <2>7 DEF RowsMatchNodes
<1>10. edges \subseteq nodes \X nodes
  BY <1>1, <1>3
<1> QED BY <1>6, <1>7, <1>8, <1>9, <1>10 DEF CommunityInv

-----------------------------------------------------------------------------
(* Every action keeps it.                                                    *)

LEMMA DetectStep ==
  ASSUME CommunityInv, NEW r \in Runs, Detect(r)
  PROVE  CommunityInv'
<1> DEFINE N == nodes \cup Brings[r]
           E == edges \cup DrawnBy(r)
           S == Clusters(N, E)
<1>0. CommunityInv
  OBVIOUS
<1>1. TypeOK /\ edges \subseteq nodes \X nodes
  BY <1>0 DEF CommunityInv
<1>2. N \in SUBSET Nodes /\ E \in SUBSET (N \X N)
  <2>1. N \in SUBSET Nodes /\ Links[r] \in SUBSET (Nodes \X Nodes)
    BY <1>1, CommunityAssumption DEF TypeOK
  <2>2. DrawnBy(r) \in SUBSET (N \X N)
    BY <2>1, DrawnLemma DEF DrawnBy
  <2> QED BY <1>1, <2>1, <2>2
<1>3. Partition(S, N) /\ S \in SUBSET SUBSET Nodes
  BY <1>2, ClustersPartition
<1>4. /\ found' = [found EXCEPT ![r] = S] /\ updated' = [updated EXCEPT ![r] = {}]
      /\ missed' = [missed EXCEPT ![r] = FALSE]
      /\ stage' = [stage EXCEPT ![r] = IF S = {} THEN "commit" ELSE "update"]
      /\ nodes' = nodes /\ edges' = edges /\ number' = number /\ rows' = rows
      /\ todo' = todo /\ undone' = undone
  BY DEF Detect, Goto, graphVars
<1>5. TypeOK'
  BY <1>1, <1>3, <1>4 DEF TypeOK, Stages
<1>6. ASSUME NEW b \in Runs PROVE Detected(b)'
  <2>1. CASE b = r
    <3>1. /\ found'[b] = S /\ updated'[b] = {}
          /\ stage'[b] = (IF S = {} THEN "commit" ELSE "update")
      BY <1>1, <1>4, <2>1 DEF TypeOK
    <3>2. S = Clusters(N, E)' /\ N' = N
      BY <1>4 DEF DrawnBy
    <3>3. UNION S = N
      BY <1>3 DEF Partition
    <3> HIDE DEF S
    <3> QED BY <1>3, <2>1, <3>1, <3>2, <3>3 DEF Detected
  <2>2. CASE b # r
    <3>1. /\ found'[b] = found[b] /\ updated'[b] = updated[b] /\ stage'[b] = stage[b]
          /\ missed'[b] = missed[b]
      BY <1>1, <1>4, <2>2 DEF TypeOK
    <3>2. Detected(b)
      BY <1>0 DEF CommunityInv
    <3> QED BY <1>4, <3>1, <3>2 DEF Detected, DrawnBy
  <2> QED BY <2>1, <2>2
<1>7. \A b \in Runs : ShownItsMembers(b)'
  BY <1>0, <1>4 DEF CommunityInv, ShownItsMembers
<1> HIDE DEF S
<1>8. OneRowEach' /\ RowsMatchNodes' /\ ProseIsAboutItsMembers'
  BY <1>0, <1>4 DEF CommunityInv, OneRowEach, RowsMatchNodes, ProseIsAboutItsMembers
<1> QED BY <1>1, <1>4, <1>5, <1>6, <1>7, <1>8 DEF CommunityInv

\* The steps of a compile that leave the graph and what it has found.
LEMMA StageStep ==
  ASSUME CommunityInv, NEW r \in Runs, NEW s \in Stages, Goto(r, s),
         updated' \in [Runs -> SUBSET SUBSET Nodes], todo' \in [Runs -> SUBSET Task],
         \A b \in Runs : b # r => updated'[b] = updated[b],
         \A b \in Runs : todo'[b] \subseteq todo[b],
         s = "update" => stage[r] = "update" /\ ~(found[r] \subseteq updated'[r]),
         s = "commit" => stage[r] \in {"update", "commit"},
         UNCHANGED <<graphVars, found, missed, undone>>
  PROVE  CommunityInv'
<1>0. CommunityInv
  OBVIOUS
<1>1. TypeOK
  BY <1>0 DEF CommunityInv
<1>2. stage' = [stage EXCEPT ![r] = s] /\ nodes' = nodes /\ edges' = edges
      /\ number' = number /\ rows' = rows /\ found' = found /\ missed' = missed
      /\ undone' = undone
  BY DEF Goto, graphVars
<1>3. TypeOK'
  BY <1>1, <1>2 DEF TypeOK
<1>4. ASSUME NEW b \in Runs PROVE Detected(b)'
  <2>1. Detected(b) /\ stage'[b] = IF b = r THEN s ELSE stage[b]
    BY <1>0, <1>1, <1>2 DEF CommunityInv, TypeOK
  <2>2. stage'[b] = "update" => ~(found[b] \subseteq updated'[b])
    BY <2>1 DEF Detected
  <2>3. stage'[b] \in {"update", "commit"} => stage[b] \in {"update", "commit"}
    BY <2>1
  <2> QED BY <1>2, <2>1, <2>2, <2>3 DEF Detected, DrawnBy
<1>5. \A b \in Runs : ShownItsMembers(b)'
  BY <1>0 DEF CommunityInv, ShownItsMembers
<1>6. OneRowEach' /\ RowsMatchNodes' /\ ProseIsAboutItsMembers'
  BY <1>0, <1>2 DEF CommunityInv, OneRowEach, RowsMatchNodes, ProseIsAboutItsMembers
<1> QED BY <1>0, <1>2, <1>3, <1>4, <1>5, <1>6 DEF CommunityInv

LEMMA UpdateStep ==
  ASSUME CommunityInv, NEW r \in Runs, Update(r)
  PROVE  CommunityInv'
<1>0. TypeOK /\ Detected(r)
  BY DEF CommunityInv
<1>1. /\ stage[r] = "update" /\ updated' = [updated EXCEPT ![r] = @ \cup {Following(r)}]
      /\ UNCHANGED <<graphVars, found, todo, missed, undone>>
  BY DEF Update
<1>2. Following(r) \in found[r] /\ found[r] \in SUBSET SUBSET Nodes
  <2>1. found[r] \in SUBSET SUBSET Nodes
    BY <1>0 DEF TypeOK
  <2> DEFINE T == found[r] \ updated[r]
  <2>2. T # {} /\ T \in SUBSET found[r]
    BY <1>0, <1>1 DEF Detected
  <2>3. Partition(found[r], UNION found[r])
    BY <1>0 DEF Detected
  <2>4. Following(r) = CHOOSE C \in T : \A D \in T \ {C} : Larger(C, D)
    BY DEF Following
  <2> HIDE DEF T
  <2>5. \E C \in T : \A D \in T \ {C} : Larger(C, D)
    BY <2>1, <2>2, <2>3, FollowingLemma
  <2>6. Following(r) \in T
    BY <2>4, <2>5
  <2> QED BY <2>1, <2>2, <2>6
<1>3. /\ updated' \in [Runs -> SUBSET SUBSET Nodes]
      /\ \A b \in Runs : b # r => updated'[b] = updated[b]
  BY <1>0, <1>1, <1>2 DEF TypeOK
<1>4. todo' \in [Runs -> SUBSET Task] /\ todo' = todo
  BY <1>0, <1>1 DEF TypeOK
<1>5. CASE found[r] \subseteq updated'[r]
  <2>1. Goto(r, "commit")
    BY <1>5 DEF Update
  <2> QED BY <1>1, <1>3, <1>4, <2>1, StageStep DEF Stages
<1>6. CASE ~(found[r] \subseteq updated'[r])
  <2>1. stage' = stage
    BY <1>6 DEF Update
  <2>2. Goto(r, "update")
    BY <1>0, <1>1, <2>1 DEF Goto, TypeOK
  <2> QED BY <1>1, <1>3, <1>4, <1>6, <2>2, StageStep DEF Stages
<1> QED BY <1>5, <1>6

LEMMA LostStep ==
  ASSUME CommunityInv, NEW r \in Runs, BreakDeadlock(r) \/ Abort(r)
  PROVE  CommunityInv'
<1>1. TypeOK
  BY DEF CommunityInv
<1>2. Goto(r, "lost") /\ UNCHANGED <<graphVars, found, updated, todo, missed, undone>>
  BY DEF BreakDeadlock, Abort
<1>3. updated' \in [Runs -> SUBSET SUBSET Nodes] /\ todo' \in [Runs -> SUBSET Task]
  BY <1>1, <1>2 DEF TypeOK
<1> QED BY <1>2, <1>3, StageStep DEF Stages

LEMMA EndNamingStep ==
  ASSUME CommunityInv, NEW r \in Runs, EndNaming(r)
  PROVE  CommunityInv'
<1>1. TypeOK
  BY DEF CommunityInv
<1>2. /\ Goto(r, "done") /\ todo' = [todo EXCEPT ![r] = {}]
      /\ UNCHANGED <<graphVars, found, updated, missed, undone>>
  BY DEF EndNaming
<1>3. /\ updated' \in [Runs -> SUBSET SUBSET Nodes] /\ updated' = updated
      /\ todo' \in [Runs -> SUBSET Task] /\ \A b \in Runs : todo'[b] \subseteq todo[b]
  BY <1>1, <1>2 DEF TypeOK
<1> QED BY <1>2, <1>3, StageStep DEF Stages

LEMMA SkipStep ==
  ASSUME CommunityInv, NEW r \in Runs, Skip(r)
  PROVE  CommunityInv'
<1>1. TypeOK
  BY DEF CommunityInv
<1>2. PICK t \in todo[r] : todo' = [todo EXCEPT ![r] = @ \ {t}]
  BY DEF Skip
<1>3. /\ stage[r] = "name" /\ stage' = stage
      /\ UNCHANGED <<graphVars, found, updated, missed, undone>>
  BY DEF Skip
<1>4. Goto(r, "name")
  BY <1>1, <1>3 DEF Goto, TypeOK
<1>5. /\ updated' \in [Runs -> SUBSET SUBSET Nodes] /\ updated' = updated
      /\ todo' \in [Runs -> SUBSET Task] /\ \A b \in Runs : todo'[b] \subseteq todo[b]
  BY <1>1, <1>2, <1>3 DEF TypeOK
<1> QED BY <1>3, <1>4, <1>5, StageStep DEF Stages

\* What a naming is shown of a cluster is the cluster.
LEMMA AskStep ==
  ASSUME CommunityInv, NEW r \in Runs, Ask(r)
  PROVE  CommunityInv'
<1>0. CommunityInv
  OBVIOUS
<1>1. TypeOK /\ RowsMatchNodes
  BY <1>0 DEF CommunityInv
<1>2. PICK S \in SUBSET rows :
        /\ todo' = [todo EXCEPT ![r] =
                      {[members |-> s.members, number |-> s.number, shown |-> Shown(s)] : s \in S}]
        /\ Goto(r, IF S = {} THEN "done" ELSE "name")
  <2> DEFINE open == {row \in rows : Unnamed(row)}
  <2>1. PICK S \in SUBSET open :
        /\ todo' = [todo EXCEPT ![r] =
                      {[members |-> s.members, number |-> s.number, shown |-> Shown(s)] : s \in S}]
        /\ Goto(r, IF S = {} THEN "done" ELSE "name")
    BY DEF Ask
  <2>2. S \in SUBSET rows
    OBVIOUS
  <2> QED BY <2>1, <2>2
<1> DEFINE Asked == {[members |-> s.members, number |-> s.number, shown |-> Shown(s)] : s \in S}
<1>3. /\ todo' = [todo EXCEPT ![r] = Asked]
      /\ stage' = [stage EXCEPT ![r] = IF S = {} THEN "done" ELSE "name"]
      /\ nodes' = nodes /\ edges' = edges /\ number' = number /\ rows' = rows
      /\ found' = found /\ updated' = updated /\ missed' = missed /\ undone' = undone
  BY <1>2 DEF Ask, Goto, graphVars
<1>4. \A s \in rows : Shown(s) = s.members
  BY <1>1 DEF RowsMatchNodes, Shown
<1>5. Asked \in SUBSET Task /\ \A t \in Asked : t.shown = t.members
  <2>1. ASSUME NEW s \in S
        PROVE  [members |-> s.members, number |-> s.number, shown |-> Shown(s)] \in Task
    <3>1. s \in Row /\ Shown(s) = s.members
      BY <1>1, <1>4 DEF TypeOK
    <3> QED BY <3>1 DEF Row, Task
  <2> QED BY <1>4, <2>1
<1> HIDE DEF Asked
<1>6. TypeOK'
  BY <1>1, <1>3, <1>5 DEF TypeOK, Stages
<1>7. ASSUME NEW b \in Runs PROVE Detected(b)' /\ ShownItsMembers(b)'
  <2>1. Detected(b) /\ ShownItsMembers(b)
    BY <1>0 DEF CommunityInv
  <2>2. /\ stage'[b] \in {"update", "commit"} => stage'[b] = stage[b]
        /\ todo'[b] = IF b = r THEN Asked ELSE todo[b]
    BY <1>1, <1>3 DEF TypeOK
  <2> QED BY <1>3, <1>5, <2>1, <2>2 DEF Detected, DrawnBy, ShownItsMembers
<1>8. OneRowEach' /\ RowsMatchNodes' /\ ProseIsAboutItsMembers'
  BY <1>0, <1>3 DEF CommunityInv, OneRowEach, RowsMatchNodes, ProseIsAboutItsMembers
<1> QED BY <1>0, <1>3, <1>6, <1>7, <1>8 DEF CommunityInv

\* Withdrawn edges change no row and no number.
LEMMA UndoStep ==
  ASSUME CommunityInv, NEW r \in Runs, Undo(r)
  PROVE  CommunityInv'
<1>0. CommunityInv
  OBVIOUS
<1>1. TypeOK /\ RowsMatchNodes
  BY <1>0 DEF CommunityInv
<1>2. /\ edges' = edges \ Links[r] /\ undone' = undone \cup {r} /\ r \in Undoable
      /\ nodes' = nodes /\ number' = number /\ rows' = rows /\ stage' = stage
      /\ found' = found /\ updated' = updated /\ todo' = todo /\ missed' = missed
  BY DEF Undo, runVars
<1>3. undone' # {}
  BY <1>2
<1>4. TypeOK' /\ edges' \subseteq nodes' \X nodes'
  BY <1>0, <1>1, <1>2 DEF TypeOK, CommunityInv
<1>5. ASSUME NEW b \in Runs PROVE Detected(b)' /\ ShownItsMembers(b)'
  BY <1>0, <1>2, <1>3 DEF CommunityInv, Detected, ShownItsMembers
<1>6. RowsMatchNodes'
  BY <1>1, <1>2, <1>3 DEF RowsMatchNodes
<1>7. OneRowEach' /\ ProseIsAboutItsMembers'
  BY <1>0, <1>2 DEF CommunityInv, OneRowEach, ProseIsAboutItsMembers
<1> QED BY <1>4, <1>5, <1>6, <1>7 DEF CommunityInv

\* The rows after a paragraph is filed: the same clusters, with the same numbers.
NameRow(t, row) == IF Addressed(row, t) THEN [row EXCEPT !.prose = {t.shown}] ELSE row

LEMMA NameRowLemma ==
  ASSUME NEW t \in Task, NEW row \in Row
  PROVE  /\ NameRow(t, row) \in Row
         /\ NameRow(t, row).members = row.members /\ NameRow(t, row).number = row.number
         /\ NameRow(t, row).prose = IF row.members = t.members THEN {t.shown} ELSE row.prose
BY DEF NameRow, Addressed, Row, Task

LEMMA NameStep ==
  ASSUME CommunityInv, NEW r \in Runs, Name(r)
  PROVE  /\ CommunityInv'
         /\ \A old \in rows : \A new \in rows' :
              old.members = new.members /\ old.prose # NoProse => new.prose # NoProse
<1>0. CommunityInv
  OBVIOUS
<1>1. TypeOK /\ RowsMatchNodes /\ OneRowEach /\ ProseIsAboutItsMembers /\ ShownItsMembers(r)
  BY <1>0 DEF CommunityInv
<1>2. PICK t \in todo[r] :
        /\ rows' = {NameRow(t, row) : row \in rows}
        /\ todo' = [todo EXCEPT ![r] = @ \ {t}]
  BY DEF Name, NameRow
<1>3. /\ nodes' = nodes /\ edges' = edges /\ number' = number /\ stage' = stage
      /\ found' = found /\ updated' = updated /\ missed' = missed /\ undone' = undone
  BY DEF Name
<1>4. t \in Task /\ t.shown = t.members /\ \A row \in rows : row \in Row
  BY <1>1 DEF TypeOK, ShownItsMembers
<1>5. \A row \in rows :
        /\ NameRow(t, row) \in Row /\ NameRow(t, row) \in rows'
        /\ NameRow(t, row).members = row.members /\ NameRow(t, row).number = row.number
        /\ NameRow(t, row).prose = IF row.members = t.members THEN {t.members} ELSE row.prose
  BY <1>2, <1>4, NameRowLemma
<1>6. ASSUME NEW new \in rows' PROVE \E row \in rows : new = NameRow(t, row)
  BY <1>2
<1>7. TypeOK'
  <2>1. rows' \subseteq Row /\ todo' \in [Runs -> SUBSET Task]
    BY <1>1, <1>2, <1>5, <1>6 DEF TypeOK
  <2> QED BY <1>1, <1>3, <2>1 DEF TypeOK
<1>8. ASSUME NEW b \in Runs PROVE Detected(b)' /\ ShownItsMembers(b)'
  <2>1. Detected(b) /\ ShownItsMembers(b)
    BY <1>0 DEF CommunityInv
  <2>2. todo'[b] \subseteq todo[b]
    BY <1>1, <1>2 DEF TypeOK
  <2> QED BY <1>3, <2>1, <2>2 DEF Detected, DrawnBy, ShownItsMembers
<1>9. OneRowEach'
  <2> SUFFICES ASSUME NEW a \in rows', NEW b \in rows', a.members = b.members PROVE a = b
    BY DEF OneRowEach
  <2>1. PICK x \in rows : a = NameRow(t, x)
    BY <1>6
  <2>2. PICK y \in rows : b = NameRow(t, y)
    BY <1>6
  <2>3. x = y
    BY <1>1, <1>5, <2>1, <2>2 DEF OneRowEach
  <2> QED BY <2>1, <2>2, <2>3
<1>10. ProseIsAboutItsMembers'
  <2> SUFFICES ASSUME NEW new \in rows' PROVE new.prose = NoProse \/ new.prose = {new.members}
    BY DEF ProseIsAboutItsMembers
  <2>1. PICK row \in rows : new = NameRow(t, row)
    BY <1>6
  <2>2. row.prose = NoProse \/ row.prose = {row.members}
    BY <1>1 DEF ProseIsAboutItsMembers
  <2> QED BY <1>5, <2>1, <2>2
<1>11. RowsMatchNodes'
  <2>1. \A row \in rows' : row.members = {n \in nodes : number[n] = row.number}
    <3> SUFFICES ASSUME NEW new \in rows'
                 PROVE  new.members = {n \in nodes : number[n] = new.number}
      OBVIOUS
    <3>1. PICK row \in rows : new = NameRow(t, row)
      BY <1>6
    <3>2. new.members = row.members /\ new.number = row.number
      BY <1>5, <3>1
    <3>3. row.members = {n \in nodes : number[n] = row.number}
      BY <1>1 DEF RowsMatchNodes
    <3> QED BY <3>2, <3>3
  <2>2. \A n \in nodes : \E row \in rows' : n \in row.members
    BY <1>1, <1>5 DEF RowsMatchNodes
  <2>3. {row.members : row \in rows'} = {row.members : row \in rows}
    <3>1. \A row \in rows' : \E x \in rows : x.members = row.members
      BY <1>5, <1>6
    <3>2. \A row \in rows : \E x \in rows' : x.members = row.members
      BY <1>5
    <3> QED BY <3>1, <3>2
  <2> QED BY <1>1, <1>3, <2>1, <2>2, <2>3 DEF RowsMatchNodes
<1>12. ASSUME NEW old \in rows, NEW new \in rows', old.members = new.members,
              old.prose # NoProse
       PROVE  new.prose # NoProse
  <2>1. PICK row \in rows : new = NameRow(t, row)
    BY <1>6
  <2>2. row = old
    BY <1>1, <1>5, <1>12, <2>1 DEF OneRowEach
  <2> QED BY <1>5, <1>12, <2>1, <2>2 DEF NoProse
<1> QED BY <1>0, <1>3, <1>7, <1>8, <1>9, <1>10, <1>11, <1>12 DEF CommunityInv

\* The commit replaces every row: those of clusters that are gone are deleted, and the
\* others are the rows of what it has found.
LEMMA CommitStep ==
  ASSUME CommunityInv, NEW r \in Runs, Commit(r)
  PROVE  /\ CommunityInv'
         /\ \A old \in rows : \A new \in rows' :
              old.members = new.members /\ old.prose # NoProse => new.prose # NoProse
<1> DEFINE S == found[r]
           N == nodes \cup Brings[r]
<1>0. CommunityInv
  OBVIOUS
<1>1. TypeOK /\ Detected(r) /\ OneRowEach /\ ProseIsAboutItsMembers
  BY <1>0 DEF CommunityInv
<1>2. /\ stage[r] = "commit" /\ ~missed[r]
      /\ nodes' = N /\ edges' = edges \cup DrawnBy(r)
      /\ number' = [n \in Nodes |-> IF n \in UNION S THEN Numbered(S, ClusterOf(S, n))
                                                     ELSE number[n]]
      /\ missed' = [b \in Runs |-> TRUE] /\ stage' = [stage EXCEPT ![r] = "ask"]
      /\ found' = found /\ updated' = updated /\ todo' = todo /\ undone' = undone
  BY DEF Commit, Goto
<1>3. rows' = {RowOf(r, C) : C \in S}
  <2>1. {row \in rows : row.members \notin S \cup Doom(r)} = {}
    BY DEF Doom
  <2> QED BY <2>1 DEF Commit
<1>4. Partition(S, N) /\ S \in SUBSET SUBSET Nodes
  BY <1>1, <1>2 DEF Detected, TypeOK, Partition
<1>5. undone = {} => S = Clusters(N, edges \cup DrawnBy(r))
  BY <1>1, <1>2 DEF Detected
<1>6. \A C \in S : Numbered(S, C) \in Nat
  BY <1>4, NumberedLemma
<1>7. ASSUME NEW C \in S, NEW old \in rows, old.members = C PROVE Kept(C) = {old}
  BY <1>1, <1>7 DEF Kept, OneRowEach
<1>8. ASSUME NEW C \in S
      PROVE  /\ RowOf(r, C).members = C /\ RowOf(r, C).number = Numbered(S, C)
             /\ RowOf(r, C).prose \in {NoProse, {C}}
             /\ \A old \in rows : old.members = C => RowOf(r, C).prose = old.prose
             /\ RowOf(r, C) \in Row
  <2>1. RowOf(r, C).members = C /\ RowOf(r, C).number = Numbered(S, C)
    BY DEF RowOf
  <2>2. RowOf(r, C).prose = IF Kept(C) = {} THEN NoProse ELSE (CHOOSE row \in Kept(C) : TRUE).prose
    BY DEF RowOf
  <2>3. \A old \in rows : old.members = C => RowOf(r, C).prose = old.prose
    BY <1>7, <2>2
  <2>4. RowOf(r, C).prose \in {NoProse, {C}}
    <3>1. CASE Kept(C) = {}
      BY <2>2, <3>1
    <3>2. CASE Kept(C) # {}
      <4>1. PICK old \in rows : old.members = C
        BY <3>2 DEF Kept
      <4>2. old.prose = NoProse \/ old.prose = {C}
        BY <1>1, <4>1 DEF ProseIsAboutItsMembers
      <4> QED BY <2>3, <4>1, <4>2
    <3> QED BY <3>1, <3>2
  <2>5. RowOf(r, C) \in Row
    <3>1. C \in SUBSET Nodes /\ Numbered(S, C) \in Nat /\ RowOf(r, C).prose \in SUBSET SUBSET Nodes
      BY <1>4, <1>6, <2>4 DEF NoProse
    <3> QED BY <2>2, <3>1 DEF RowOf, Row
  <2> QED BY <2>1, <2>3, <2>4, <2>5
<1>9. N \in SUBSET Nodes /\ DrawnBy(r) \in SUBSET (N \X N)
  <2>1. N \in SUBSET Nodes /\ Links[r] \in SUBSET (Nodes \X Nodes)
    BY <1>1, CommunityAssumption DEF TypeOK
  <2> QED BY <2>1, DrawnLemma DEF DrawnBy
<1>10. UNION S = N /\ \A n \in N : ClusterOf(S, n) \in S
  <2>1. \A n \in N : ClusterOf(S, n) \in S
    BY <1>4, ClusterOfLemma
  <2> QED BY <1>4, <2>1 DEF Partition
<1>11. TypeOK'
  <2>1. number' \in [Nodes -> Nat]
    <3>1. number \in [Nodes -> Nat]
      BY <1>1 DEF TypeOK
    <3>2. \A n \in Nodes : n \in UNION S => Numbered(S, ClusterOf(S, n)) \in Nat
      BY <1>6, <1>10
    <3> QED BY <1>2, <3>1, <3>2
  <2>2. rows' \subseteq Row
    BY <1>3, <1>8
  <2> QED BY <1>1, <1>2, <1>9, <2>1, <2>2 DEF TypeOK, Stages
<1>12. edges' \subseteq nodes' \X nodes'
  BY <1>0, <1>2, <1>9 DEF CommunityInv
<1>13. ASSUME NEW b \in Runs PROVE Detected(b)' /\ ShownItsMembers(b)'
  <2>1. Detected(b) /\ ShownItsMembers(b)
    BY <1>0 DEF CommunityInv
  <2>2. missed'[b] /\ (stage'[b] = "update" => stage[b] = "update")
    BY <1>1, <1>2 DEF TypeOK
  <2> QED BY <1>2, <2>1, <2>2 DEF Detected, ShownItsMembers
<1>14. OneRowEach'
  BY <1>3, <1>8 DEF OneRowEach
<1>15. ProseIsAboutItsMembers'
  BY <1>3, <1>8 DEF ProseIsAboutItsMembers
<1>16. RowsMatchNodes'
  <2>1. \A n \in N : number'[n] = Numbered(S, ClusterOf(S, n))
    BY <1>2, <1>9, <1>10
  <2>2. \A C \in S : C = {n \in N : number'[n] = Numbered(S, C)}
    BY <1>4, <2>1, MembersLemma
  <2>3. \A row \in rows' : row.members = {n \in nodes' : number'[n] = row.number}
    <3> SUFFICES ASSUME NEW row \in rows'
                 PROVE  row.members = {n \in N : number'[n] = row.number}
      BY <1>2
    <3>1. PICK C \in S : row = RowOf(r, C)
      BY <1>3
    <3>2. row.members = C /\ row.number = Numbered(S, C)
      BY <1>8, <3>1
    <3> QED BY <2>2, <3>2
  <2>4. {row.members : row \in rows'} = S
    <3>1. \A row \in rows' : row.members \in S
      BY <1>3, <1>8
    <3>2. \A C \in S : RowOf(r, C) \in rows' /\ RowOf(r, C).members = C
      BY <1>3, <1>8
    <3> QED BY <3>1, <3>2
  <2>5. \A n \in nodes' : \E row \in rows' : n \in row.members
    BY <1>2, <1>10, <2>4
  <2>6. undone' = {} => S = Clusters(nodes', edges')
    BY <1>2, <1>5
  <2> QED BY <2>3, <2>4, <2>5, <2>6 DEF RowsMatchNodes
<1>17. ASSUME NEW old \in rows, NEW new \in rows', old.members = new.members,
              old.prose # NoProse
       PROVE  new.prose # NoProse
  <2>1. PICK C \in S : new = RowOf(r, C)
    BY <1>3
  <2> QED BY <1>8, <1>17, <2>1
<1> QED BY <1>11, <1>12, <1>13, <1>14, <1>15, <1>16, <1>17 DEF CommunityInv

\* The steps that leave the rows leave their prose.
LEMMA KeptLemma ==
  ASSUME CommunityInv, rows' = rows
  PROVE  \A old \in rows : \A new \in rows' :
           old.members = new.members /\ old.prose # NoProse => new.prose # NoProse
BY DEF CommunityInv, OneRowEach

LEMMA StepHolds ==
  ASSUME CommunityInv, [Next]_vars
  PROVE  /\ CommunityInv'
         /\ \A old \in rows : \A new \in rows' :
              old.members = new.members /\ old.prose # NoProse => new.prose # NoProse
<1>0. CommunityInv
  OBVIOUS
<1>1. ASSUME NEW r \in Runs,
             Detect(r) \/ Update(r) \/ BreakDeadlock(r) \/ Abort(r) \/ Ask(r) \/ Skip(r)
               \/ EndNaming(r) \/ Undo(r)
      PROVE  CommunityInv' /\ rows' = rows
  <2>1. CommunityInv'
    BY <1>0, <1>1, DetectStep, UpdateStep, LostStep, AskStep, SkipStep, EndNamingStep, UndoStep
  <2>2. rows' = rows
    BY <1>1 DEF Detect, Update, BreakDeadlock, Abort, Ask, Skip, EndNaming, Undo, graphVars
  <2> QED BY <2>1, <2>2
<1>2. ASSUME NEW r \in Runs, Commit(r) \/ Name(r)
      PROVE  /\ CommunityInv'
             /\ \A old \in rows : \A new \in rows' :
                  old.members = new.members /\ old.prose # NoProse => new.prose # NoProse
  BY <1>0, <1>2, CommitStep, NameStep
<1>3. CASE UNCHANGED vars
  <2>1. /\ nodes' = nodes /\ edges' = edges /\ number' = number /\ rows' = rows
        /\ stage' = stage /\ found' = found /\ updated' = updated /\ todo' = todo
        /\ missed' = missed /\ undone' = undone
    BY <1>3 DEF vars, graphVars, runVars
  <2>2. TypeOK' /\ \A r \in Runs : Detected(r)' /\ ShownItsMembers(r)'
    <3>1. TypeOK'
      BY <1>0, <2>1 DEF CommunityInv, TypeOK
    <3>2. ASSUME NEW r \in Runs PROVE Detected(r)' /\ ShownItsMembers(r)'
      <4>1. Detected(r) /\ ShownItsMembers(r)
        BY <1>0 DEF CommunityInv
      <4>2. DrawnBy(r)' = DrawnBy(r)
        BY <2>1 DEF DrawnBy
      <4> QED BY <2>1, <4>1, <4>2 DEF Detected, ShownItsMembers
    <3> QED BY <3>1, <3>2
  <2>3. OneRowEach' /\ RowsMatchNodes' /\ ProseIsAboutItsMembers'
    BY <1>0, <2>1 DEF CommunityInv, OneRowEach, RowsMatchNodes, ProseIsAboutItsMembers
  <2> QED BY <1>0, <2>1, <2>2, <2>3, KeptLemma DEF CommunityInv
<1> QED BY <1>0, <1>1, <1>2, <1>3, KeptLemma DEF Next

LEMMA CommunityInvHolds == Spec => []CommunityInv
<1>1. CommunityInv /\ [Next]_vars => CommunityInv'
  BY StepHolds
<1> QED BY InitHolds, <1>1, PTL DEF Spec

-----------------------------------------------------------------------------
(* The theorems.                                                             *)

\* Nodes, rows and tasks have their types, and a run is undone only when it may be.
THEOREM CommunitiesTyped == Spec => []TypeOK
<1>1. CommunityInv => TypeOK
  BY DEF CommunityInv
<1> QED BY CommunityInvHolds, <1>1, PTL

\* The rows of the list are the clusters of the graph, each under a number that exactly
\* its members carry, however many compiles detect at once and whatever is undone.
THEOREM ListMatchesGraph == Spec => []RowsMatchNodes
<1>1. CommunityInv => RowsMatchNodes
  BY DEF CommunityInv
<1> QED BY CommunityInvHolds, <1>1, PTL

\* A cluster's prose was written from the nodes that are in it now.
THEOREM ProseIsCurrent == Spec => []ProseIsAboutItsMembers
<1>1. CommunityInv => ProseIsAboutItsMembers
  BY DEF CommunityInv
<1> QED BY CommunityInvHolds, <1>1, PTL

\* No step takes the prose of a cluster that is found again.
THEOREM NoNameIsLost == Spec => NamesAreKept
<1>1. CommunityInv /\ [Next]_vars =>
        [\A old \in rows : \A new \in rows' :
           old.members = new.members /\ old.prose # NoProse => new.prose # NoProse]_vars
  BY StepHolds
<1> QED BY CommunityInvHolds, <1>1, PTL DEF Spec, NamesAreKept

=============================================================================
