------------------------------ MODULE Communities ------------------------------
(***************************************************************************)
(* The clusters of the graph and the prose that names them: services/      *)
(* clustering.py detect_communities, which runs inside the transaction of  *)
(* apply_compile; services/communities.py and its two endpoints of         *)
(* internal.py; and the agent's step nameClusters, which asks for the      *)
(* clusters without prose and writes some, minutes during which other      *)
(* compiles reshape them.                                                  *)
(*                                                                         *)
(* A row is named by its fingerprint, here the set of its members. The     *)
(* number a cluster has at the moment is also what its nodes carry, and    *)
(* the only way from a row to its nodes. Prose is the set of nodes it was  *)
(* written from. Louvain is external: seeded, so a function of the graph;  *)
(* connected components stand for what it finds. So is the database, which *)
(* is CockroachDB: a row an open transaction has updated makes the next    *)
(* one that updates it wait, a cycle of waits is an error for one of them, *)
(* and a transaction that writes what it has read commits only if nothing  *)
(* of that was written since.                                              *)
(***************************************************************************)
EXTENDS Naturals, FiniteSets

CONSTANTS
  Nodes,        \* concepts: numbers, in the order the graph lists them
  Runs,         \* compiles
  Brings,       \* per run: the nodes it makes
  Links,        \* per run: the edges it draws, pairs of nodes
  MinNodes,     \* MIN_SUMMARY_NODES
  Before,       \* the runs compiled, one after the other, before the model starts
  MaxNamed,     \* the clusters one compile may name
  Undoable      \* bound: the runs a reader may undo

ASSUME CommunityAssumption ==
  /\ Nodes \subseteq Nat /\ IsFiniteSet(Nodes)
  /\ Brings \in [Runs -> SUBSET Nodes] /\ Links \in [Runs -> SUBSET (Nodes \X Nodes)]
  /\ MinNodes \in Nat /\ MaxNamed \in Nat \ {0}
  /\ Undoable \subseteq Runs /\ Before \subseteq Runs

VARIABLES
  nodes,        \* graph_nodes, committed
  edges,        \* graph_edges that are not withdrawn
  number,       \* graph_nodes.community, 0 for none
  rows,         \* graph_communities
  stage,        \* how far a compile is
  found,        \* the clusters its detection found
  updated,      \* those of them it has written to their nodes
  todo,         \* the clusters it names: members, number, and what was shown of them
  missed,       \* another compile was committed since it looked
  undone        \* history: runs whose edges were withdrawn

graphVars == <<nodes, edges, number, rows>>
runVars   == <<stage, found, updated, todo, missed>>
vars == <<graphVars, runVars, undone>>

Stages == {"ready", "update", "commit", "lost", "ask", "name", "done"}

\* The prose of a row: none, or what it was written from.
NoProse == {}
Row  == [members : SUBSET Nodes, number : Nat, prose : SUBSET SUBSET Nodes]
Task == [members : SUBSET Nodes, number : Nat, shown : SUBSET Nodes]

TypeOK ==
  /\ nodes \subseteq Nodes
  /\ number \in [Nodes -> Nat]
  /\ rows \subseteq Row
  /\ stage \in [Runs -> Stages]
  /\ found \in [Runs -> SUBSET SUBSET Nodes]
  /\ updated \in [Runs -> SUBSET SUBSET Nodes]
  /\ todo \in [Runs -> SUBSET Task]
  /\ missed \in [Runs -> BOOLEAN]
  /\ undone \subseteq Undoable

Closed(C, E) == \A e \in E : e[1] \in C <=> e[2] \in C

\* build_graph adds every node, also those without an edge.
Clusters(N, E) ==
  {C \in (SUBSET N) \ {{}} :
     Closed(C, E) /\ \A D \in (SUBSET C) \ {{}, C} : ~Closed(D, E)}

\* assign_communities numbers them by size.
Least(C)     == CHOOSE n \in C : \A m \in C : n <= m
Larger(C, D) == \/ Cardinality(C) > Cardinality(D)
                \/ Cardinality(C) = Cardinality(D) /\ Least(C) < Least(D)

Numbered(S, C)  == 1 + Cardinality({D \in S : Larger(D, C)})
ClusterOf(S, n) == CHOOSE C \in S : n \in C

Init ==
  LET N == UNION {Brings[r] : r \in Before}
      E == {e \in UNION {Links[r] : r \in Before} : {e[1], e[2]} \subseteq N}
      S == Clusters(N, E)
  IN  /\ nodes = N /\ edges = E
      /\ number = [n \in Nodes |-> IF n \in N THEN Numbered(S, ClusterOf(S, n)) ELSE 0]
      /\ rows = {[members |-> C, number |-> Numbered(S, C), prose |-> NoProse] : C \in S}
      /\ stage = [r \in Runs |-> IF r \in Before THEN "done" ELSE "ready"]
      /\ found = [r \in Runs |-> {}]
      /\ updated = [r \in Runs |-> {}]
      /\ todo = [r \in Runs |-> {}]
      /\ missed = [r \in Runs |-> FALSE]
      /\ undone = {}

Goto(r, s) == stage' = [stage EXCEPT ![r] = s]

-----------------------------------------------------------------------------
(* Inside apply_compile.                                                     *)

\* The nodes and edges of the compile are written, and the graph is read: what is
\* committed and what this transaction wrote. An edge to a node of a page that is not
\* there was not drawn.
DrawnBy(r) == {e \in Links[r] : {e[1], e[2]} \subseteq nodes \cup Brings[r]}

Detect(r) ==
  LET S == Clusters(nodes \cup Brings[r], edges \cup DrawnBy(r))
  IN  /\ stage[r] = "ready"
      /\ found' = [found EXCEPT ![r] = S]
      /\ updated' = [updated EXCEPT ![r] = {}]
      /\ missed' = [missed EXCEPT ![r] = FALSE]
      /\ Goto(r, IF S = {} THEN "commit" ELSE "update")
      /\ UNCHANGED <<graphVars, todo, undone>>

\* The largest cluster not yet written.
Following(r) ==
  CHOOSE C \in found[r] \ updated[r] : \A D \in (found[r] \ updated[r]) \ {C} : Larger(C, D)

\* The node rows an open transaction has updated, and the ones it updates next.
Held(r)  == IF stage[r] \in {"update", "commit"} THEN UNION updated[r] ELSE {}
Wants(r) == IF stage[r] = "update" THEN Following(r) ELSE {}

WaitsFor(r, b) == b # r /\ Wants(r) \cap Held(b) # {}

\* One UPDATE per cluster. Its nodes are locked until the commit.
Update(r) ==
  /\ stage[r] = "update"
  /\ ~\E b \in Runs : WaitsFor(r, b)
  /\ updated' = [updated EXCEPT ![r] = @ \cup {Following(r)}]
  /\ IF found[r] \subseteq updated'[r] THEN Goto(r, "commit") ELSE UNCHANGED stage
  /\ UNCHANGED <<graphVars, found, todo, missed, undone>>

\* Two transactions that wait for each other's nodes: the error ends in the except of
\* apply_compile, but its transaction is aborted, and the merge with it.
BreakDeadlock(r) ==
  /\ \E b \in Runs : WaitsFor(r, b) /\ WaitsFor(b, r)
  /\ Goto(r, "lost")
  /\ UNCHANGED <<graphVars, found, updated, todo, missed, undone>>

\* Mutant: the rows of clusters that are gone stay.
DoomNone(r) == {}

\* _record_communities deletes the rows it has not found.
Doom(r) == {row.members : row \in rows} \ found[r]

Kept(C) == {row \in rows : row.members = C}

\* Mutant: a row is made anew on every save.
FreshRow(r, C) == [members |-> C, number |-> Numbered(found[r], C), prose |-> NoProse]

\* A row whose fingerprint is found again keeps its prose and gets the number of now.
RowOf(r, C) ==
  [members |-> C, number |-> Numbered(found[r], C),
   prose |-> IF Kept(C) = {} THEN NoProse ELSE (CHOOSE row \in Kept(C) : TRUE).prose]

\* What it found is written to nodes and rows, and the rest of the merge with it.
Commit(r) ==
  /\ stage[r] = "commit" /\ ~missed[r]
  /\ nodes' = nodes \cup Brings[r]
  /\ edges' = edges \cup DrawnBy(r)
  /\ number' = [n \in Nodes |->
                  IF n \in UNION found[r] THEN Numbered(found[r], ClusterOf(found[r], n))
                                         ELSE number[n]]
  /\ rows' = {row \in rows : row.members \notin found[r] \cup Doom(r)}
               \cup {RowOf(r, C) : C \in found[r]}
  /\ missed' = [b \in Runs |-> TRUE]
  /\ Goto(r, "ask")
  /\ UNCHANGED <<found, updated, todo, undone>>

\* An error in another statement, or because of what it missed: the transaction ends
\* without a trace.
Abort(r) ==
  /\ stage[r] \in {"update", "commit"}
  /\ Goto(r, "lost")
  /\ UNCHANGED <<graphVars, found, updated, todo, missed, undone>>

\* revert_page withdraws the run's edges. The clusters are not detected again.
Undo(r) ==
  /\ r \in Undoable \ undone
  /\ stage[r] \in {"ask", "name", "done"}
  /\ edges' = edges \ Links[r]
  /\ undone' = undone \cup {r}
  /\ UNCHANGED <<nodes, number, rows, runVars>>

-----------------------------------------------------------------------------
(* nameClusters.                                                             *)

Unnamed(row) == row.prose = NoProse /\ Cardinality(row.members) >= MinNodes

\* What a naming is shown of a cluster: labels and pages of the nodes with its number.
Shown(row) == {n \in nodes : number[n] = row.number}

\* unsummarised, one reading of the graph: the largest clusters without prose.
Ask(r) ==
  /\ stage[r] = "ask"
  /\ LET open == {row \in rows : Unnamed(row)}
     IN  \E S \in SUBSET open :
           /\ Cardinality(S) = (IF Cardinality(open) < MaxNamed THEN Cardinality(open) ELSE MaxNamed)
           /\ \A s \in S : \A t \in open \ S : Cardinality(s.members) >= Cardinality(t.members)
           /\ todo' = [todo EXCEPT ![r] =
                         {[members |-> s.members, number |-> s.number, shown |-> Shown(s)] : s \in S}]
           /\ Goto(r, IF S = {} THEN "done" ELSE "name")
  /\ UNCHANGED <<graphVars, found, updated, missed, undone>>

\* Mutant: the prose is filed under the number.
AddressedByNumber(row, t) == row.number = t.number

Addressed(row, t) == row.members = t.members

\* The agent names one cluster and store_summary files it, or drops it when no row has
\* the fingerprint any more.
Name(r) ==
  /\ stage[r] = "name"
  /\ \E t \in todo[r] :
       /\ rows' = {IF Addressed(row, t) THEN [row EXCEPT !.prose = {t.shown}] ELSE row : row \in rows}
       /\ todo' = [todo EXCEPT ![r] = @ \ {t}]
  /\ UNCHANGED <<nodes, edges, number, stage, found, updated, missed, undone>>

\* The model does not answer: the next save picks the cluster up again.
Skip(r) ==
  /\ stage[r] = "name"
  /\ \E t \in todo[r] : todo' = [todo EXCEPT ![r] = @ \ {t}]
  /\ UNCHANGED <<graphVars, stage, found, updated, missed, undone>>

\* All are named, or a call of the API fails and the rest are left.
EndNaming(r) ==
  /\ stage[r] \in {"ask", "name"}
  /\ Goto(r, "done")
  /\ todo' = [todo EXCEPT ![r] = {}]
  /\ UNCHANGED <<graphVars, found, updated, missed, undone>>

Next ==
  \E r \in Runs :
    \/ Detect(r) \/ Update(r) \/ BreakDeadlock(r) \/ Commit(r) \/ Abort(r)
    \/ Ask(r) \/ Name(r) \/ Skip(r) \/ EndNaming(r)
    \/ Undo(r)

Spec == Init /\ [][Next]_vars

-----------------------------------------------------------------------------
(* Properties.                                                               *)

\* The prose a cluster shows was written from the nodes that are in it now: prose for
\* a set of nodes that has since changed "reads as current" (clustering.py:241). It
\* holds although saves land while a summary is being written.
ProseIsAboutItsMembers ==
  \A row \in rows : row.prose = NoProse \/ row.prose = {row.members}

\* The list and the graph agree about the clusters (communities.py overview), however
\* many compiles detect at once: a row per cluster, its number on exactly its members,
\* every node in one, and, until an undo, the clusters those of the graph.
RowsMatchNodes ==
  /\ \A row \in rows : row.members = {n \in nodes : number[n] = row.number}
  /\ \A n \in nodes : \E row \in rows : n \in row.members
  /\ undone = {} => {row.members : row \in rows} = Clusters(nodes, edges)

\* A cluster that is found again keeps its paragraph (clustering.py fingerprint: same
\* members, same paragraph, no model call), whoever else is detecting or naming.
NamesAreKept ==
  [][\A old \in rows : \A new \in rows' :
       old.members = new.members /\ old.prose # NoProse => new.prose # NoProse]_vars

=============================================================================
