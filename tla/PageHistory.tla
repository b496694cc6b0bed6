----------------------------- MODULE PageHistory -----------------------------
(***************************************************************************)
(* The pages of a wiki, their revisions and claims, and the graph edges    *)
(* their compiles draw (apps/api/app/services/compile.py): what a workflow *)
(* reads when it matches a page, what /internal/apply-compile writes       *)
(* minutes later, and what undo takes back.                                *)
(*                                                                         *)
(* A claim has an id of its own in every revision: it is named here by its *)
(* page, its revision and its position. A page is named by its slug. Each  *)
(* compile contributes one claim, which stands for all of its claims, and  *)
(* a body is the set of runs whose material its prose tells. The agent's   *)
(* model is trusted to write the page its prompt asks for from what it is  *)
(* shown; what it cannot know is what happened since.                      *)
(***************************************************************************)
EXTENDS Naturals, Sequences, FiniteSets

CONSTANTS
  Runs, Pages, Edges,
  NoRun,
  Flows,        \* workflow executions
  RunOf,        \* the run each of them compiles
  MaxInFlight,  \* executions at once (the worker's max_jobs)
  MaxReverts,   \* bound: how often a reader presses undo
  Careful       \* the model proposes only free slugs and disputes only with an id

ASSUME RunOfAssumption   == RunOf \in [Flows -> Runs] /\ NoRun \notin Runs
ASSUME LimitsAssumption  == MaxInFlight \in Nat /\ MaxReverts \in Nat /\ Careful \in BOOLEAN

VARIABLES
  log,         \* per page: its revisions, wiki_page_revisions and wiki_claims
  current,     \* wiki_pages.current_revision_id, 0 while the page does not exist
  author,      \* graph_edges.created_by_run_id, NoRun while the edge does not exist
  withdrawn,   \* graph_edges.withdrawn_at is set
  stage,       \* "ready", "drafted" between match and persist, "done"
  draft,       \* what the execution will post to apply-compile
  reverts,     \* undos so far
  asserted     \* history: the runs whose compile asserted the edge

pageVars == <<log, current>>
edgeVars == <<author, withdrawn, asserted>>
flowVars == <<stage, draft>>
vars == <<pageVars, edgeVars, flowVars, reverts>>

Statuses == {"asserted", "disputed"}

\* against is the position of the claim it contradicts, 0 when its stance is "supports".
Claim    == [by : Runs, status : Statuses, against : Nat]
Revision == [run : Runs, base : Nat, read : Nat, claims : Seq(Claim),
             body : SUBSET Runs]
Draft    == [page : Pages, read : Nat, body : SUBSET Runs,
             status : Statuses, against : Nat, edges : SUBSET Edges]

Blank    == [run |-> NoRun, base |-> 0, read |-> 0, claims |-> <<>>, body |-> {}]
Live(p)  == IF current[p] = 0 THEN Blank ELSE log[p][current[p]]

TypeOK ==
  /\ log \in [Pages -> Seq(Revision)]
  /\ current \in [Pages -> Nat]
  /\ \A p \in Pages : current[p] = 0 \/ current[p] \in DOMAIN log[p]
  /\ author \in [Edges -> Runs \cup {NoRun}]
  /\ withdrawn \in [Edges -> BOOLEAN]
  /\ asserted \in [Edges -> SUBSET Runs]
  /\ stage \in [Flows -> {"ready", "drafted", "done"}]
  /\ draft \in [Flows -> Draft \cup {Blank}]
  /\ \A f \in Flows : stage[f] = "drafted" => draft[f] \in Draft
  /\ reverts \in 0..MaxReverts

Init ==
  /\ log = [p \in Pages |-> <<>>]
  /\ current = [p \in Pages |-> 0]
  /\ author = [e \in Edges |-> NoRun]
  /\ withdrawn = [e \in Edges |-> FALSE]
  /\ asserted = [e \in Edges |-> {}]
  /\ stage = [f \in Flows |-> "ready"]
  /\ draft = [f \in Flows |-> Blank]
  /\ reverts = 0

-----------------------------------------------------------------------------
(* The agent: match reads the live revision, compile and link draft from it. *)

\* A dispute names a claim that was shown; a careless one names none that exists.
StatusFor(i) == IF i # 0 THEN {"disputed"} ELSE IF Careful THEN {"asserted"} ELSE Statuses

\* Mutant: the prompt leaves out the body of the page to merge into.
DraftsFromClaimsOnly(f, p) ==
  UNION { { [page |-> p, read |-> current[p], body |-> {RunOf[f]},
             status |-> s, against |-> i, edges |-> E] :
              s \in StatusFor(i), E \in SUBSET Edges } :
            i \in 0 .. Len(Live(p).claims) }

MergeDrafts(f, p) ==
  UNION { { [page |-> p, read |-> current[p], body |-> Live(p).body \cup {RunOf[f]},
             status |-> s, against |-> i, edges |-> E] :
              s \in StatusFor(i), E \in SUBSET Edges } :
            i \in 0 .. Len(Live(p).claims) }

CreateDrafts(f, p) ==
  { [page |-> p, read |-> 0, body |-> {RunOf[f]},
     status |-> s, against |-> 0, edges |-> E] :
      s \in StatusFor(0), E \in SUBSET Edges }

InFlight == {f \in Flows : stage[f] = "drafted"}

Match(f) ==
  /\ stage[f] = "ready"
  /\ Cardinality(InFlight) < MaxInFlight
  /\ \E p \in Pages :
       \/ current[p] # 0 /\ \E d \in MergeDrafts(f, p) : draft' = [draft EXCEPT ![f] = d]
       \/ (Careful => current[p] = 0)
            /\ \E d \in CreateDrafts(f, p) : draft' = [draft EXCEPT ![f] = d]
  /\ stage' = [stage EXCEPT ![f] = "drafted"]
  /\ UNCHANGED <<pageVars, edgeVars, reverts>>

\* The workflow fails after the match: nothing of it was written.
Abandon(f) ==
  /\ stage[f] = "drafted"
  /\ stage' = [stage EXCEPT ![f] = "done"]
  /\ draft' = [draft EXCEPT ![f] = Blank]
  /\ UNCHANGED <<pageVars, edgeVars, reverts>>

-----------------------------------------------------------------------------
(* The API: apply_compile.                                                   *)

\* by_origin knows the claims of the revision that is live now, no others.
Found(d) == d.against # 0 /\ d.read = current[d.page]

\* Mutants: the copy falls back to the column's default status; the older side is
\* not flagged; the newest revision is carried instead of the live one.
CarryAsAsserted(d) ==
  LET old == Live(d.page).claims
  IN  [i \in DOMAIN old |->
         [old[i] EXCEPT !.status = IF Found(d) /\ i = d.against THEN "disputed" ELSE "asserted"]]
CarryUnflagged(d) == Live(d.page).claims
CarryFromNewest(d) ==
  IF log[d.page] = <<>> THEN <<>> ELSE log[d.page][Len(log[d.page])].claims

\* _carry_forward_claims, and the copy that the new claim contradicts is flagged.
CarryForward(d) ==
  LET old == Live(d.page).claims
  IN  [i \in DOMAIN old |->
         IF Found(d) /\ i = d.against THEN [old[i] EXCEPT !.status = "disputed"] ELSE old[i]]

AddNewClaims(d, r) ==
  Append(CarryForward(d),
         [by |-> r, status |-> d.status, against |-> IF Found(d) THEN d.against ELSE 0])

\* An edge that exists keeps its author, and is no longer withdrawn.
ApplyGraph(E, r) ==
  /\ author' = [e \in Edges |-> IF e \in E /\ author[e] = NoRun THEN r ELSE author[e]]
  /\ withdrawn' = [e \in Edges |-> withdrawn[e] /\ e \notin E]
  /\ asserted' = [e \in Edges |-> IF e \in E THEN asserted[e] \cup {r} ELSE asserted[e]]

\* next_no counts every revision of the page, the undone ones included.
NextNo(p) == Len(log[p]) + 1

AddRevision(p, rev) ==
  /\ log' = [log EXCEPT ![p] = Append(@, rev)]
  /\ current' = [current EXCEPT ![p] = NextNo(p)]

\* A create whose slug is taken lands on the page that has it.
Apply(f) ==
  LET d == draft[f]
      p == d.page
      rev == [run |-> RunOf[f], base |-> current[p], read |-> d.read,
              claims |-> AddNewClaims(d, RunOf[f]), body |-> d.body]
  IN  /\ stage[f] = "drafted"
      /\ AddRevision(p, rev)
      /\ ApplyGraph(d.edges, RunOf[f])
      /\ stage' = [stage EXCEPT ![f] = "done"]
      /\ draft' = [draft EXCEPT ![f] = Blank]
      /\ UNCHANGED reverts

-----------------------------------------------------------------------------
(* The API: revert_page, to any revision the page has.                       *)

RunsOf(p, S) == {log[p][i].run : i \in S}
Undone(p, n) == RunsOf(p, {i \in DOMAIN log[p] : i > n})
\* Mutant: the exclusive boundary edge_visible_at warns of.
KeptBefore(p, n) == RunsOf(p, {i \in DOMAIN log[p] : i < n})
Kept(p, n)   == RunsOf(p, {i \in DOMAIN log[p] : i <= n})

\* Mutant: withdrawal is one-way, as it used to be.
WithdrawOnly(p, n) ==
  withdrawn' = [e \in Edges |-> withdrawn[e] \/ author[e] \in Undone(p, n)]

\* First the withdrawals, then the restorations: a run on both sides is kept.
Reconcile(p, n) ==
  withdrawn' = [e \in Edges |-> /\ withdrawn[e] \/ author[e] \in Undone(p, n)
                                /\ author[e] \notin Kept(p, n)]

Revert(p, n) ==
  /\ reverts < MaxReverts
  /\ n \in DOMAIN log[p]
  /\ Reconcile(p, n)
  /\ current' = [current EXCEPT ![p] = n]
  /\ reverts' = reverts + 1
  /\ UNCHANGED <<log, author, asserted, flowVars>>

Next ==
  \/ \E f \in Flows : Match(f) \/ Abandon(f) \/ Apply(f)
  \/ \E p \in Pages : \E n \in DOMAIN log[p] : Revert(p, n)

Spec == Init /\ [][Next]_vars

-----------------------------------------------------------------------------
(* Properties.                                                               *)

\* Undo is exact because nothing rewrites a revision: no step changes one that
\* exists, its claims' statuses included (a contradiction flags the copy of the
\* claim it meets, never the original).
HistoryIsImmutable ==
  [][\A p \in Pages : \A n \in DOMAIN log[p] :
       n \in DOMAIN log'[p] /\ log'[p][n] = log[p][n]]_vars

\* A merge drops nothing: a revision has, at its position, every claim of the
\* revision that was live when it was applied, whatever the compile had read, and
\* a dispute is never settled by a later source.
MergeLosesNothing ==
  \A p \in Pages : \A n \in DOMAIN log[p] :
    LET b == log[p][n].base
    IN  b # 0 =>
          /\ b < n
          /\ \A i \in DOMAIN log[p][b].claims :
               /\ i \in DOMAIN log[p][n].claims
               /\ log[p][n].claims[i].by = log[p][b].claims[i].by
               /\ log[p][n].claims[i].against = log[p][b].claims[i].against
               /\ log[p][b].claims[i].status = "disputed"
                    => log[p][n].claims[i].status = "disputed"

\* The disputed claims of a list that contradict none of it and that none contradicts:
\* open_disputes lists them by their status, and the reader sees one side of each.
OneSided(claims) ==
  {i \in DOMAIN claims :
     /\ claims[i].status = "disputed"
     /\ claims[i].against = 0
     /\ \A j \in DOMAIN claims : claims[j].against # i}

ClaimsBefore(p, n) == IF log[p][n].base = 0 THEN <<>> ELSE log[p][log[p][n].base].claims

\* A claim recorded as contradicting another is disputed, and so is the other, in
\* every revision that has them. A dispute can have one side only, and then for good:
\* a contradiction that a compile found in a revision that is live no more when it
\* lands (by_origin has no such claim) leaves the new claim disputed and flags none.
\* No dispute is one-sided for another reason: not one that was carried forward with
\* both of its sides, and not one found in the revision the compile landed on, unless
\* the model named a claim that it was not shown.
ContradictionFlagsBoth ==
  \A p \in Pages : \A n \in DOMAIN log[p] :
    LET claims == log[p][n].claims
    IN  /\ \A i \in DOMAIN claims :
             claims[i].against # 0 =>
               /\ claims[i].against < i
               /\ claims[i].status = "disputed"
               /\ claims[claims[i].against].status = "disputed"
        /\ \A i \in OneSided(claims) \ OneSided(ClaimsBefore(p, n)) :
             /\ i = Len(claims)
             /\ Careful => log[p][n].read # log[p][n].base

\* An undo, forwards or backwards, leaves of the page's edges exactly those that
\* edge_visible_at allows and touches no edge of a run that is not on the page.
RevertReconciles ==
  [][\A p \in Pages :
       current'[p] # current[p] /\ log' = log =>
         \A e \in Edges :
           LET at == {n \in DOMAIN log[p] : log[p][n].run = author[e]}
           IN  IF at = {} THEN withdrawn'[e] = withdrawn[e]
               ELSE withdrawn'[e] <=> \A n \in at : n > current'[p]]_vars

\* The rule revert_page states ("an edge is visible exactly when the run that
\* created it belongs to a revision at or before the current one") as it does hold:
\* on a page no compile has landed on after an undo, and, for an edge to be gone,
\* unless another run asserted it as well.
Linear(p) == \A n \in DOMAIN log[p] : log[p][n].base = n - 1

EdgesFollowLinearPages ==
  \A p \in Pages : \A e \in Edges :
    LET at == {n \in DOMAIN log[p] : log[p][n].run = author[e]}
    IN  Linear(p) /\ at # {} =>
          IF \E n \in at : n <= current[p] THEN ~withdrawn[e]
          ELSE asserted[e] = {author[e]} => withdrawn[e]

\* A page's prose tells every claim the page lists (compiler.ts: the complete body,
\* with the existing material preserved), whenever the compile landed on the very
\* revision its workflow had matched; on any other, the claims of what came between
\* are carried and the prose knows nothing of them.
Tells(rev) == \A i \in DOMAIN rev.claims : rev.claims[i].by \in rev.body

BodyTellsWhatItMatched ==
  \A p \in Pages : \A n \in DOMAIN log[p] :
    LET rev == log[p][n]
    IN  rev.read = rev.base /\ (rev.base # 0 => Tells(log[p][rev.base])) => Tells(rev)

\* A page is the append-only list of revisions with a live pointer that it promises.
SourcesOf(rev) == {rev.claims[i].by : i \in DOMAIN rev.claims}

PL == INSTANCE PageLog WITH
        Sources <- Runs,
        revisions <- [p \in Pages |-> [n \in DOMAIN log[p] |-> SourcesOf(log[p][n])]],
        live <- current

PageLogSpec == PL!Spec

=============================================================================
