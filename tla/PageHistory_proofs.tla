-------------------------- MODULE PageHistory_proofs --------------------------
(***************************************************************************)
(* What PageHistory guarantees for any number of runs, pages, edges,       *)
(* executions at once and undos.                                           *)
(***************************************************************************)
EXTENDS PageHistory, FiniteSetTheorems, TLAPS

\* The revision Apply appends, and the only three shapes a step can have.
RevisionOf(f) ==
  [run |-> RunOf[f], base |-> current[draft[f].page], read |-> draft[f].read,
   claims |-> AddNewClaims(draft[f], RunOf[f]), body |-> draft[f].body]

\* Every draft of a flow is one the agent could write: it is typed, and a claim it
\* names exists in the revision it read.
Drafted(lg, d) ==
  /\ d \in Draft
  /\ d.against # 0 =>
       /\ d.status = "disputed"
       /\ d.read \in DOMAIN lg[d.page]
       /\ d.against \in DOMAIN lg[d.page][d.read].claims

DraftShape == \A f \in Flows : stage[f] = "drafted" => Drafted(log, draft[f])

\* A live revision is well typed, the blank one of a page to be included.
LEMMA LiveTyped ==
  ASSUME TypeOK, NEW p \in Pages
  PROVE  /\ Live(p).claims \in Seq(Claim)
         /\ Live(p).body \in SUBSET Runs
         /\ current[p] # 0 => /\ current[p] \in DOMAIN log[p]
                              /\ Live(p) = log[p][current[p]]
                              /\ Live(p) \in Revision
         /\ current[p] = 0 => Live(p).claims = <<>>
<1>1. CASE current[p] = 0
  BY <1>1 DEF Live, Blank
<1>2. CASE current[p] # 0
  <2>1. current[p] \in DOMAIN log[p] /\ log[p] \in Seq(Revision)
    BY <1>2 DEF TypeOK
  <2>2. log[p][current[p]] \in Revision
    BY <2>1
  <2> QED BY <1>2, <2>1, <2>2 DEF Live, Revision
<1> QED BY <1>1, <1>2

\* Carrying forward keeps the number of claims, who made them and what they
\* contradict, and only ever turns a status into "disputed".
LEMMA CarryForwardLemma ==
  ASSUME TypeOK, NEW d \in Draft
  PROVE  LET old == Live(d.page).claims
             new == CarryForward(d)
         IN  /\ new \in Seq(Claim)
             /\ Len(new) = Len(old)
             /\ DOMAIN new = DOMAIN old
             /\ \A i \in DOMAIN old :
                  /\ new[i].by = old[i].by
                  /\ new[i].against = old[i].against
                  /\ old[i].status = "disputed" => new[i].status = "disputed"
                  /\ Found(d) /\ i = d.against => new[i].status = "disputed"
<1> DEFINE old == Live(d.page).claims
           new == CarryForward(d)
<1>1. d.page \in Pages
  BY DEF Draft
<1>2. old \in Seq(Claim)
  BY <1>1, LiveTyped
<1>3. \A i \in DOMAIN old : old[i] \in Claim
  BY <1>2
<1>4. new = [i \in DOMAIN old |->
               IF Found(d) /\ i = d.against
                 THEN [old[i] EXCEPT !.status = "disputed"] ELSE old[i]]
  BY DEF CarryForward
<1>5. \A i \in DOMAIN old : new[i] \in Claim
  BY <1>3, <1>4 DEF Claim, Statuses
<1>6. DOMAIN old = 1 .. Len(old) /\ Len(old) \in Nat
  BY <1>2
<1>7. new \in Seq(Claim) /\ Len(new) = Len(old) /\ DOMAIN new = DOMAIN old
  BY <1>4, <1>5, <1>6
<1>8. \A i \in DOMAIN old :
        /\ new[i].by = old[i].by
        /\ new[i].against = old[i].against
        /\ old[i].status = "disputed" => new[i].status = "disputed"
        /\ Found(d) /\ i = d.against => new[i].status = "disputed"
  BY <1>3, <1>4 DEF Claim
<1> QED BY <1>7, <1>8

\* What AddNewClaims returns: the carried claims, then the new one.
LEMMA AddNewClaimsLemma ==
  ASSUME TypeOK, NEW d \in Draft, NEW r \in Runs
  PROVE  LET old == Live(d.page).claims
             all == AddNewClaims(d, r)
             k   == Len(old) + 1
         IN  /\ all \in Seq(Claim)
             /\ Len(all) = k
             /\ \A i \in DOMAIN old : all[i] = CarryForward(d)[i]
             /\ all[k] = [by |-> r, status |-> d.status,
                          against |-> IF Found(d) THEN d.against ELSE 0]
<1> DEFINE old == Live(d.page).claims
           carried == CarryForward(d)
           new == [by |-> r, status |-> d.status,
                   against |-> IF Found(d) THEN d.against ELSE 0]
<1>1. carried \in Seq(Claim) /\ Len(carried) = Len(old) /\ DOMAIN carried = DOMAIN old
  BY CarryForwardLemma
<1>2. new \in Claim
  BY DEF Draft, Claim
<1>3. AddNewClaims(d, r) = Append(carried, new)
  BY DEF AddNewClaims
<1>4. DOMAIN carried = 1 .. Len(carried) /\ Len(carried) \in Nat
  BY <1>1
<1> HIDE DEF carried, new
<1>5. /\ Append(carried, new) \in Seq(Claim)
      /\ Len(Append(carried, new)) = Len(carried) + 1
      /\ \A i \in 1 .. Len(carried) : Append(carried, new)[i] = carried[i]
      /\ Append(carried, new)[Len(carried) + 1] = new
  BY <1>1, <1>2
<1> QED BY <1>1, <1>3, <1>4, <1>5 DEF carried, new

\* What Apply does to the pages: one gains one revision, which becomes live.
LEMMA ApplyLemma ==
  ASSUME TypeOK, NEW f \in Flows, Apply(f), Drafted(log, draft[f])
  PROVE  LET p == draft[f].page
         IN  /\ p \in Pages
             /\ RevisionOf(f) \in Revision
             /\ log' = [log EXCEPT ![p] = Append(log[p], RevisionOf(f))]
             /\ current' = [current EXCEPT ![p] = Len(log[p]) + 1]
             /\ log'[p] \in Seq(Revision)
             /\ Len(log'[p]) = Len(log[p]) + 1
             /\ \A n \in DOMAIN log[p] : n \in DOMAIN log'[p] /\ log'[p][n] = log[p][n]
             /\ log'[p][Len(log[p]) + 1] = RevisionOf(f)
             /\ \A q \in Pages : q # p => log'[q] = log[q] /\ current'[q] = current[q]
<1> DEFINE p == draft[f].page
<1>1. /\ p \in Pages /\ draft[f] \in Draft
      /\ draft[f].body \in SUBSET Runs /\ draft[f].read \in Nat
  BY DEF Drafted, Draft
<1>2. RunOf[f] \in Runs
  BY RunOfAssumption
<1>3. AddNewClaims(draft[f], RunOf[f]) \in Seq(Claim)
  BY <1>1, <1>2, AddNewClaimsLemma
<1>4. current[p] \in Nat
  BY <1>1 DEF TypeOK
<1>5. RevisionOf(f) \in Revision
  BY <1>1, <1>2, <1>3, <1>4 DEF RevisionOf, Revision
<1>6. /\ log' = [log EXCEPT ![p] = Append(log[p], RevisionOf(f))]
      /\ current' = [current EXCEPT ![p] = Len(log[p]) + 1]
  BY DEF Apply, AddRevision, NextNo, RevisionOf
<1>7. log[p] \in Seq(Revision) /\ log \in [Pages -> Seq(Revision)] /\ current \in [Pages -> Nat]
  BY <1>1 DEF TypeOK
<1>8. log'[p] = Append(log[p], RevisionOf(f))
  BY <1>1, <1>6, <1>7
<1>9. \A q \in Pages : q # p => log'[q] = log[q] /\ current'[q] = current[q]
  BY <1>6, <1>7
<1> HIDE DEF p
<1>10. /\ log'[p] \in Seq(Revision)
       /\ Len(log'[p]) = Len(log[p]) + 1
       /\ \A n \in DOMAIN log[p] : n \in DOMAIN log'[p] /\ log'[p][n] = log[p][n]
       /\ log'[p][Len(log[p]) + 1] = RevisionOf(f)
  BY <1>5, <1>7, <1>8
<1> QED BY <1>1, <1>5, <1>6, <1>9, <1>10 DEF p

\* Whatever match can leave behind is a draft with the shape above.
LEMMA MatchDrafts ==
  ASSUME TypeOK, NEW f \in Flows, NEW p \in Pages, NEW d,
         d \in CreateDrafts(f, p) \/ (current[p] # 0 /\ d \in MergeDrafts(f, p))
  PROVE  Drafted(log, d)
<1>1. RunOf[f] \in Runs
  BY RunOfAssumption
<1>2. \A i \in Nat : StatusFor(i) \subseteq Statuses
                     /\ (i # 0 => StatusFor(i) = {"disputed"})
  BY DEF StatusFor, Statuses
<1>3. CASE d \in CreateDrafts(f, p)
  <2>1. PICK s \in StatusFor(0), E \in SUBSET Edges :
          d = [page |-> p, read |-> 0, body |-> {RunOf[f]},
               status |-> s, against |-> 0, edges |-> E]
    BY <1>3 DEF CreateDrafts
  <2> QED BY <1>1, <1>2, <2>1 DEF Drafted, Draft
<1>4. CASE current[p] # 0 /\ d \in MergeDrafts(f, p)
  <2>0. PICK i \in 0 .. Len(Live(p).claims) :
          \E s \in StatusFor(i), E \in SUBSET Edges :
            d = [page |-> p, read |-> current[p], body |-> Live(p).body \cup {RunOf[f]},
                 status |-> s, against |-> i, edges |-> E]
    BY <1>4 DEF MergeDrafts
  <2>1. PICK s \in StatusFor(i), E \in SUBSET Edges :
          d = [page |-> p, read |-> current[p], body |-> Live(p).body \cup {RunOf[f]},
               status |-> s, against |-> i, edges |-> E]
    BY <2>0
  <2>2. /\ Live(p).claims \in Seq(Claim) /\ Live(p).body \in SUBSET Runs
        /\ current[p] \in DOMAIN log[p] /\ Live(p) = log[p][current[p]]
    BY <1>4, LiveTyped
  <2>3. current[p] \in Nat
    BY DEF TypeOK
  <2>4. i \in Nat /\ (i # 0 => i \in DOMAIN log[p][current[p]].claims)
    BY <2>2
  <2>5. i # 0 => s = "disputed"
    BY <1>2, <2>1, <2>4
  <2>6. d \in Draft
    BY <1>1, <1>2, <2>1, <2>2, <2>3, <2>4 DEF Draft
  <2> QED BY <2>1, <2>2, <2>4, <2>5, <2>6 DEF Drafted
<1> QED BY <1>3, <1>4

-----------------------------------------------------------------------------
(* Type correctness, with the shape of the drafts that later proofs need.    *)

TypeInv == TypeOK /\ DraftShape

\* Only Apply adds a revision: any other step leaves the log alone.
LEMMA LogOnlyGrows ==
  ASSUME TypeInv, Next
  PROVE  \/ log' = log
         \/ \E f \in Flows : stage[f] = "drafted" /\ Drafted(log, draft[f]) /\ Apply(f)
<1>1. CASE \E f \in Flows : Apply(f)
  BY <1>1 DEF Apply, TypeInv, DraftShape
<1>2. CASE \E f \in Flows : Match(f) \/ Abandon(f)
  BY <1>2 DEF Match, Abandon, pageVars
<1>3. CASE \E p \in Pages : \E n \in DOMAIN log[p] : Revert(p, n)
  BY <1>3 DEF Revert
<1> QED BY <1>1, <1>2, <1>3 DEF Next

\* A draft stays good while the log grows.
LEMMA DraftsKeep ==
  ASSUME TypeInv, NEW f \in Flows, Apply(f), Drafted(log, draft[f]), NEW d, Drafted(log, d)
  PROVE  Drafted(log', d)
<1>1. /\ draft[f].page \in Pages
      /\ \A n \in DOMAIN log[draft[f].page] :
           n \in DOMAIN log'[draft[f].page]
           /\ log'[draft[f].page][n] = log[draft[f].page][n]
      /\ \A q \in Pages : q # draft[f].page => log'[q] = log[q]
  BY ApplyLemma DEF TypeInv
<1>2. d \in Draft /\ d.page \in Pages
  BY DEF Drafted, Draft
<1>3. \A n \in DOMAIN log[d.page] : n \in DOMAIN log'[d.page]
                                   /\ log'[d.page][n] = log[d.page][n]
  BY <1>1, <1>2
<1> QED BY <1>2, <1>3 DEF Drafted

LEMMA TypeStep ==
  ASSUME TypeInv, [Next]_vars
  PROVE  TypeInv'
<1> USE DEF TypeInv
<1>1. ASSUME NEW f \in Flows, Match(f)
      PROVE  TypeInv'
  <2>1. PICK d : Drafted(log, d) /\ draft' = [draft EXCEPT ![f] = d]
    <3>1. PICK p \in Pages :
            \/ current[p] # 0 /\ \E d \in MergeDrafts(f, p) : draft' = [draft EXCEPT ![f] = d]
            \/ \E d \in CreateDrafts(f, p) : draft' = [draft EXCEPT ![f] = d]
      BY <1>1 DEF Match
    <3>2. CASE \E d \in CreateDrafts(f, p) : draft' = [draft EXCEPT ![f] = d]
      BY <3>2, MatchDrafts
    <3>3. CASE current[p] # 0 /\ \E d \in MergeDrafts(f, p) : draft' = [draft EXCEPT ![f] = d]
      BY <3>3, MatchDrafts
    <3> QED BY <3>1, <3>2, <3>3
  <2>2. /\ stage' = [stage EXCEPT ![f] = "drafted"]
        /\ UNCHANGED <<log, current, author, withdrawn, asserted, reverts>>
    BY <1>1 DEF Match, pageVars, edgeVars
  <2>3. stage' \in [Flows -> {"ready", "drafted", "done"}]
    BY <2>2 DEF TypeOK
  <2>4. draft' \in [Flows -> Draft \cup {Blank}]
    BY <2>1 DEF TypeOK, Drafted
  <2>5. ASSUME NEW g \in Flows, stage'[g] = "drafted"
        PROVE  Drafted(log, draft'[g]) /\ draft'[g] \in Draft
    <3>1. CASE g = f
      BY <2>1, <3>1 DEF TypeOK, Drafted
    <3>2. CASE g # f
      BY <2>1, <2>2, <2>5, <3>2 DEF TypeOK, DraftShape, Drafted
    <3> QED BY <3>1, <3>2
  <2>6. DraftShape'
    BY <2>2, <2>5 DEF DraftShape
  <2>7. TypeOK'
    BY <2>2, <2>3, <2>4, <2>5 DEF TypeOK
  <2> QED BY <2>6, <2>7
<1>2. ASSUME NEW f \in Flows, Abandon(f)
      PROVE  TypeInv'
  <2>1. /\ stage' = [stage EXCEPT ![f] = "done"]
        /\ draft' \in [Flows -> Draft \cup {Blank}]
        /\ \A g \in Flows : stage'[g] = "drafted" => stage[g] = "drafted" /\ draft'[g] = draft[g]
        /\ UNCHANGED <<log, current, author, withdrawn, asserted, reverts>>
    BY <1>2 DEF Abandon, pageVars, edgeVars, TypeOK
  <2>3. DraftShape'
    BY <2>1 DEF DraftShape
  <2>4. TypeOK'
    BY <2>1 DEF TypeOK
  <2> QED BY <2>3, <2>4
<1>3. ASSUME NEW f \in Flows, Apply(f)
      PROVE  TypeInv'
  <2> DEFINE p == draft[f].page
  <2>1. Drafted(log, draft[f])
    BY <1>3 DEF Apply, DraftShape
  <2>2. /\ p \in Pages
        /\ log' = [log EXCEPT ![p] = Append(log[p], RevisionOf(f))]
        /\ current' = [current EXCEPT ![p] = Len(log[p]) + 1]
        /\ log'[p] \in Seq(Revision)
        /\ Len(log'[p]) = Len(log[p]) + 1
        /\ \A q \in Pages : q # p => log'[q] = log[q] /\ current'[q] = current[q]
    BY <1>3, <2>1, ApplyLemma
  <2>3. /\ stage' = [stage EXCEPT ![f] = "done"]
        /\ draft' \in [Flows -> Draft \cup {Blank}]
        /\ \A g \in Flows : stage'[g] = "drafted" => stage[g] = "drafted" /\ draft'[g] = draft[g]
        /\ reverts' = reverts
        /\ ApplyGraph(draft[f].edges, RunOf[f])
    BY <1>3 DEF Apply, TypeOK
  <2>4. RunOf[f] \in Runs
    BY RunOfAssumption
  <2>5. /\ author' \in [Edges -> Runs \cup {NoRun}]
        /\ withdrawn' \in [Edges -> BOOLEAN]
        /\ asserted' \in [Edges -> SUBSET Runs]
    BY <2>3, <2>4 DEF ApplyGraph, TypeOK
  <2>6. log \in [Pages -> Seq(Revision)] /\ current \in [Pages -> Nat] /\ Len(log[p]) \in Nat
    BY <2>2 DEF TypeOK
  <2>7. log' \in [Pages -> Seq(Revision)]
    BY <2>2, <2>6
  <2>8. current' \in [Pages -> Nat]
    BY <2>2, <2>6
  <2>9. ASSUME NEW q \in Pages
        PROVE  current'[q] = 0 \/ current'[q] \in DOMAIN log'[q]
    <3>1. CASE q = p
      <4>1. current'[p] = Len(log'[p]) /\ DOMAIN log'[p] = 1 .. Len(log'[p])
        BY <2>2, <2>6
      <4>2. Len(log'[p]) \in Nat \ {0}
        BY <2>2, <2>6
      <4> QED BY <3>1, <4>1, <4>2
    <3>2. CASE q # p
      BY <2>2, <3>2 DEF TypeOK
    <3> QED BY <3>1, <3>2
  <2>10. \A g \in Flows : stage'[g] = "drafted" => Drafted(log', draft'[g]) /\ draft'[g] \in Draft
    BY <1>3, <2>1, <2>3, DraftsKeep DEF DraftShape, Drafted
  <2>11. stage' \in [Flows -> {"ready", "drafted", "done"}]
    BY <2>3 DEF TypeOK
  <2>12. TypeOK'
    BY <2>3, <2>5, <2>7, <2>8, <2>9, <2>10, <2>11 DEF TypeOK
  <2>13. DraftShape'
    BY <2>10 DEF DraftShape
  <2> QED BY <2>12, <2>13
<1>4. ASSUME NEW p \in Pages, NEW n \in DOMAIN log[p], Revert(p, n)
      PROVE  TypeInv'
  <2>1. /\ current' = [current EXCEPT ![p] = n]
        /\ reverts' = reverts + 1 /\ reverts < MaxReverts
        /\ Reconcile(p, n)
        /\ UNCHANGED <<log, author, asserted, stage, draft>>
    BY <1>4 DEF Revert, flowVars
  <2>2. n \in Nat
    BY DEF TypeOK
  <2>3. current' \in [Pages -> Nat]
        /\ \A q \in Pages : current'[q] = 0 \/ current'[q] \in DOMAIN log[q]
    BY <2>1, <2>2 DEF TypeOK
  <2>4. withdrawn' \in [Edges -> BOOLEAN]
    BY <2>1 DEF Reconcile
  <2>5. reverts' \in 0 .. MaxReverts
    BY <2>1, LimitsAssumption DEF TypeOK
  <2>6. TypeOK'
    BY <2>1, <2>3, <2>4, <2>5 DEF TypeOK
  <2>7. DraftShape'
    BY <2>1 DEF DraftShape, Drafted
  <2> QED BY <2>6, <2>7
<1>5. CASE UNCHANGED vars
  BY <1>5 DEF vars, pageVars, edgeVars, flowVars, TypeOK, DraftShape, Drafted
<1> QED BY <1>1, <1>2, <1>3, <1>4, <1>5 DEF Next

LEMMA TypeInit == Init => TypeInv
<1> SUFFICES ASSUME Init PROVE TypeInv
  OBVIOUS
<1>1. log \in [Pages -> Seq(Revision)]
  BY DEF Init
<1> QED BY <1>1, LimitsAssumption DEF Init, TypeInv, TypeOK, DraftShape

LEMMA TypeInvHolds == Spec => []TypeInv
<1> QED BY TypeInit, TypeStep, PTL DEF Spec

\* Type correctness, for any number of pages, executions and undos.
THEOREM TypeCorrect == Spec => []TypeOK
<1>1. TypeInv => TypeOK
  BY DEF TypeInv
<1> QED BY <1>1, TypeInvHolds, PTL

-----------------------------------------------------------------------------
(* The history is append-only.                                               *)

\* Old revisions keep their number and their content in every step.
LEMMA OldRevisionsStay ==
  ASSUME TypeInv, [Next]_vars, NEW p \in Pages, NEW n \in DOMAIN log[p]
  PROVE  n \in DOMAIN log'[p] /\ log'[p][n] = log[p][n]
<1>1. CASE log' = log
  BY <1>1
<1>2. ASSUME NEW f \in Flows, Drafted(log, draft[f]), Apply(f)
      PROVE  n \in DOMAIN log'[p] /\ log'[p][n] = log[p][n]
  BY <1>2, ApplyLemma DEF TypeInv
<1> QED BY <1>1, <1>2, LogOnlyGrows DEF vars, pageVars

\* No compile and no undo rewrites a revision that exists: reverting restores it
\* exactly.
THEOREM HistoryStands == Spec => HistoryIsImmutable
<1>1. TypeInv /\ [Next]_vars =>
        [\A p \in Pages : \A n \in DOMAIN log[p] :
           n \in DOMAIN log'[p] /\ log'[p][n] = log[p][n]]_vars
  BY OldRevisionsStay
<1> QED BY <1>1, TypeInvHolds, PTL DEF Spec, HistoryIsImmutable

-----------------------------------------------------------------------------
(* Merging.                                                                  *)

\* Revision n of a page keeps the claims of the revision it was built on.
Keeps(revs, n) ==
  LET b == revs[n].base
  IN  b # 0 =>
        /\ b < n
        /\ \A i \in DOMAIN revs[b].claims :
             /\ i \in DOMAIN revs[n].claims
             /\ revs[n].claims[i].by = revs[b].claims[i].by
             /\ revs[n].claims[i].against = revs[b].claims[i].against
             /\ revs[b].claims[i].status = "disputed"
                  => revs[n].claims[i].status = "disputed"

\* The revision a compile adds keeps the claims of the one that was live.
LEMMA NewRevisionKeeps ==
  ASSUME TypeInv, NEW f \in Flows, Apply(f), Drafted(log, draft[f])
  PROVE  LET p == draft[f].page IN Keeps(log'[p], Len(log[p]) + 1)
<1> DEFINE d == draft[f]
           p == draft[f].page
           k == Len(log[p]) + 1
           b == current[p]
<1>1. /\ p \in Pages
      /\ \A n \in DOMAIN log[p] : n \in DOMAIN log'[p] /\ log'[p][n] = log[p][n]
      /\ log'[p][k] = RevisionOf(f)
  BY ApplyLemma DEF TypeInv
<1>2. TypeOK /\ d \in Draft /\ RunOf[f] \in Runs
  BY RunOfAssumption DEF TypeInv, Drafted
<1>3. log'[p][k].base = b /\ log'[p][k].claims = AddNewClaims(d, RunOf[f])
  BY <1>1 DEF RevisionOf
<1> SUFFICES ASSUME b # 0
             PROVE  /\ b < k
                    /\ \A i \in DOMAIN log'[p][b].claims :
                         /\ i \in DOMAIN log'[p][k].claims
                         /\ log'[p][k].claims[i].by = log'[p][b].claims[i].by
                         /\ log'[p][k].claims[i].against = log'[p][b].claims[i].against
                         /\ log'[p][b].claims[i].status = "disputed"
                              => log'[p][k].claims[i].status = "disputed"
  BY <1>3 DEF Keeps
<1>4. b \in DOMAIN log[p] /\ Live(p) = log[p][b] /\ Live(p).claims \in Seq(Claim)
  BY <1>1, <1>2, LiveTyped
<1>5. b < k
  BY <1>1, <1>2, <1>4 DEF TypeOK
<1>6. log'[p][b].claims = Live(p).claims
  BY <1>1, <1>4
<1>7. ASSUME NEW i \in DOMAIN Live(p).claims
      PROVE  /\ i \in DOMAIN AddNewClaims(d, RunOf[f])
             /\ AddNewClaims(d, RunOf[f])[i].by = Live(p).claims[i].by
             /\ AddNewClaims(d, RunOf[f])[i].against = Live(p).claims[i].against
             /\ Live(p).claims[i].status = "disputed"
                  => AddNewClaims(d, RunOf[f])[i].status = "disputed"
  <2>1. /\ AddNewClaims(d, RunOf[f]) \in Seq(Claim)
        /\ Len(AddNewClaims(d, RunOf[f])) = Len(Live(p).claims) + 1
        /\ AddNewClaims(d, RunOf[f])[i] = CarryForward(d)[i]
    BY <1>2, <1>7, AddNewClaimsLemma
  <2>2. /\ CarryForward(d)[i].by = Live(p).claims[i].by
        /\ CarryForward(d)[i].against = Live(p).claims[i].against
        /\ Live(p).claims[i].status = "disputed" => CarryForward(d)[i].status = "disputed"
    BY <1>2, <1>7, CarryForwardLemma
  <2>3. i \in DOMAIN AddNewClaims(d, RunOf[f])
    BY <1>4, <2>1
  <2> QED BY <2>1, <2>2, <2>3
<1> QED BY <1>3, <1>5, <1>6, <1>7

LEMMA MergeInit == Init => MergeLosesNothing
<1> QED BY DEF Init, MergeLosesNothing

LEMMA MergeStep ==
  ASSUME TypeInv, MergeLosesNothing, [Next]_vars
  PROVE  MergeLosesNothing'
<1>1. MergeLosesNothing <=> \A p \in Pages : \A n \in DOMAIN log[p] : Keeps(log[p], n)
  BY DEF MergeLosesNothing, Keeps
<1>2. MergeLosesNothing' <=> \A p \in Pages : \A n \in DOMAIN log'[p] : Keeps(log'[p], n)
  BY DEF MergeLosesNothing, Keeps
<1>3. CASE log' = log
  BY <1>1, <1>2, <1>3
<1>4. ASSUME NEW f \in Flows, Drafted(log, draft[f]), Apply(f),
             NEW p \in Pages, NEW n \in DOMAIN log'[p]
      PROVE  Keeps(log'[p], n)
  <2>1. CASE p # draft[f].page
    BY <1>1, <1>4, <2>1, ApplyLemma DEF TypeInv
  <2>2. CASE p = draft[f].page /\ n = Len(log[p]) + 1
    BY <1>4, <2>2, NewRevisionKeeps
  <2>3. CASE p = draft[f].page /\ n # Len(log[p]) + 1
    <3>1. /\ Len(log'[p]) = Len(log[p]) + 1 /\ log'[p] \in Seq(Revision)
          /\ \A m \in DOMAIN log[p] : log'[p][m] = log[p][m]
      BY <1>4, <2>3, ApplyLemma DEF TypeInv
    <3>2. log[p] \in Seq(Revision)
      BY DEF TypeInv, TypeOK
    <3>3. n \in DOMAIN log[p] /\ Keeps(log[p], n) /\ log[p][n] \in Revision
      BY <1>1, <1>4, <2>3, <3>1, <3>2
    <3>4. log[p][n].base \in Nat
      BY <3>3 DEF Revision
    <3>5. ASSUME log[p][n].base # 0, log[p][n].base < n
          PROVE  log[p][n].base \in DOMAIN log[p]
      BY <3>2, <3>3, <3>4, <3>5
    <3> QED BY <3>1, <3>3, <3>5 DEF Keeps
  <2> QED BY <2>1, <2>2, <2>3
<1> QED BY <1>2, <1>3, <1>4, LogOnlyGrows DEF vars, pageVars

\* A merge never drops, reattributes or settles a claim of the page it lands on,
\* however stale the compile's own reading of that page is.
THEOREM MergeKeepsEveryClaim == Spec => []MergeLosesNothing
<1> QED BY MergeInit, MergeStep, TypeInvHolds, PTL DEF Spec

-----------------------------------------------------------------------------
(* Contradictions.                                                           *)

\* Both sides of every recorded contradiction are disputed in this list of claims.
FlagsBoth(claims) ==
  \A i \in DOMAIN claims :
    claims[i].against # 0 =>
      /\ claims[i].against < i
      /\ claims[i].status = "disputed"
      /\ claims[claims[i].against].status = "disputed"

LEMMA NewClaimsFlagBoth ==
  ASSUME TypeOK, NEW d \in Draft, NEW r \in Runs, Drafted(log, d),
         FlagsBoth(Live(d.page).claims)
  PROVE  FlagsBoth(AddNewClaims(d, r))
<1> DEFINE old == Live(d.page).claims
           all == AddNewClaims(d, r)
           k == Len(old) + 1
<1>1. d.page \in Pages /\ d.against \in Nat
  BY DEF Draft
<1>2. old \in Seq(Claim) /\ DOMAIN old = 1 .. Len(old) /\ Len(old) \in Nat
  BY <1>1, LiveTyped
<1>3. /\ all \in Seq(Claim) /\ Len(all) = k
      /\ \A i \in DOMAIN old : all[i] = CarryForward(d)[i]
      /\ all[k] = [by |-> r, status |-> d.status,
                   against |-> IF Found(d) THEN d.against ELSE 0]
  BY AddNewClaimsLemma
<1>4. \A i \in DOMAIN old :
        /\ all[i].against = old[i].against
        /\ old[i].status = "disputed" => all[i].status = "disputed"
        /\ Found(d) /\ i = d.against => all[i].status = "disputed"
  BY <1>3, CarryForwardLemma
<1>5. ASSUME NEW i \in DOMAIN old, all[i].against # 0
      PROVE  /\ all[i].against < i
             /\ all[i].status = "disputed"
             /\ all[all[i].against].status = "disputed"
  <2>1. /\ old[i].against # 0 /\ old[i].against < i /\ old[i].status = "disputed"
        /\ old[old[i].against].status = "disputed"
    BY <1>4, <1>5 DEF FlagsBoth
  <2>2. old[i].against \in Nat
    <3>1. old[i] \in Claim
      BY <1>2
    <3> HIDE DEF old
    <3> QED BY <3>1 DEF Claim
  <2>3. old[i].against \in DOMAIN old
    BY <1>2, <2>1, <2>2
  <2> QED BY <1>4, <2>1, <2>3
<1>6. ASSUME all[k].against # 0
      PROVE  /\ all[k].against < k
             /\ all[k].status = "disputed"
             /\ all[all[k].against].status = "disputed"
  <2>1. Found(d) /\ all[k].against = d.against /\ all[k].status = d.status
    BY <1>3, <1>6
  <2>2. d.against # 0 /\ d.read = current[d.page] /\ d.read \in DOMAIN log[d.page]
        /\ d.status = "disputed" /\ d.against \in DOMAIN log[d.page][d.read].claims
    BY <2>1 DEF Found, Drafted
  <2>3. d.read # 0
    BY <1>1, <2>2 DEF TypeOK
  <2>4. d.against \in DOMAIN old
    BY <1>1, <2>2, <2>3, LiveTyped
  <2>5. d.against < k
    BY <1>2, <2>4
  <2> QED BY <1>4, <2>1, <2>2, <2>4, <2>5
<1>7. DOMAIN all = 1 .. k
  BY <1>3
<1>8. \A i \in DOMAIN all : i \in DOMAIN old \/ i = k
  BY <1>2, <1>7
<1> HIDE DEF old, all, k
<1>9. FlagsBoth(all)
  BY <1>5, <1>6, <1>8 DEF FlagsBoth
<1> QED BY <1>9 DEF all

AllFlagBoth == \A p \in Pages : \A n \in DOMAIN log[p] : FlagsBoth(log[p][n].claims)

LEMMA FlagsStep ==
  ASSUME TypeInv, AllFlagBoth, [Next]_vars
  PROVE  AllFlagBoth'
<1>1. AllFlagBoth => \A p \in Pages : \A n \in DOMAIN log[p] : FlagsBoth(log[p][n].claims)
  BY DEF AllFlagBoth
<1>2. AllFlagBoth' <=> \A p \in Pages : \A n \in DOMAIN log'[p] : FlagsBoth(log'[p][n].claims)
  BY DEF AllFlagBoth, FlagsBoth
<1>3. CASE log' = log
  BY <1>1, <1>2, <1>3
<1>4. ASSUME NEW f \in Flows, Drafted(log, draft[f]), Apply(f),
             NEW p \in Pages, NEW n \in DOMAIN log'[p]
      PROVE  FlagsBoth(log'[p][n].claims)
  <2> DEFINE q == draft[f].page
  <2>1. TypeOK /\ draft[f] \in Draft /\ RunOf[f] \in Runs /\ q \in Pages
    BY <1>4, RunOfAssumption DEF TypeInv, Drafted, Draft
  <2>2. FlagsBoth(Live(q).claims)
    <3>1. CASE current[q] = 0
      BY <2>1, <3>1, LiveTyped DEF FlagsBoth
    <3>2. CASE current[q] # 0
      BY <1>1, <2>1, <3>2, LiveTyped
    <3> QED BY <3>1, <3>2
  <2>3. /\ log'[q] \in Seq(Revision) /\ Len(log'[q]) = Len(log[q]) + 1
        /\ \A m \in DOMAIN log[q] : log'[q][m] = log[q][m]
        /\ log'[q][Len(log[q]) + 1] = RevisionOf(f)
        /\ p # q => log'[p] = log[p]
    BY <1>4, <2>1, ApplyLemma
  <2>4. CASE p # q
    BY <1>1, <1>4, <2>3, <2>4
  <2>5. CASE p = q /\ n = Len(log[q]) + 1
    <3>1. log'[p][n].claims = AddNewClaims(draft[f], RunOf[f])
      BY <2>3, <2>5 DEF RevisionOf
    <3> QED BY <1>4, <2>1, <2>2, <3>1, NewClaimsFlagBoth
  <2>6. CASE p = q /\ n # Len(log[q]) + 1
    <3>1. log[q] \in Seq(Revision)
      BY <2>1 DEF TypeOK
    <3>2. n \in DOMAIN log[q]
      BY <1>4, <2>3, <2>6, <3>1
    <3> QED BY <1>1, <2>1, <2>3, <2>6, <3>2
  <2> QED BY <2>4, <2>5, <2>6
<1> QED BY <1>2, <1>3, <1>4, LogOnlyGrows DEF vars, pageVars

-----------------------------------------------------------------------------
(* Undo and the graph.                                                       *)

\* What one undo does to one edge.
LEMMA ReconcileEdge ==
  ASSUME TypeOK, NEW p \in Pages, NEW m \in DOMAIN log[p], Reconcile(p, m),
         NEW e \in Edges
  PROVE  LET at == {n \in DOMAIN log[p] : log[p][n].run = author[e]}
         IN  IF at = {} THEN withdrawn'[e] = withdrawn[e]
             ELSE withdrawn'[e] <=> \A n \in at : n > m
<1> DEFINE at == {n \in DOMAIN log[p] : log[p][n].run = author[e]}
<1>1. author[e] \in Undone(p, m) <=> \E n \in at : n > m
  BY DEF Undone, RunsOf
<1>2. author[e] \in Kept(p, m) <=> \E n \in at : n <= m
  BY DEF Kept, RunsOf
<1>3. \A n \in at : ~(n > m) <=> n <= m
  <2>1. DOMAIN log[p] \subseteq Nat
    BY DEF TypeOK
  <2> QED BY <2>1
<1>4. withdrawn'[e] <=> (withdrawn[e] \/ author[e] \in Undone(p, m))
                          /\ author[e] \notin Kept(p, m)
  BY DEF Reconcile
<1>5. withdrawn[e] \in BOOLEAN /\ withdrawn'[e] \in BOOLEAN
  BY DEF TypeOK, Reconcile
<1>6. CASE at = {}
  BY <1>1, <1>2, <1>4, <1>5, <1>6, Zenon
<1>7. CASE at # {}
  <2>1. (\A n \in at : n > m) <=> ~(\E n \in at : n <= m)
    BY <1>3
  <2>2. (\A n \in at : n > m) => \E n \in at : n > m
    BY <1>7
  <2> HIDE DEF at
  <2>3. withdrawn'[e] <=> \A n \in at : n > m
    BY <1>1, <1>2, <1>4, <2>1, <2>2, Zenon
  <2> QED BY <1>7, <2>3 DEF at
<1> QED BY <1>6, <1>7

LEMMA RevertStep ==
  ASSUME TypeInv, [Next]_vars, NEW p \in Pages, current'[p] # current[p], log' = log
  PROVE  \E m \in DOMAIN log[p] : Reconcile(p, m) /\ current'[p] = m
<1>1. ASSUME NEW f \in Flows, Drafted(log, draft[f]), Apply(f)
      PROVE  FALSE
  <2>1. draft[f].page \in Pages /\ Len(log'[draft[f].page]) = Len(log[draft[f].page]) + 1
    BY <1>1, ApplyLemma DEF TypeInv
  <2>2. Len(log[draft[f].page]) \in Nat
    BY <2>1 DEF TypeInv, TypeOK
  <2> QED BY <2>1, <2>2
<1>2. CASE \E f \in Flows : Apply(f)
  BY <1>1, <1>2 DEF Apply, TypeInv, DraftShape
<1>3. CASE \E f \in Flows : Match(f) \/ Abandon(f)
  BY <1>3 DEF Match, Abandon, pageVars
<1>4. ASSUME NEW q \in Pages, NEW m \in DOMAIN log[q], Revert(q, m)
      PROVE  m \in DOMAIN log[p] /\ Reconcile(p, m) /\ current'[p] = m
  BY <1>4 DEF Revert, TypeInv, TypeOK
<1>5. CASE UNCHANGED vars
  BY <1>5 DEF vars, pageVars
<1> QED BY <1>2, <1>3, <1>4, <1>5 DEF Next

\* Undo, in either direction and after any history, leaves of the page's edges
\* those whose run has a revision at or before the restored one.
THEOREM RevertIsExact == Spec => RevertReconciles
<1>1. ASSUME TypeInv, [Next]_vars
      PROVE  \A p \in Pages :
               current'[p] # current[p] /\ log' = log =>
                 \A e \in Edges :
                   LET at == {n \in DOMAIN log[p] : log[p][n].run = author[e]}
                   IN  IF at = {} THEN withdrawn'[e] = withdrawn[e]
                       ELSE withdrawn'[e] <=> \A n \in at : n > current'[p]
  <2> SUFFICES ASSUME NEW p \in Pages, current'[p] # current[p], log' = log,
                      NEW e \in Edges
               PROVE  LET at == {n \in DOMAIN log[p] : log[p][n].run = author[e]}
                      IN  IF at = {} THEN withdrawn'[e] = withdrawn[e]
                          ELSE withdrawn'[e] <=> \A n \in at : n > current'[p]
    OBVIOUS
  <2>1. PICK m \in DOMAIN log[p] : Reconcile(p, m) /\ current'[p] = m
    BY <1>1, RevertStep
  <2> QED BY <1>1, <2>1, ReconcileEdge DEF TypeInv
<1> QED BY <1>1, TypeInvHolds, PTL DEF Spec, RevertReconciles

-----------------------------------------------------------------------------
(* The edges of a page no compile has landed on after an undo.               *)

\* A run has its revisions on one page.
OneHome ==
  \A p, q \in Pages : \A n \in DOMAIN log[p] : \A m \in DOMAIN log[q] :
    log[p][n].run = log[q][m].run => p = q

\* An edge was drawn by a compile that is in some page's history.
AuthorsHaveAHome ==
  \A e \in Edges : author[e] # NoRun =>
    \E p \in Pages : \E n \in DOMAIN log[p] : log[p][n].run = author[e]

Follows(p, e) ==
  LET at == {n \in DOMAIN log[p] : log[p][n].run = author[e]}
  IN  Linear(p) /\ at # {} =>
        IF \E n \in at : n <= current[p] THEN ~withdrawn[e]
        ELSE asserted[e] = {author[e]} => withdrawn[e]

LEMMA FollowsLemma == EdgesFollowLinearPages <=> \A p \in Pages : \A e \in Edges : Follows(p, e)
BY DEF EdgesFollowLinearPages, Follows

\* What Apply does to one edge.
LEMMA ApplyEdge ==
  ASSUME TypeInv, NEW f \in Flows, Apply(f), NEW e \in Edges
  PROVE  IF e \in draft[f].edges
         THEN /\ ~withdrawn'[e] /\ asserted'[e] = asserted[e] \cup {RunOf[f]}
              /\ author'[e] = IF author[e] = NoRun THEN RunOf[f] ELSE author[e]
         ELSE withdrawn'[e] = withdrawn[e] /\ asserted'[e] = asserted[e] /\ author'[e] = author[e]
<1>1. withdrawn[e] \in BOOLEAN
  BY DEF TypeInv, TypeOK
<1> QED BY <1>1 DEF Apply, ApplyGraph

LEMMA HomeApply ==
  ASSUME TypeInv, NEW f \in Flows, Apply(f), Drafted(log, draft[f]), AuthorsHaveAHome
  PROVE  AuthorsHaveAHome'
<1> DEFINE q == draft[f].page
           k == Len(log[q]) + 1
<1>1. /\ q \in Pages /\ log'[q] \in Seq(Revision) /\ Len(log'[q]) = k
      /\ \A n \in DOMAIN log[q] : n \in DOMAIN log'[q] /\ log'[q][n] = log[q][n]
      /\ log'[q][k] = RevisionOf(f)
      /\ \A p \in Pages : p # q => log'[p] = log[p]
  BY ApplyLemma DEF TypeInv
<1>2. k \in DOMAIN log'[q] /\ log'[q][k].run = RunOf[f]
  <2>1. Len(log[q]) \in Nat
    BY <1>1 DEF TypeInv, TypeOK
  <2> QED BY <1>1, <2>1 DEF RevisionOf
<1> SUFFICES ASSUME NEW e \in Edges, author'[e] # NoRun
             PROVE  \E p \in Pages : \E n \in DOMAIN log'[p] : log'[p][n].run = author'[e]
  BY DEF AuthorsHaveAHome
<1>3. CASE author'[e] = author[e]
  <2>1. PICK p \in Pages : \E n \in DOMAIN log[p] : log[p][n].run = author[e]
    BY <1>3 DEF AuthorsHaveAHome
  <2>2. PICK n \in DOMAIN log[p] : log[p][n].run = author[e]
    BY <2>1
  <2>3. n \in DOMAIN log'[p] /\ log'[p][n] = log[p][n]
    BY <1>1
  <2> QED BY <1>3, <2>2, <2>3
<1>4. CASE author'[e] # author[e]
  <2>1. author'[e] = RunOf[f]
    BY <1>4, ApplyEdge
  <2> QED BY <1>1, <1>2, <2>1
<1> QED BY <1>3, <1>4

LEMMA FollowsApply ==
  ASSUME TypeInv, NEW f \in Flows, Apply(f), Drafted(log, draft[f]),
         OneHome', AuthorsHaveAHome, EdgesFollowLinearPages,
         NEW p \in Pages, NEW e \in Edges
  PROVE  Follows(p, e)'
<1> DEFINE q == draft[f].page
           k == Len(log[q]) + 1
           at == {n \in DOMAIN log[p] : log[p][n].run = author[e]}
           now == {n \in DOMAIN log'[p] : log'[p][n].run = author'[e]}
<1>1. /\ q \in Pages /\ log'[q] \in Seq(Revision) /\ Len(log'[q]) = k
      /\ \A n \in DOMAIN log[q] : n \in DOMAIN log'[q] /\ log'[q][n] = log[q][n]
      /\ log'[q][k] = RevisionOf(f) /\ current' = [current EXCEPT ![q] = k]
      /\ \A x \in Pages : x # q => log'[x] = log[x] /\ current'[x] = current[x]
  BY ApplyLemma DEF TypeInv
<1>2. /\ log[q] \in Seq(Revision) /\ Len(log[q]) \in Nat /\ current[q] \in Nat
      /\ current \in [Pages -> Nat]
  BY <1>1 DEF TypeInv, TypeOK
<1>3. k \in DOMAIN log'[q] /\ log'[q][k].run = RunOf[f] /\ log'[q][k].base = current[q]
  BY <1>1, <1>2 DEF RevisionOf
<1>4. Follows(p, e)
  BY FollowsLemma
<1>5. ASSUME Linear(p)', now # {}
      PROVE  IF \E n \in now : n <= current'[p] THEN ~withdrawn'[e]
             ELSE asserted'[e] = {author'[e]} => withdrawn'[e]
  <2>1. PICK i \in DOMAIN log'[p] : log'[p][i].run = author'[e]
    BY <1>5
  <2>2. author'[e] \in Runs
    <3>1. TypeOK'
      BY TypeStep DEF TypeInv, Next
    <3>2. log'[p] \in Seq(Revision)
      BY <3>1 DEF TypeOK
    <3>3. log'[p][i] \in Revision
      BY <3>2
    <3> QED BY <2>1, <3>3 DEF Revision
  <2>3. CASE p = q
    <3>1. Linear(p) /\ current[p] = Len(log[p])
      <4>1. Linear(p)
        BY <1>1, <1>5, <2>3 DEF Linear
      <4>2. log'[p][k].base = k - 1
        BY <1>3, <1>5, <2>3 DEF Linear
      <4> QED BY <1>2, <1>3, <2>3, <4>1, <4>2
    <3>2. ASSUME e \notin draft[f].edges PROVE ~withdrawn[e]
      <4>1. author'[e] = author[e] /\ author[e] # NoRun
        BY <2>2, <3>2, ApplyEdge, RunOfAssumption
      <4>2. PICK x \in Pages : \E n \in DOMAIN log[x] : log[x][n].run = author[e]
        BY <4>1 DEF AuthorsHaveAHome
      <4>3. PICK n \in DOMAIN log[x] : log[x][n].run = author[e]
        BY <4>2
      <4>4. n \in DOMAIN log'[x] /\ log'[x][n] = log[x][n]
        BY <1>1
      <4>5. x = p
        BY <2>1, <4>1, <4>3, <4>4 DEF OneHome
      <4>6. n \in at /\ n <= current[p]
        BY <1>2, <2>3, <3>1, <4>3, <4>5
      <4> QED BY <1>4, <3>1, <4>6 DEF Follows
    <3>3. ~withdrawn'[e]
      BY <3>2, ApplyEdge
    <3>4. \E n \in now : n <= current'[p]
      <4>1. current'[p] = k /\ DOMAIN log'[p] = 1 .. k
        BY <1>1, <1>2, <2>3
      <4> QED BY <1>2, <1>5, <4>1
    <3> QED BY <3>3, <3>4
  <2>4. CASE p # q
    <3>1. log'[p] = log[p] /\ current'[p] = current[p]
      BY <1>1, <2>4
    <3>2. author'[e] # RunOf[f]
      BY <1>1, <1>3, <2>1, <2>4 DEF OneHome
    <3>3. author'[e] = author[e]
      BY <3>2, ApplyEdge
    <3>4. Linear(p) /\ now = at
      BY <1>5, <3>1, <3>3 DEF Linear
    <3>5. CASE e \in draft[f].edges
      <4>1. ~withdrawn'[e] /\ RunOf[f] \in asserted'[e]
        BY <3>5, ApplyEdge
      <4> QED BY <3>2, <4>1
    <3>6. CASE e \notin draft[f].edges
      <4>1. withdrawn'[e] = withdrawn[e] /\ asserted'[e] = asserted[e]
        BY <3>6, ApplyEdge
      <4> QED BY <1>4, <1>5, <3>1, <3>3, <3>4, <4>1 DEF Follows
    <3> QED BY <3>5, <3>6
  <2> QED BY <2>3, <2>4
<1> QED BY <1>5 DEF Follows

LEMMA FollowsRevert ==
  ASSUME TypeInv, NEW q \in Pages, NEW m \in DOMAIN log[q], Revert(q, m),
         OneHome, EdgesFollowLinearPages, NEW p \in Pages, NEW e \in Edges
  PROVE  Follows(p, e)'
<1> DEFINE at == {n \in DOMAIN log[p] : log[p][n].run = author[e]}
<1>1. /\ log' = log /\ author' = author /\ asserted' = asserted
      /\ current' = [current EXCEPT ![q] = m] /\ Reconcile(q, m)
  BY DEF Revert
<1>2. Follows(p, e)
  BY FollowsLemma
<1>3. CASE p = q
  <2>1. current'[p] = m /\ DOMAIN log[p] \in SUBSET Nat
    BY <1>1, <1>3 DEF TypeInv, TypeOK
  <2>2. at # {} => (withdrawn'[e] <=> \A n \in at : n > m)
    BY <1>1, <1>3, ReconcileEdge DEF TypeInv
  <2>3. \A n \in at : n > m <=> ~(n <= m)
    BY <1>3, <2>1
  <2>4. at # {} => (withdrawn'[e] <=> ~\E n \in at : n <= current'[p])
    BY <2>1, <2>2, <2>3
  <2> QED BY <1>1, <2>4 DEF Follows
<1>4. CASE p # q
  <2>1. current'[p] = current[p]
    BY <1>1, <1>4 DEF TypeInv, TypeOK
  <2>2. at # {} => {n \in DOMAIN log[q] : log[q][n].run = author[e]} = {}
    BY <1>4 DEF OneHome
  <2>3. at # {} => withdrawn'[e] = withdrawn[e]
    BY <1>1, <2>2, ReconcileEdge DEF TypeInv
  <2> QED BY <1>1, <1>2, <2>1, <2>3 DEF Follows, Linear
<1> QED BY <1>3, <1>4

LEMMA FollowsStep ==
  ASSUME TypeInv, AuthorsHaveAHome, EdgesFollowLinearPages, OneHome, OneHome', [Next]_vars
  PROVE  AuthorsHaveAHome' /\ EdgesFollowLinearPages'
<1>1. ASSUME NEW f \in Flows, Apply(f)
      PROVE  AuthorsHaveAHome' /\ EdgesFollowLinearPages'
  <2>1. Drafted(log, draft[f])
    BY <1>1 DEF Apply, TypeInv, DraftShape
  <2>2. \A p \in Pages : \A e \in Edges : Follows(p, e)'
    BY <1>1, <2>1, FollowsApply
  <2>3. EdgesFollowLinearPages'
    BY <2>2 DEF EdgesFollowLinearPages, Follows
  <2> QED BY <1>1, <2>1, <2>3, HomeApply
<1>2. ASSUME NEW q \in Pages, NEW m \in DOMAIN log[q], Revert(q, m)
      PROVE  AuthorsHaveAHome' /\ EdgesFollowLinearPages'
  <2>1. \A p \in Pages : \A e \in Edges : Follows(p, e)'
    BY <1>2, FollowsRevert
  <2>2. EdgesFollowLinearPages'
    BY <2>1 DEF EdgesFollowLinearPages, Follows
  <2> QED BY <1>2, <2>2 DEF Revert, AuthorsHaveAHome
<1>3. ASSUME UNCHANGED <<pageVars, edgeVars>>
      PROVE  AuthorsHaveAHome' /\ EdgesFollowLinearPages'
  BY <1>3 DEF pageVars, edgeVars, AuthorsHaveAHome, EdgesFollowLinearPages, Linear
<1>4. CASE \E f \in Flows : Match(f) \/ Abandon(f)
  BY <1>3, <1>4 DEF Match, Abandon
<1>5. CASE UNCHANGED vars
  BY <1>3, <1>5 DEF vars
<1> QED BY <1>1, <1>2, <1>4, <1>5 DEF Next

\* As long as no run is on two pages: on a page with no branch in its history, an edge is
\* shown while its author has a revision at or before the live one, and hidden while it
\* has none and no other run asserted it, through every undo of any page.
THEOREM EdgesFollowHistory == Spec /\ []OneHome => []EdgesFollowLinearPages
<1>1. Init => AuthorsHaveAHome /\ EdgesFollowLinearPages
  BY DEF Init, AuthorsHaveAHome, EdgesFollowLinearPages
<1> QED BY <1>1, FollowsStep, TypeInvHolds, PTL DEF Spec

\* A run that is executed once is on one page.
ExecutedOnce == \A f, g \in Flows : RunOf[f] = RunOf[g] => f = g

RevisionsAreDone ==
  \A p \in Pages : \A n \in DOMAIN log[p] :
    \E f \in Flows : stage[f] = "done" /\ log[p][n].run = RunOf[f]

LEMMA OneHomeStep ==
  ASSUME TypeInv, ExecutedOnce, RevisionsAreDone, OneHome, [Next]_vars
  PROVE  RevisionsAreDone' /\ OneHome'
<1>1. ASSUME NEW f \in Flows, Apply(f), Drafted(log, draft[f])
      PROVE  RevisionsAreDone' /\ OneHome'
  <2> DEFINE q == draft[f].page
             k == Len(log[q]) + 1
  <2>1. /\ q \in Pages /\ log'[q] \in Seq(Revision) /\ Len(log'[q]) = k
        /\ \A n \in DOMAIN log[q] : n \in DOMAIN log'[q] /\ log'[q][n] = log[q][n]
        /\ log'[q][k] = RevisionOf(f)
        /\ \A p \in Pages : p # q => log'[p] = log[p]
    BY <1>1, ApplyLemma DEF TypeInv
  <2>2. log[q] \in Seq(Revision) /\ Len(log[q]) \in Nat
    BY <2>1 DEF TypeInv, TypeOK
  <2>3. \A g \in Flows : stage'[g] = "done" <=> (g = f \/ stage[g] = "done")
    BY <1>1 DEF Apply, TypeInv, TypeOK
  <2>4. \A n \in DOMAIN log'[q] : n \in DOMAIN log[q] \/ n = k
    BY <2>1, <2>2
  <2>5. log'[q][k].run = RunOf[f]
    BY <2>1 DEF RevisionOf
  <2>6. ASSUME NEW p \in Pages, NEW n \in DOMAIN log'[p]
        PROVE  \/ p = q /\ n = k /\ log'[p][n].run = RunOf[f]
               \/ n \in DOMAIN log[p] /\ log'[p][n].run = log[p][n].run
    BY <2>1, <2>4, <2>5
  <2>7. ASSUME NEW p \in Pages, NEW n \in DOMAIN log[p]
        PROVE  log[p][n].run # RunOf[f]
    <3>1. PICK g \in Flows : stage[g] = "done" /\ log[p][n].run = RunOf[g]
      BY DEF RevisionsAreDone
    <3>2. g # f
      BY <1>1, <3>1 DEF Apply
    <3> QED BY <3>1, <3>2 DEF ExecutedOnce
  <2>8. RevisionsAreDone'
    BY <2>3, <2>6 DEF RevisionsAreDone
  <2>9. OneHome'
    BY <2>6, <2>7 DEF OneHome
  <2> QED BY <2>8, <2>9
<1>2. CASE \E f \in Flows : Apply(f)
  BY <1>1, <1>2 DEF Apply, TypeInv, DraftShape
<1>3. ASSUME log' = log, \A g \in Flows : stage[g] = "done" => stage'[g] = "done"
      PROVE  RevisionsAreDone' /\ OneHome'
  BY <1>3 DEF RevisionsAreDone, OneHome
<1>4. CASE \E f \in Flows : Match(f) \/ Abandon(f)
  BY <1>3, <1>4 DEF Match, Abandon, pageVars, TypeInv, TypeOK
<1>5. CASE \E p \in Pages : \E n \in DOMAIN log[p] : Revert(p, n)
  BY <1>3, <1>5 DEF Revert, flowVars
<1>6. CASE UNCHANGED vars
  BY <1>3, <1>6 DEF vars, pageVars, flowVars
<1> QED BY <1>2, <1>4, <1>5, <1>6 DEF Next

\* Where no run is executed twice, none is on two pages ...
THEOREM OneExecutionOnePage == ASSUME ExecutedOnce PROVE Spec => []OneHome
<1>1. Init => RevisionsAreDone /\ OneHome
  BY DEF Init, RevisionsAreDone, OneHome
<1>2. TypeInv /\ RevisionsAreDone /\ OneHome /\ [Next]_vars => RevisionsAreDone' /\ OneHome'
  BY OneHomeStep
<1> QED BY <1>1, <1>2, TypeInvHolds, PTL DEF Spec

\* ... and the edges of every page without a detour follow its history.
THEOREM EdgesFollowWhenExecutedOnce ==
  ASSUME ExecutedOnce PROVE Spec => []EdgesFollowLinearPages
BY OneExecutionOnePage, EdgesFollowHistory, PTL

-----------------------------------------------------------------------------
(* A page is the append-only list that PageLog specifies.                    *)

\* The abstract list of a page.
Listed(revs) == [n \in DOMAIN revs |-> SourcesOf(revs[n])]

\* A page's new revision tells the sources of the live one and the compile's own.
LEMMA SourcesOfNewRevision ==
  ASSUME TypeInv, NEW f \in Flows, Drafted(log, draft[f])
  PROVE  SourcesOf(RevisionOf(f)) =
           {Live(draft[f].page).claims[i].by : i \in DOMAIN Live(draft[f].page).claims}
             \cup {RunOf[f]}
<1> DEFINE old == Live(draft[f].page).claims
           all == AddNewClaims(draft[f], RunOf[f])
           k == Len(old) + 1
<1>1. TypeOK /\ draft[f] \in Draft /\ RunOf[f] \in Runs /\ draft[f].page \in Pages
  BY RunOfAssumption DEF TypeInv, Drafted, Draft
<1>2. old \in Seq(Claim) /\ DOMAIN old = 1 .. Len(old) /\ Len(old) \in Nat
  BY <1>1, LiveTyped
<1>3. /\ all \in Seq(Claim) /\ Len(all) = k
      /\ \A i \in DOMAIN old : all[i] = CarryForward(draft[f])[i]
      /\ all[k].by = RunOf[f]
  <2>1. /\ all \in Seq(Claim) /\ Len(all) = k
        /\ \A i \in DOMAIN old : all[i] = CarryForward(draft[f])[i]
        /\ all[k] = [by |-> RunOf[f], status |-> draft[f].status,
                     against |-> IF Found(draft[f]) THEN draft[f].against ELSE 0]
    BY <1>1, AddNewClaimsLemma
  <2> HIDE DEF old, all, k
  <2> QED BY <2>1
<1>4. \A i \in DOMAIN old : all[i].by = old[i].by
  BY <1>1, <1>3, CarryForwardLemma
<1>5. DOMAIN all = DOMAIN old \cup {k}
  <2>1. k = Len(old) + 1
    OBVIOUS
  <2> HIDE DEF old, all, k
  <2>2. DOMAIN all = 1 .. k
    BY <1>3
  <2> QED BY <1>2, <2>1, <2>2
<1>6. SourcesOf(RevisionOf(f)) = {all[i].by : i \in DOMAIN all}
  BY DEF SourcesOf, RevisionOf
<1> HIDE DEF old, all, k
<1>7. {all[i].by : i \in DOMAIN all} = {old[i].by : i \in DOMAIN old} \cup {RunOf[f]}
  BY <1>3, <1>4, <1>5
<1> QED BY <1>6, <1>7 DEF old

\* The list of a page that gains a revision gains that revision's sources.
LEMMA ListedAppend ==
  ASSUME NEW revs \in Seq(Revision), NEW rev \in Revision
  PROVE  Listed(Append(revs, rev)) = Append(Listed(revs), SourcesOf(rev))
<1> DEFINE S(n) == SourcesOf(revs[n])
           more == Append(revs, rev)
<1>1. more \in Seq(Revision) /\ Len(more) = Len(revs) + 1 /\ Len(revs) \in Nat
      /\ (\A n \in 1 .. Len(revs) : more[n] = revs[n]) /\ more[Len(revs) + 1] = rev
  OBVIOUS
<1>2. DOMAIN revs = 1 .. Len(revs) /\ DOMAIN more = 1 .. (Len(revs) + 1)
  BY <1>1
<1>3. Listed(revs) = [n \in 1 .. Len(revs) |-> SourcesOf(revs[n])]
  BY <1>2 DEF Listed
<1>4. Listed(more) = [n \in 1 .. (Len(revs) + 1) |-> SourcesOf(more[n])]
  BY <1>2 DEF Listed
<1>5. Listed(revs) \in Seq({SourcesOf(revs[n]) : n \in 1 .. Len(revs)})
      /\ Len(Listed(revs)) = Len(revs)
  BY <1>1, <1>3
<1>6. Append(Listed(revs), SourcesOf(rev)) =
        [n \in 1 .. (Len(revs) + 1) |->
           IF n = Len(revs) + 1 THEN SourcesOf(rev) ELSE SourcesOf(revs[n])]
  BY <1>1, <1>3, <1>5
<1>7. \A n \in 1 .. (Len(revs) + 1) :
        SourcesOf(more[n]) = IF n = Len(revs) + 1 THEN SourcesOf(rev) ELSE SourcesOf(revs[n])
  BY <1>1
<1> QED BY <1>4, <1>6, <1>7

LEMMA PageLogInit == Init => PL!Init
<1> SUFFICES ASSUME Init PROVE PL!Init
  OBVIOUS
<1>1. \A p \in Pages : [n \in DOMAIN log[p] |-> SourcesOf(log[p][n])] = <<>>
  BY DEF Init
<1> QED BY <1>1 DEF Init, PL!Init

LEMMA PageLogStep ==
  ASSUME TypeInv, [Next]_vars
  PROVE  [PL!Next]_<<[p \in Pages |-> [n \in DOMAIN log[p] |-> SourcesOf(log[p][n])]], current>>
<1> DEFINE revs == [p \in Pages |-> [n \in DOMAIN log[p] |-> SourcesOf(log[p][n])]]
<1>1. revs = [p \in Pages |-> Listed(log[p])] /\ revs' = [p \in Pages |-> Listed(log'[p])]
  BY DEF Listed
<1>2. ASSUME NEW f \in Flows, Drafted(log, draft[f]), Apply(f)
      PROVE  PL!Next
  <2> DEFINE q == draft[f].page
  <2>1. /\ q \in Pages /\ RevisionOf(f) \in Revision
        /\ log' = [log EXCEPT ![q] = Append(log[q], RevisionOf(f))]
        /\ current' = [current EXCEPT ![q] = Len(log[q]) + 1]
    BY <1>2, ApplyLemma DEF TypeInv
  <2>2. TypeOK /\ RunOf[f] \in Runs /\ log \in [Pages -> Seq(Revision)]
    BY RunOfAssumption DEF TypeInv, TypeOK
  <2>3. Listed(log'[q]) = Append(Listed(log[q]), SourcesOf(RevisionOf(f)))
    BY <2>1, <2>2, ListedAppend
  <2>4. SourcesOf(RevisionOf(f)) = PL!Known(q) \cup {RunOf[f]}
    <3>1. SourcesOf(RevisionOf(f)) =
            {Live(q).claims[i].by : i \in DOMAIN Live(q).claims} \cup {RunOf[f]}
      BY <1>2, SourcesOfNewRevision
    <3>2. CASE current[q] = 0
      BY <2>1, <2>2, <3>1, <3>2, LiveTyped DEF PL!Known
    <3>3. CASE current[q] # 0
      <4>1. current[q] \in DOMAIN log[q] /\ Live(q) = log[q][current[q]]
        BY <2>1, <2>2, <3>3, LiveTyped
      <4>2. revs[q][current[q]] = SourcesOf(log[q][current[q]])
        BY <2>1, <4>1
      <4>3. PL!Known(q) = SourcesOf(Live(q))
        BY <3>3, <4>1, <4>2 DEF PL!Known
      <4> QED BY <3>1, <4>3 DEF SourcesOf
    <3> QED BY <3>2, <3>3
  <2>5. revs' = [revs EXCEPT ![q] = Append(revs[q], PL!Known(q) \cup {RunOf[f]})]
    <3>1. \A p \in Pages : p # q => log'[p] = log[p]
      BY <2>1, <2>2
    <3>2. revs[q] = Listed(log[q])
      BY <1>1, <2>1
    <3>3. \A p \in Pages :
            Listed(log'[p]) = IF p = q THEN Append(revs[q], PL!Known(q) \cup {RunOf[f]})
                                       ELSE Listed(log[p])
      BY <2>3, <2>4, <3>1, <3>2
    <3> HIDE DEF revs, q
    <3> QED BY <1>1, <2>1, <3>3
  <2>6. Len(revs[q]) = Len(log[q])
    <3>1. Len(log[q]) \in Nat /\ DOMAIN log[q] = 1 .. Len(log[q])
      BY <2>1, <2>2
    <3>2. revs[q] = [n \in 1 .. Len(log[q]) |-> SourcesOf(log[q][n])]
      BY <2>1, <3>1
    <3> QED BY <3>1, <3>2
  <2>7. PL!Compile(q, RunOf[f])
    BY <2>1, <2>5, <2>6 DEF PL!Compile
  <2> QED BY <2>1, <2>2, <2>7 DEF PL!Next
<1>3. CASE \E f \in Flows : Apply(f)
  BY <1>2, <1>3 DEF Apply, TypeInv, DraftShape
<1>4. CASE \E f \in Flows : Match(f) \/ Abandon(f)
  BY <1>4 DEF Match, Abandon, pageVars
<1>5. ASSUME NEW p \in Pages, NEW n \in DOMAIN log[p], Revert(p, n)
      PROVE  PL!Next
  <2>1. n \in DOMAIN revs[p] /\ revs' = revs /\ current' = [current EXCEPT ![p] = n]
    BY <1>5 DEF Revert
  <2>2. PL!Undo(p, n)
    BY <2>1 DEF PL!Undo
  <2> QED BY <2>1, <2>2 DEF PL!Next
<1>6. CASE UNCHANGED vars
  BY <1>6 DEF vars, pageVars
<1> QED BY <1>3, <1>4, <1>5, <1>6 DEF Next

\* Whatever compiles race and however often the reader undoes, a page behaves as
\* the append-only list of revisions with a live pointer.
THEOREM PagesAreLogs == Spec => PageLogSpec
<1>1. Init => PL!Init
  BY PageLogInit
<1>2. TypeInv /\ [Next]_vars =>
        [PL!Next]_<<[p \in Pages |-> [n \in DOMAIN log[p] |-> SourcesOf(log[p][n])]], current>>
  BY PageLogStep
<1> QED BY <1>1, <1>2, TypeInvHolds, PTL DEF Spec, PageLogSpec, PL!Spec

-----------------------------------------------------------------------------
(* Prose.                                                                    *)

\* A draft's body tells its own run and all that the revision it read told.
DraftTells(lg, d, r) ==
  /\ r \in d.body
  /\ d.read # 0 => d.read \in DOMAIN lg[d.page] /\ lg[d.page][d.read].body \subseteq d.body

DraftsTell == \A f \in Flows : stage[f] = "drafted" => DraftTells(log, draft[f], RunOf[f])

LEMMA MatchTells ==
  ASSUME TypeInv, NEW f \in Flows, Match(f)
  PROVE  DraftTells(log', draft'[f], RunOf[f])
<1>1. log' = log
  BY DEF Match, pageVars
<1>2. PICK p \in Pages :
        \/ current[p] # 0 /\ \E d \in MergeDrafts(f, p) : draft' = [draft EXCEPT ![f] = d]
        \/ \E d \in CreateDrafts(f, p) : draft' = [draft EXCEPT ![f] = d]
  BY DEF Match
<1>3. \A d : draft' = [draft EXCEPT ![f] = d] => draft'[f] = d
  BY DEF TypeInv, TypeOK
<1>4. CASE current[p] # 0 /\ \E d \in MergeDrafts(f, p) : draft' = [draft EXCEPT ![f] = d]
  <2>1. PICK d \in MergeDrafts(f, p) : draft'[f] = d
    BY <1>3, <1>4
  <2>2. d.page = p /\ d.read = current[p] /\ d.body = Live(p).body \cup {RunOf[f]}
    BY <2>1 DEF MergeDrafts
  <2>3. current[p] \in DOMAIN log[p] /\ Live(p) = log[p][current[p]]
    BY <1>4, LiveTyped DEF TypeInv
  <2> QED BY <1>1, <2>1, <2>2, <2>3 DEF DraftTells
<1>5. CASE \E d \in CreateDrafts(f, p) : draft' = [draft EXCEPT ![f] = d]
  <2>1. PICK d \in CreateDrafts(f, p) : draft'[f] = d
    BY <1>3, <1>5
  <2>2. d.read = 0 /\ d.body = {RunOf[f]}
    BY <2>1 DEF CreateDrafts
  <2> QED BY <2>1, <2>2 DEF DraftTells
<1> QED BY <1>2, <1>4, <1>5

LEMMA DraftsTellStep ==
  ASSUME TypeInv, DraftsTell, [Next]_vars
  PROVE  DraftsTell'
<1> SUFFICES ASSUME NEW g \in Flows, stage'[g] = "drafted"
             PROVE  DraftTells(log', draft'[g], RunOf[g])
  BY DEF DraftsTell
<1>1. ASSUME NEW f \in Flows, Match(f)
      PROVE  DraftTells(log', draft'[g], RunOf[g])
  <2>1. CASE g = f
    BY <1>1, <2>1, MatchTells
  <2>2. CASE g # f
    <3>1. /\ stage[g] = "drafted" /\ log' = log
          /\ \A d : draft' = [draft EXCEPT ![f] = d] => draft'[g] = draft[g]
      BY <1>1, <2>2 DEF Match, pageVars, TypeInv, TypeOK
    <3>2. \E d : draft' = [draft EXCEPT ![f] = d]
      BY <1>1 DEF Match
    <3> QED BY <3>1, <3>2 DEF DraftsTell
  <2> QED BY <2>1, <2>2
<1>2. ASSUME stage[g] = "drafted", draft'[g] = draft[g]
      PROVE  DraftTells(log', draft'[g], RunOf[g])
  <2>1. DraftTells(log, draft[g], RunOf[g])
    BY <1>2 DEF DraftsTell
  <2>2. draft[g].page \in Pages
    BY <1>2 DEF TypeInv, TypeOK, Draft
  <2>3. \A n \in DOMAIN log[draft[g].page] :
          n \in DOMAIN log'[draft[g].page] /\ log'[draft[g].page][n] = log[draft[g].page][n]
    BY <2>2, OldRevisionsStay
  <2> QED BY <1>2, <2>1, <2>3 DEF DraftTells
<1>3. ASSUME NEW f \in Flows, Abandon(f) \/ Apply(f)
      PROVE  stage[g] = "drafted" /\ draft'[g] = draft[g]
  BY <1>3 DEF Abandon, Apply, TypeInv, TypeOK
<1>4. ASSUME NEW p \in Pages, NEW n \in DOMAIN log[p], Revert(p, n)
      PROVE  stage[g] = "drafted" /\ draft'[g] = draft[g]
  BY <1>4 DEF Revert, flowVars
<1>5. CASE UNCHANGED vars
  BY <1>2, <1>5 DEF vars, flowVars
<1> QED BY <1>1, <1>2, <1>3, <1>4, <1>5 DEF Next

\* Revision n tells its claims, if what it was built on is what was read and told its own.
Retells(revs, n) ==
  revs[n].read = revs[n].base /\ (revs[n].base # 0 => Tells(revs[revs[n].base]))
    => Tells(revs[n])

LEMMA NewRevisionRetells ==
  ASSUME TypeInv, DraftsTell, NEW f \in Flows, Apply(f), Drafted(log, draft[f])
  PROVE  LET p == draft[f].page IN Retells(log'[p], Len(log[p]) + 1)
<1> DEFINE d == draft[f]
           p == draft[f].page
           b == current[p]
           old == Live(p).claims
           all == AddNewClaims(d, RunOf[f])
           rev == log'[p][Len(log[p]) + 1]
<1>1. /\ p \in Pages
      /\ \A n \in DOMAIN log[p] : log'[p][n] = log[p][n]
      /\ rev = RevisionOf(f)
  BY ApplyLemma DEF TypeInv
<1>2. TypeOK /\ d \in Draft /\ RunOf[f] \in Runs
  BY RunOfAssumption DEF TypeInv, Drafted
<1>3. rev.base = b /\ rev.read = d.read /\ rev.claims = all /\ rev.body = d.body
  BY <1>1 DEF RevisionOf
<1>4. DraftTells(log, d, RunOf[f])
  BY DEF Apply, DraftsTell
<1> SUFFICES ASSUME d.read = b, b # 0 => Tells(log'[p][b]), NEW i \in DOMAIN all
             PROVE  all[i].by \in d.body
  BY <1>3 DEF Retells, Tells
<1>5. /\ all \in Seq(Claim) /\ Len(all) = Len(old) + 1
      /\ \A j \in DOMAIN old : all[j] = CarryForward(d)[j]
      /\ all[Len(old) + 1].by = RunOf[f]
  <2>1. /\ all \in Seq(Claim) /\ Len(all) = Len(old) + 1
        /\ \A j \in DOMAIN old : all[j] = CarryForward(d)[j]
        /\ all[Len(old) + 1] = [by |-> RunOf[f], status |-> d.status,
                                against |-> IF Found(d) THEN d.against ELSE 0]
    BY <1>2, AddNewClaimsLemma
  <2>2. all[Len(old) + 1].by = RunOf[f]
    BY <2>1
  <2> QED BY <2>1, <2>2
<1>6. old \in Seq(Claim) /\ (b = 0 => old = <<>>)
      /\ (b # 0 => b \in DOMAIN log[p] /\ Live(p) = log[p][b])
  BY <1>1, <1>2, LiveTyped
<1>7. CASE i \in DOMAIN old
  <2>1. all[i].by = old[i].by
    BY <1>2, <1>5, <1>7, CarryForwardLemma
  <2>2. b # 0
    BY <1>6, <1>7
  <2>3. log'[p][b] = Live(p)
    BY <1>1, <1>6, <2>2
  <2>4. old[i].by \in Live(p).body
    BY <1>7, <2>2, <2>3 DEF Tells
  <2>5. Live(p).body \subseteq d.body
    BY <1>4, <1>6, <2>2 DEF DraftTells
  <2> QED BY <2>1, <2>4, <2>5
<1>8. CASE i \notin DOMAIN old
  <2>1. i = Len(old) + 1
    BY <1>5, <1>6, <1>8
  <2> QED BY <1>4, <1>5, <2>1 DEF DraftTells
<1> QED BY <1>7, <1>8

\* Every revision is built on an earlier one, or on none.
BasesComeFirst ==
  \A p \in Pages : \A n \in DOMAIN log[p] :
    log[p][n].base # 0 => log[p][n].base \in DOMAIN log[p]

LEMMA BasesStep ==
  ASSUME TypeInv, BasesComeFirst, [Next]_vars
  PROVE  BasesComeFirst'
<1>1. CASE log' = log
  BY <1>1 DEF BasesComeFirst
<1>2. ASSUME NEW f \in Flows, Drafted(log, draft[f]), Apply(f),
             NEW p \in Pages, NEW n \in DOMAIN log'[p], log'[p][n].base # 0
      PROVE  log'[p][n].base \in DOMAIN log'[p]
  <2>1. CASE p # draft[f].page
    BY <1>2, <2>1, ApplyLemma DEF TypeInv, BasesComeFirst
  <2>2. CASE p = draft[f].page
    <3>1. /\ Len(log'[p]) = Len(log[p]) + 1 /\ log'[p] \in Seq(Revision)
          /\ \A m \in DOMAIN log[p] : m \in DOMAIN log'[p] /\ log'[p][m] = log[p][m]
          /\ log'[p][Len(log[p]) + 1] = RevisionOf(f)
      BY <1>2, <2>2, ApplyLemma DEF TypeInv
    <3>2. log[p] \in Seq(Revision) /\ (current[p] = 0 \/ current[p] \in DOMAIN log[p])
      BY DEF TypeInv, TypeOK
    <3>3. CASE n \in DOMAIN log[p]
      BY <1>2, <3>1, <3>3 DEF BasesComeFirst
    <3>4. CASE n \notin DOMAIN log[p]
      <4>1. n = Len(log[p]) + 1
        BY <3>1, <3>2, <3>4
      <4>2. log'[p][n].base = current[p]
        BY <2>2, <3>1, <4>1 DEF RevisionOf
      <4> QED BY <1>2, <3>1, <3>2, <4>2
    <3> QED BY <3>3, <3>4
  <2> QED BY <2>1, <2>2
<1> QED BY <1>1, <1>2, LogOnlyGrows DEF vars, pageVars, BasesComeFirst

LEMMA ProseStep ==
  ASSUME TypeInv, DraftsTell, BasesComeFirst, BodyTellsWhatItMatched, [Next]_vars
  PROVE  BodyTellsWhatItMatched'
<1>1. BodyTellsWhatItMatched <=> \A p \in Pages : \A n \in DOMAIN log[p] : Retells(log[p], n)
  BY DEF BodyTellsWhatItMatched, Retells
<1>2. BodyTellsWhatItMatched' <=> \A p \in Pages : \A n \in DOMAIN log'[p] : Retells(log'[p], n)
  BY DEF BodyTellsWhatItMatched, Retells, Tells
<1>3. CASE log' = log
  BY <1>1, <1>2, <1>3
<1>4. ASSUME NEW f \in Flows, Drafted(log, draft[f]), Apply(f),
             NEW p \in Pages, NEW n \in DOMAIN log'[p]
      PROVE  Retells(log'[p], n)
  <2>1. CASE p # draft[f].page
    BY <1>1, <1>4, <2>1, ApplyLemma DEF TypeInv
  <2>2. CASE p = draft[f].page /\ n = Len(log[p]) + 1
    BY <1>4, <2>2, NewRevisionRetells
  <2>3. CASE p = draft[f].page /\ n # Len(log[p]) + 1
    <3>1. /\ Len(log'[p]) = Len(log[p]) + 1 /\ log'[p] \in Seq(Revision)
          /\ \A m \in DOMAIN log[p] : log'[p][m] = log[p][m]
      BY <1>4, <2>3, ApplyLemma DEF TypeInv
    <3>2. log[p] \in Seq(Revision)
      BY DEF TypeInv, TypeOK
    <3>3. n \in DOMAIN log[p]
      BY <2>3, <3>1, <3>2
    <3>4. log'[p][n] = log[p][n]
          /\ (log[p][n].base # 0 => log'[p][log[p][n].base] = log[p][log[p][n].base])
      BY <3>1, <3>3 DEF BasesComeFirst
    <3> QED BY <1>1, <3>3, <3>4 DEF Retells
  <2> QED BY <2>1, <2>2, <2>3
<1> QED BY <1>2, <1>3, <1>4, LogOnlyGrows DEF vars, pageVars

\* A page whose compile landed on the revision it had matched tells, in its prose,
\* everything that revision told and its own material, however many compiles and
\* undos came before.
THEOREM ProseKeepsUp == Spec => []BodyTellsWhatItMatched
<1> DEFINE Inv == TypeInv /\ DraftsTell /\ BasesComeFirst /\ BodyTellsWhatItMatched
<1>1. Init => Inv
  <2>1. Init => DraftsTell /\ BasesComeFirst /\ BodyTellsWhatItMatched
    BY DEF Init, DraftsTell, BasesComeFirst, BodyTellsWhatItMatched
  <2> QED BY <2>1, TypeInit
<1>2. Inv /\ [Next]_vars => Inv'
  BY TypeStep, DraftsTellStep, BasesStep, ProseStep
<1> QED BY <1>1, <1>2, PTL DEF Spec

-----------------------------------------------------------------------------
(* Disputes with one side only.                                              *)

\* A careful model disputes only what it was shown.
DraftsName ==
  Careful => \A f \in Flows :
    stage[f] = "drafted" /\ draft[f].status = "disputed" => draft[f].against # 0

LEMMA MatchNames ==
  ASSUME TypeInv, Careful, NEW f \in Flows, Match(f), draft'[f].status = "disputed"
  PROVE  draft'[f].against # 0
<1>1. \A d : draft' = [draft EXCEPT ![f] = d] => draft'[f] = d
  BY DEF TypeInv, TypeOK
<1>2. PICK p \in Pages :
        \/ \E d \in MergeDrafts(f, p) : draft' = [draft EXCEPT ![f] = d]
        \/ \E d \in CreateDrafts(f, p) : draft' = [draft EXCEPT ![f] = d]
  BY DEF Match
<1>3. \A i \in Nat : \A s \in StatusFor(i) : s = "disputed" => i # 0
  BY DEF StatusFor
<1>4. CASE \E d \in MergeDrafts(f, p) : draft' = [draft EXCEPT ![f] = d]
  <2>1. PICK d \in MergeDrafts(f, p) : draft'[f] = d
    BY <1>1, <1>4
  <2>2. PICK i \in 0 .. Len(Live(p).claims) :
          \E s \in StatusFor(i), E \in SUBSET Edges :
            d = [page |-> p, read |-> current[p], body |-> Live(p).body \cup {RunOf[f]},
                 status |-> s, against |-> i, edges |-> E]
    BY <2>1 DEF MergeDrafts
  <2>3. i \in Nat
    BY <2>2
  <2> QED BY <1>3, <2>1, <2>2, <2>3
<1>5. CASE \E d \in CreateDrafts(f, p) : draft' = [draft EXCEPT ![f] = d]
  <2>1. PICK d \in CreateDrafts(f, p) : draft'[f] = d
    BY <1>1, <1>5
  <2>2. PICK s \in StatusFor(0), E \in SUBSET Edges :
          d = [page |-> p, read |-> 0, body |-> {RunOf[f]},
               status |-> s, against |-> 0, edges |-> E]
    BY <2>1 DEF CreateDrafts
  <2> QED BY <1>3, <2>1, <2>2
<1> QED BY <1>2, <1>4, <1>5

LEMMA NamesStep ==
  ASSUME TypeInv, DraftsName, [Next]_vars
  PROVE  DraftsName'
<1> SUFFICES ASSUME Careful, NEW g \in Flows, stage'[g] = "drafted",
                    draft'[g].status = "disputed"
             PROVE  draft'[g].against # 0
  BY DEF DraftsName
<1>1. ASSUME NEW f \in Flows, Match(f)
      PROVE  draft'[g].against # 0
  <2>1. CASE g = f
    BY <1>1, <2>1, MatchNames
  <2>2. CASE g # f
    <3>1. /\ stage[g] = "drafted"
          /\ \A d : draft' = [draft EXCEPT ![f] = d] => draft'[g] = draft[g]
      BY <1>1, <2>2 DEF Match, TypeInv, TypeOK
    <3>2. \E d : draft' = [draft EXCEPT ![f] = d]
      BY <1>1 DEF Match
    <3> QED BY <3>1, <3>2 DEF DraftsName
  <2> QED BY <2>1, <2>2
<1>2. ASSUME stage[g] = "drafted", draft'[g] = draft[g]
      PROVE  draft'[g].against # 0
  BY <1>2 DEF DraftsName
<1>3. ASSUME NEW f \in Flows, Abandon(f) \/ Apply(f)
      PROVE  stage[g] = "drafted" /\ draft'[g] = draft[g]
  BY <1>3 DEF Abandon, Apply, TypeInv, TypeOK
<1>4. ASSUME NEW p \in Pages, NEW n \in DOMAIN log[p], Revert(p, n)
      PROVE  stage[g] = "drafted" /\ draft'[g] = draft[g]
  BY <1>4 DEF Revert, flowVars
<1>5. CASE UNCHANGED vars
  BY <1>2, <1>5 DEF vars, flowVars
<1> QED BY <1>1, <1>2, <1>3, <1>4, <1>5 DEF Next

\* Carrying forward makes no dispute one-sided, and the new claim is one only if what it
\* contradicts was not found in the live revision.
LEMMA NewOneSided ==
  ASSUME TypeOK, NEW d \in Draft, NEW r \in Runs,
         NEW i \in OneSided(AddNewClaims(d, r)), i \notin OneSided(Live(d.page).claims)
  PROVE  /\ i = Len(AddNewClaims(d, r))
         /\ ~Found(d) /\ d.status = "disputed"
<1> DEFINE old == Live(d.page).claims
           all == AddNewClaims(d, r)
           k == Len(old) + 1
<1>1. /\ all \in Seq(Claim) /\ Len(all) = k
      /\ \A j \in DOMAIN old : all[j] = CarryForward(d)[j]
      /\ all[k] = [by |-> r, status |-> d.status,
                   against |-> IF Found(d) THEN d.against ELSE 0]
  BY AddNewClaimsLemma
<1>2. d.page \in Pages
  BY DEF Draft
<1>3. old \in Seq(Claim)
  BY <1>2, LiveTyped
<1>4. \A j \in DOMAIN old : /\ all[j].against = old[j].against
                            /\ all[j].status = "disputed" =>
                                 old[j].status = "disputed" \/ (Found(d) /\ j = d.against)
  <2>1. \A j \in DOMAIN old : old[j] \in Claim
    BY <1>3
  <2>2. CarryForward(d) =
          [j \in DOMAIN old |->
             IF Found(d) /\ j = d.against THEN [old[j] EXCEPT !.status = "disputed"] ELSE old[j]]
    BY DEF CarryForward
  <2>3. \A j \in DOMAIN old :
          /\ CarryForward(d)[j].against = old[j].against
          /\ CarryForward(d)[j].status = "disputed" =>
               old[j].status = "disputed" \/ (Found(d) /\ j = d.against)
    BY <2>1, <2>2 DEF Claim
  <2> HIDE DEF old, all
  <2> QED BY <1>1, <2>3
<1>5. DOMAIN all = DOMAIN old \cup {k} /\ k \in DOMAIN all
  <2>1. DOMAIN old = 1 .. Len(old) /\ Len(old) \in Nat /\ DOMAIN all = 1 .. k
    <3> HIDE DEF old, all
    <3> QED BY <1>1, <1>3
  <2> HIDE DEF old, all
  <2> QED BY <2>1
<1>6. Found(d) => d.against # 0
  BY DEF Found
<1>7. /\ i \in DOMAIN all /\ all[i].status = "disputed" /\ all[i].against = 0
      /\ \A j \in DOMAIN all : all[j].against # i
      /\ ~(/\ i \in DOMAIN old /\ old[i].status = "disputed" /\ old[i].against = 0
           /\ \A j \in DOMAIN old : old[j].against # i)
  BY DEF OneSided
<1> HIDE DEF old, all, k
<1>8. i \notin DOMAIN old
  <2> SUFFICES ASSUME i \in DOMAIN old PROVE FALSE
    OBVIOUS
  <2>1. old[i].against = 0 /\ \A j \in DOMAIN old : old[j].against # i
    BY <1>4, <1>5, <1>7
  <2>2. Found(d) /\ i = d.against
    BY <1>4, <1>7, <2>1
  <2>3. all[k].against = i
    BY <1>1, <2>2
  <2> QED BY <1>5, <1>7, <2>3
<1>9. i = k
  BY <1>5, <1>7, <1>8
<1>10. ~Found(d) /\ d.status = "disputed"
  BY <1>1, <1>6, <1>7, <1>9
<1> QED BY <1>1, <1>9, <1>10 DEF all

\* Revision n of a page makes no dispute one-sided but by what was stale.
OnlyStale(revs, n) ==
  LET before == IF revs[n].base = 0 THEN <<>> ELSE revs[revs[n].base].claims
  IN  \A i \in OneSided(revs[n].claims) \ OneSided(before) :
        /\ i = Len(revs[n].claims)
        /\ Careful => revs[n].read # revs[n].base

OneSidedOnlyWhenStale == \A p \in Pages : \A n \in DOMAIN log[p] : OnlyStale(log[p], n)

LEMMA NewRevisionOnlyStale ==
  ASSUME TypeInv, DraftsName, NEW f \in Flows, Apply(f), Drafted(log, draft[f])
  PROVE  LET p == draft[f].page IN OnlyStale(log'[p], Len(log[p]) + 1)
<1> DEFINE d == draft[f]
           p == draft[f].page
           rev == log'[p][Len(log[p]) + 1]
<1>1. /\ p \in Pages
      /\ \A n \in DOMAIN log[p] : log'[p][n] = log[p][n]
      /\ rev = RevisionOf(f)
  BY ApplyLemma DEF TypeInv
<1>2. TypeOK /\ d \in Draft /\ RunOf[f] \in Runs
  BY RunOfAssumption DEF TypeInv, Drafted
<1>3. rev.base = current[p] /\ rev.read = d.read /\ rev.claims = AddNewClaims(d, RunOf[f])
  BY <1>1 DEF RevisionOf
<1>4. Live(p).claims =
        IF rev.base = 0 THEN <<>> ELSE log'[p][rev.base].claims
  BY <1>1, <1>2, <1>3, LiveTyped
<1>5. ASSUME NEW i \in OneSided(rev.claims) \ OneSided(Live(p).claims)
      PROVE  i = Len(rev.claims) /\ (Careful => rev.read # rev.base)
  <2>1. i = Len(rev.claims) /\ ~Found(d) /\ d.status = "disputed"
    BY <1>2, <1>3, <1>5, NewOneSided
  <2>2. Careful => d.against # 0
    BY <2>1 DEF DraftsName, Apply
  <2> QED BY <1>3, <2>1, <2>2 DEF Found
<1> HIDE DEF rev
<1>6. \A i \in OneSided(rev.claims) \ OneSided(IF rev.base = 0 THEN <<>> ELSE log'[p][rev.base].claims) :
        i = Len(rev.claims) /\ (Careful => rev.read # rev.base)
  BY <1>4, <1>5
<1> QED BY <1>6 DEF OnlyStale, rev

LEMMA OnlyStaleStep ==
  ASSUME TypeInv, DraftsName, BasesComeFirst, OneSidedOnlyWhenStale, [Next]_vars
  PROVE  OneSidedOnlyWhenStale'
<1>1. CASE log' = log
  BY <1>1, Zenon DEF OneSidedOnlyWhenStale
<1>2. ASSUME NEW f \in Flows, Drafted(log, draft[f]), Apply(f),
             NEW p \in Pages, NEW n \in DOMAIN log'[p]
      PROVE  OnlyStale(log'[p], n)
  <2>1. CASE p # draft[f].page
    BY <1>2, <2>1, ApplyLemma DEF TypeInv, OneSidedOnlyWhenStale
  <2>2. CASE p = draft[f].page /\ n = Len(log[p]) + 1
    BY <1>2, <2>2, NewRevisionOnlyStale
  <2>3. CASE p = draft[f].page /\ n # Len(log[p]) + 1
    <3>1. /\ Len(log'[p]) = Len(log[p]) + 1 /\ log'[p] \in Seq(Revision)
          /\ \A m \in DOMAIN log[p] : log'[p][m] = log[p][m]
      BY <1>2, <2>3, ApplyLemma DEF TypeInv
    <3>2. log[p] \in Seq(Revision)
      BY DEF TypeInv, TypeOK
    <3>3. n \in DOMAIN log[p]
      BY <2>3, <3>1, <3>2
    <3>4. /\ log'[p][n] = log[p][n]
          /\ log[p][n].base # 0 => log'[p][log[p][n].base] = log[p][log[p][n].base]
      BY <3>1, <3>3 DEF BasesComeFirst
    <3>5. OnlyStale(log[p], n)
      BY <3>3 DEF OneSidedOnlyWhenStale
    <3> QED BY <3>4, <3>5 DEF OnlyStale
  <2> QED BY <2>1, <2>2, <2>3
<1>3. CASE log' # log
  <2>1. PICK f \in Flows : Drafted(log, draft[f]) /\ Apply(f)
    BY <1>3, LogOnlyGrows DEF vars, pageVars
  <2> QED BY <1>2, <2>1 DEF OneSidedOnlyWhenStale
<1> QED BY <1>1, <1>3

\* A contradiction that is recorded is recorded on both sides, in every revision that
\* ever carries it, and no dispute loses a side: one that has a single side was made of
\* a revision that was live no more.
THEOREM BothSidesAreFlagged == Spec => []ContradictionFlagsBoth
<1> DEFINE Inv == /\ TypeInv /\ DraftsName /\ BasesComeFirst
                  /\ AllFlagBoth /\ OneSidedOnlyWhenStale
<1>1. Init => Inv
  <2>1. Init => DraftsName /\ BasesComeFirst /\ AllFlagBoth /\ OneSidedOnlyWhenStale
    BY DEF Init, DraftsName, BasesComeFirst, AllFlagBoth, OneSidedOnlyWhenStale
  <2> QED BY <2>1, TypeInit
<1>2. Inv /\ [Next]_vars => Inv'
  BY TypeStep, NamesStep, BasesStep, FlagsStep, OnlyStaleStep
<1>3. Inv => ContradictionFlagsBoth
  BY DEF AllFlagBoth, FlagsBoth, OneSidedOnlyWhenStale, OnlyStale, ClaimsBefore,
         ContradictionFlagsBoth
<1> QED BY <1>1, <1>2, <1>3, PTL DEF Spec

=============================================================================
