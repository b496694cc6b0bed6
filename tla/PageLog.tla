------------------------------- MODULE PageLog -------------------------------
(***************************************************************************)
(* What the wiki promises of a page (apps/api/app/models.py,               *)
(* WikiPageRevision: "every compile writes a new revision instead of       *)
(* mutating the page"): an append-only list of revisions, each the set of  *)
(* sources it tells, and a pointer to the live one. A compile appends a    *)
(* revision with every source of the live one and one more; undo moves the *)
(* pointer. PageHistory implements it.                                     *)
(***************************************************************************)
EXTENDS Naturals, Sequences

CONSTANTS Pages, Sources

VARIABLES
  revisions,   \* for each page, its revisions in order
  live         \* for each page, the number of its live revision, 0 for none

Known(p) == IF live[p] = 0 THEN {} ELSE revisions[p][live[p]]

Init ==
  /\ revisions = [p \in Pages |-> <<>>]
  /\ live = [p \in Pages |-> 0]

Compile(p, source) ==
  /\ revisions' = [revisions EXCEPT ![p] = Append(@, Known(p) \cup {source})]
  /\ live' = [live EXCEPT ![p] = Len(revisions[p]) + 1]

Undo(p, n) ==
  /\ live' = [live EXCEPT ![p] = n]
  /\ UNCHANGED revisions

Next ==
  \E p \in Pages :
    \/ \E source \in Sources : Compile(p, source)
    \/ \E n \in DOMAIN revisions[p] : Undo(p, n)

Spec == Init /\ [][Next]_<<revisions, live>>

=============================================================================
