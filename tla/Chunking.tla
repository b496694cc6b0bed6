------------------------------- MODULE Chunking -------------------------------
(***************************************************************************)
(* chunk_text (apps/api/app/services/chunking.py): a document too long for *)
(* one compile is cut into pieces that overlap. The text is a sequence of  *)
(* characters of the classes the cuts tell apart; offsets count the        *)
(* characters before them, as in the code. One action per stage, and one   *)
(* per turn of the loop of _split_points.                                  *)
(***************************************************************************)
EXTENDS Integers, Sequences, FiniteSets

CONSTANTS
  Texts,        \* the documents, stripped
  ChunkChars,   \* DEFAULT_CHUNK_CHARS
  Overlap,      \* DEFAULT_OVERLAP_CHARS
  MinTail,      \* MIN_TAIL_CHARS
  Snap          \* the window of _snap_forward

\* A letter, a full stop, a space and a line break.
Chars == {"x", ".", " ", "n"}

\* The defaults reach back 800 of 18 000 characters, and look 40 ahead.
ASSUME ChunkAssumption ==
  /\ Texts \subseteq Seq(Chars)
  /\ ChunkChars \in Nat /\ Overlap \in Nat /\ MinTail \in Nat /\ Snap \in Nat
  /\ Snap <= Overlap /\ Overlap <= ChunkChars \div 2 /\ 1 < ChunkChars

VARIABLES
  text,
  bounds,    \* 0, the cuts found so far and, once there are no more, the length
  pieces,    \* the offsets each piece lies between, before it is stripped
  stage      \* "split", "fold", "slice", "done"

chunkVars == <<text, bounds, pieces, stage>>

Pieces == [from : Nat, upto : Nat]

ChunkTypeOK ==
  /\ text \in Texts
  /\ bounds \in Seq(Nat)
  /\ pieces \subseteq Pieces
  /\ stage \in {"split", "fold", "slice", "done"}

ChunkInit ==
  /\ text \in Texts
  /\ bounds = <<0>>
  /\ pieces = {}
  /\ stage = "split"

Char(o)   == text[o + 1]
Space(o)  == Char(o) \in {" ", "n"}
LastBound == bounds[Len(bounds)]

\* The places a cut may fall on, best first: behind a paragraph, a line, a sentence,
\* a word.
Ends(k, o) ==
  CASE k = 1 -> o >= 2 /\ Char(o - 2) = "n" /\ Char(o - 1) = "n"
    [] k = 2 -> Char(o - 1) = "n"
    [] k = 3 -> o >= 2 /\ Char(o - 2) = "." /\ Char(o - 1) = " "
    [] k = 4 -> Char(o - 1) = " "

Width(k) == IF k \in {1, 3} THEN 2 ELSE 1

\* rfind, from half the window on: the separator ends where the cut is.
Cuts(k, p) == {o \in (p + (ChunkChars \div 2) + Width(k)) .. (p + ChunkChars) : Ends(k, o)}

\* The last cut of the best kind there is; a hard cut when there is none.
BestCuts(p) ==
  {o \in (p + 1) .. (p + ChunkChars) :
     \/ \E k \in 1..4 : /\ o \in Cuts(k, p)
                        /\ \A j \in 1..4 : j < k => Cuts(j, p) = {}
                        /\ \A c \in Cuts(k, p) : c <= o
     \/ o = p + ChunkChars /\ \A k \in 1..4 : Cuts(k, p) = {}}

\* One turn of the loop of _split_points.
Split ==
  /\ stage = "split"
  /\ Len(text) - LastBound > ChunkChars
  /\ \E o \in BestCuts(LastBound) : bounds' = Append(bounds, o)
  /\ UNCHANGED <<text, pieces, stage>>

\* Mutant: a tail is spared by not cutting in front of it.
CloseBehindTail ==
  /\ stage = "split"
  /\ Len(text) - LastBound < ChunkChars + MinTail
  /\ bounds' = Append(bounds, Len(text))
  /\ stage' = "fold"
  /\ UNCHANGED <<text, pieces>>

\* The rest fits. A text that fits as a whole has no cuts.
Close ==
  /\ stage = "split"
  /\ Len(text) - LastBound <= ChunkChars
  /\ bounds' = Append(bounds, Len(text))
  /\ stage' = "fold"
  /\ UNCHANGED <<text, pieces>>

\* A runt at the end that still fits its predecessor. There is none: the cut before it
\* was made because what lay behind the one before did not fit.
Runt(n) ==
  /\ n >= 3
  /\ bounds[n] - bounds[n - 1] < MinTail
  /\ bounds[n] - bounds[n - 2] <= ChunkChars

Fold ==
  /\ stage = "fold"
  /\ LET n == Len(bounds)
     IN  bounds' = IF Runt(n) THEN Append(SubSeq(bounds, 1, n - 2), bounds[n]) ELSE bounds
  /\ stage' = "slice"
  /\ UNCHANGED <<text, pieces>>

\* How many of the offsets from p up to q start off as letters, or as spaces.
Letters(p, q) == Cardinality({o \in p .. (q - 1) : \A u \in p .. o : ~Space(u)})
Spaces(p, q)  == Cardinality({o \in p .. (q - 1) : \A u \in p .. o : Space(u)})

\* _snap_forward: over the rest of a word and the spaces behind it, within its window.
SnapForward(p) ==
  LET q == IF p + Snap <= Len(text) THEN p + Snap ELSE Len(text)
      w == p + Letters(p, q)
  IN  w + Spaces(w, q)

\* Mutant: the start is snapped, but does not reach back.
NoOverlap(i) == IF i = 1 THEN 0 ELSE SnapForward(bounds[i])

Reach(i) == IF bounds[i] >= Overlap THEN bounds[i] - Overlap ELSE 0
Start(i) == IF i = 1 THEN 0 ELSE SnapForward(Reach(i))

Blank(p) == \A o \in p.from .. (p.upto - 1) : Space(o)

\* The pieces, without those that strip to nothing.
Slice ==
  /\ stage = "slice"
  /\ pieces' = {p \in {[from |-> Start(i), upto |-> bounds[i + 1]] : i \in 1 .. (Len(bounds) - 1)} :
                  ~Blank(p)}
  /\ stage' = "done"
  /\ UNCHANGED <<text, bounds>>

ChunkNext == Split \/ Close \/ Fold \/ Slice

ChunkSpec == ChunkInit /\ [][ChunkNext]_chunkVars

-----------------------------------------------------------------------------
(* Properties.                                                               *)

\* No character is dropped (test_chunking.py: the property that matters): whatever is
\* not a space is in some piece, wherever the cuts fell.
NoCharacterDropped ==
  stage = "done" =>
    \A o \in 0 .. (Len(text) - 1) :
      Space(o) \/ \E p \in pieces : p.from <= o /\ o < p.upto

\* No piece outgrows the compile's window by more than the overlap in front of it
\* (test_chunking.py:65): no cut lies further than the limit behind the one before, and
\* a start that reaches back is snapped towards its cut, never away from it.
PiecesFit == \A p \in pieces : p.upto - p.from <= ChunkChars + Overlap

=============================================================================
