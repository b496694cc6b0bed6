------------------------------ MODULE MCChunking ------------------------------
(* Chunking of every stripped text up to a length.                             *)
EXTENDS Chunking

CONSTANT MaxLen

Stripped(t) == t = <<>> \/ (t[1] \in {"x", "."} /\ t[Len(t)] \in {"x", "."})
AllTexts    == {t \in UNION {[1..n -> Chars] : n \in 0..MaxLen} : Stripped(t)}

=============================================================================
