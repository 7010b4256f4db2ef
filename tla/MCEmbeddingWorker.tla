------------------------- MODULE MCEmbeddingWorker -------------------------
(* Instances of EmbeddingWorker for TLC: f1 has two chunks, f2 has none. *)
EXTENDS EmbeddingWorker, TLC

CONSTANTS f1, f2, junk, c1, c2, w1, w2, p1

MCOnePartition == [m \in Messages |-> p1]
MCChunksOf == [f \in Filings |-> IF f = f1 THEN {c1, c2} ELSE {}]

MCSymmetry == Permutations(Workers)
=============================================================================
