--------------------------- MODULE MCInterimChunker ---------------------------
(* The chunker over two segments of short utterances.                       *)
EXTENDS InterimChunker

ChunkerSymmetry == Permutations(Words)
=============================================================================
