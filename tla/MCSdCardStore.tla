--------------------------- MODULE MCSdCardStore ---------------------------
(* Small instances of SdCardStore: contents a and b fill a chunk, c is a    *)
(* shorter last chunk.                                                      *)
EXTENDS SdCardStore, TLC

CONSTANTS a, b, c

MCContent == {a, b, c}
MCTwoContents == {a, b}
GenSymmetry == Permutations(Generations)
MCByteSize == [x \in Content |-> IF x = c THEN 1 ELSE 2]
=============================================================================
