--------------------------- MODULE MCVectorStore ----------------------------
(***************************************************************************)
(* Instances of VectorStore: two writers race on one or two files while    *)
(* two searches run.  A file may be empty, hold one chunk, or two equal or *)
(* different ones.                                                         *)
(***************************************************************************)
EXTENDS VectorStore, TLC

CONSTANTS c1, c2

MCFile == {<<>>, <<c1>>, <<c2, c1>>}
MCFileTwins == {<<c1>>, <<c2, c1>>, <<c1, c1>>}
MCFileOne == {<<c1>>}

MCSymmetry == Permutations(Reader) \union Permutations(Writer)
=============================================================================
