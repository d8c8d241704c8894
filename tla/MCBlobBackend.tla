--------------------------- MODULE MCBlobBackend ----------------------------
(* Three contents: a short, a longer and an empty one; two volumes of three *)
(* cells; two writers.  Every durability mode and every backend.            *)
EXTENDS BlobBackend, TLC

CONSTANTS a, b, e

MCCells == a :> 1 @@ b :> 2 @@ e :> 0

WriterSymmetry == Permutations(Writers)
=============================================================================
