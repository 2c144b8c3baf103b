---------------------------- MODULE MCSimilarity ----------------------------
(****************************************************************************)
(* Three goroutines and the pool as it is by default.  One connection more  *)
(* than goroutines may be open.                                             *)
(****************************************************************************)
EXTENDS SimilaritySessions, TLC

CONSTANTS r1, r2, r3, c1, c2, c3, c4

MCSymmetry == Permutations({r1, r2, r3}) \cup Permutations({c1, c2, c3, c4})
=============================================================================
