---------------------------- MODULE MCMemoryCache ----------------------------
(* Instances of MemoryCache for TLC.                                       *)
EXTENDS MemoryCache

\* Keys are interchangeable.
Symmetry == Permutations(Keys)
=============================================================================
