----------------------------- MODULE MCEngine -----------------------------
(* Instances of Engine for TLC.                                            *)
EXTENDS Engine, TLC

\* Requests of one kind, and infohashes, are interchangeable.
Symmetry == Permutations(Play) \cup Permutations(Warm) \cup Permutations(Infohash)
=============================================================================
