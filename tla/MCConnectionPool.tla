-------------------------- MODULE MCConnectionPool --------------------------
(* Pools whose connectionIDs, and whose blocks, are interchangeable. *)
EXTENDS ConnectionPool, TLC

Symmetry == Permutations(ConnIDs) \cup Permutations(Incoming)
=============================================================================
