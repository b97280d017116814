---------------------------- MODULE MCGeneration ----------------------------
(* Bounded instances of Generation for TLC.                                *)
EXTENDS Generation, TLC

\* Ids are only compared for equality.
Symmetric == Permutations(Gens) \cup Permutations(Keys) \cup Permutations(Requests)
=============================================================================
