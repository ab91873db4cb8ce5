---------------------------- MODULE MCPoolCeiling ----------------------------
(* Small instances of PoolCeiling.  Threads, requests and grant ids are
   interchangeable. *)
EXTENDS PoolCeiling, TLC

Symmetry == Permutations(Threads) \cup Permutations(Requests) \cup Permutations(GrantIds)

=============================================================================
