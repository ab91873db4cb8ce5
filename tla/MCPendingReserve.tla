-------------------------- MODULE MCPendingReserve ---------------------------
(* Small instances of PendingReserve: two keys of different size on a pool that
   has room for either and not for both. *)
EXTENDS PendingReserve, TLC

CONSTANTS h1, h2

Amounts == [h \in Holds |-> IF h = h1 THEN 2 ELSE 1]

Symmetry == Permutations(Callers) \cup Permutations(Reconcilers)

=============================================================================
