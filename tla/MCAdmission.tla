---------------------------- MODULE MCAdmission ----------------------------
EXTENDS Admission, TLC
CONSTANTS big, small
MCChain == <<big, small>>
MCCost == (big :> 2) @@ (small :> 1)
MCQuotaOf == (big :> 2) @@ (small :> -1)
Symmetry == Permutations(Requests) \cup Permutations(Setters)
=============================================================================
