--------------------------- MODULE MCHoldLifecycle ---------------------------
(* Small instances of HoldLifecycle.  Each cfg picks one amount, token debit and
   source per hold. *)
EXTENDS HoldLifecycle, TLC

CONSTANTS h1, h2

\* Two holds of the same request path, of different size, or one of each source.
Amounts == [h \in Holds |-> IF h = h1 THEN 2 ELSE 1]
OneToken == [h \in Holds |-> IF Source[h] = "inline" THEN 1 ELSE 0]
NoTokens == [h \in Holds |-> 0]
AllInline == [h \in Holds |-> "inline"]
AllExternal == [h \in Holds |-> "external"]
OneOfEach == [h \in Holds |-> IF h = h1 THEN "inline" ELSE "external"]

Symmetry == Permutations(Callers) \cup Permutations(Reapers)

=============================================================================
