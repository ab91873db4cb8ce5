-------------------------------- MODULE Sums --------------------------------
(* Sums of a function into the naturals, counted as the units it stands for:
   one pair per key and micro-dollar.  Stated with Cardinality so that both the
   model checker and the library's theorems on finite sets apply. *)
EXTENDS Integers, FiniteSets

\* The units of one key.
Block(k, n) == {k} \X (1 .. n)

Units(f) == UNION {Block(k, f[k]) : k \in DOMAIN f}

Total(f) == Cardinality(Units(f))

=============================================================================
