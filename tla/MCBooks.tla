------------------------------ MODULE MCBooks ------------------------------
(* A small instance of Books: one hold of older code, two new ones. *)
EXTENDS Books, TLC
CONSTANTS o, h1, h2, k1, k2, c1, c2
MCPages == <<{o, h1}, {h2}>>
\* Each job on its own: batches of two new holds, a fold of two pages, a race of two calls for one key.
MCDeployments ==
  {[jobs |-> {"projector"}, callers |-> {c1}, keys |-> {k1, k2}, old |-> {}],
   [jobs |-> {"audit"}, callers |-> {c1}, keys |-> {k1}, old |-> {o}],
   [jobs |-> {"repair"}, callers |-> {c1, c2}, keys |-> {k1}, old |-> {o}]}
=============================================================================
