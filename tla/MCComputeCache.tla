--------------------------- MODULE MCComputeCache ----------------------------
(* A small instance of ComputeCache.                                          *)
EXTENDS ComputeCache, TLC

CONSTANT InRedis    \* how many quotes Redis holds at most

MCSpec == Init /\ [][Next /\ Cardinality(Keys(l2)') <= InRedis]_vars

Symmetry == Permutations(Ticker) \cup Permutations(Thread)
=============================================================================
