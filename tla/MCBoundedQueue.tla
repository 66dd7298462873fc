--------------------------- MODULE MCBoundedQueue ---------------------------
(* Model-checking instance of BoundedQueue: two producers, three consumers *)
(* (so a notification can reach the wrong one) and more values than fit.   *)
EXTENDS BoundedQueue, TLC

ThreadSymmetry == Permutations(Producers) \cup Permutations(Consumers)
=============================================================================
