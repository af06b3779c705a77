---------------------------- MODULE MCCachePool -----------------------------
(* Model-checking instance of CachePool. *)
EXTENDS CachePool, TLC

Symmetry == Permutations(Keys) \cup Permutations(Threads)
=============================================================================
