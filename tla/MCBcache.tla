------------------------------ MODULE MCBcache ------------------------------
(* TLC instances of Bcache. *)
EXTENDS Bcache, TLC
Symm == Permutations(Procs) \cup Permutations(Bufs)
=============================================================================
