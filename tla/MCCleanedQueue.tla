--------------------------- MODULE MCCleanedQueue ---------------------------
(* CleanedQueue for TLC: nothing is promised of a queue that was disturbed. *)
EXTENDS CleanedQueue, TLC
CONSTANTS t1, t2, t3, server, recovery

Undisturbed == ~ disturbed
Symmetry == Permutations(Ingesters) \cup Permutations(Traces)
=============================================================================
