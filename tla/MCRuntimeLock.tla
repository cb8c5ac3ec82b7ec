---------------------------- MODULE MCRuntimeLock ----------------------------
(* RuntimeLock with the symmetric instances that TLC explores.             *)
EXTENDS RuntimeLock, TLC

Symmetry == Permutations(Procs) \cup Permutations(Inodes)

===============================================================================
