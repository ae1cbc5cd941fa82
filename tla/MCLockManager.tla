--------------------------- MODULE MCLockManager ---------------------------
(***************************************************************************)
(* Instances of LockManager for TLC.                                       *)
(***************************************************************************)
EXTENDS LockManager, TLC

\* Two valid sizes and an invalid one.
SizesRequested == {-1, 1, 2}

\* Keys are only compared and goroutines and objects only index functions.
\* (The order of a queue is the order of arrival, not that of the values.)
Symmetry == Permutations(Names) \cup Permutations(Keys) \cup Permutations(Threads) \cup Permutations(Objs)
=============================================================================
