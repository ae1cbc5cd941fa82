---------------------------- MODULE MCLockServer ----------------------------
(***************************************************************************)
(* Definitions for model checking LockServer.                              *)
(***************************************************************************)
EXTENDS LockServer, TLC

Symmetry == Permutations(Keys) \cup Permutations(Sessions)
=============================================================================
