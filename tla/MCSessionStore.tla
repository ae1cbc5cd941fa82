--------------------------- MODULE MCSessionStore ---------------------------
(***************************************************************************)
(* Definitions for model checking SessionStore.                            *)
(***************************************************************************)
EXTENDS SessionStore, TLC

Symmetry == Permutations(Sessions) \cup Permutations(Locks)
=============================================================================
