---------------------------- MODULE MCInitManager ----------------------------
(* Handlers are interchangeable in the safety run of InitManager. *)
EXTENDS InitManager, TLC

Symmetry == Permutations(Requests)
=============================================================================
