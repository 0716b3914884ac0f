--------------------------- MODULE MCModelManager ---------------------------
(* Small instances of ModelManager.                                         *)
EXTENDS ModelManager, TLC

\* Neither models nor requests differ from one another.
ManagerSymmetry == Permutations(Models) \cup Permutations(Requests)
=============================================================================
