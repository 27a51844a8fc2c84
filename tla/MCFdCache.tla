----------------------------- MODULE MCFdCache -----------------------------
(* The table alone: two names, paths of at most two components.            *)
EXTENDS FdCache, TLC

NameSymmetry == Permutations(Name)
=============================================================================
