---------------------------- MODULE MCStateStore ----------------------------
(***************************************************************************)
(* StateStore for TLC: runners that claim are interchangeable.             *)
(***************************************************************************)
EXTENDS StateStore, TLC

RunnerSymmetry == Permutations(Runners)
=============================================================================
