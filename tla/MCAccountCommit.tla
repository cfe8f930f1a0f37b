-------------------------- MODULE MCAccountCommit --------------------------
(***************************************************************************)
(* Instances of AccountCommit for TLC.                                     *)
(***************************************************************************)
EXTENDS AccountCommit, TLC

AccountSymmetry == Permutations(Accounts)
=============================================================================
