------------------------------ MODULE MCSession ------------------------------
(***************************************************************************)
(* Instances of DaoSession for TLC.                                        *)
(***************************************************************************)
EXTENDS DaoSession, TLC

Symmetry == Permutations(Handles)
=============================================================================
