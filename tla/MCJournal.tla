------------------------------ MODULE MCJournal ------------------------------
(***************************************************************************)
(* Instances of RollbackJournal for TLC.                                   *)
(***************************************************************************)
EXTENDS JournalProperties, TLC

CONSTANTS i1, i2, q

Symmetry == Permutations(Writers)
=============================================================================
