------------------------------- MODULE MCStore -------------------------------
(***************************************************************************)
(* Instances of StoreRefinement for TLC.                                   *)
(***************************************************************************)
EXTENDS StoreRefinement, TLC

CONSTANTS t1, t2, d1, d2, a, b, F, G

PathOfFiles == (a :> F) @@ (b :> G)
DiskFG == (F :> d1) @@ (G :> NoFile)
=============================================================================
