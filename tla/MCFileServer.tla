---------------------------- MODULE MCFileServer ----------------------------
(***************************************************************************)
(* Instances of FileServer for TLC.                                        *)
(***************************************************************************)
EXTENDS FileServerProperties, TLC

CONSTANTS t1, t2, d1, d2, a, a2, b, F, G

\* a and a2 are two spellings of one file, as "a.txt" and "A.TXT".
PathOfFiles   == (a :> F) @@ (b :> G)
PathOfOne     == (a :> F)

\* The directory of the repository's instance1 holds one file with content.
PathOfAll     == (a :> F) @@ (a2 :> F) @@ (b :> G)

DiskF  == (F :> d1)
DiskFG == (F :> d1) @@ (G :> NoFile)

DiskNone == (F :> NoFile)

Symmetry == Permutations(Transactions)
DataSymmetry == Permutations(Transactions) \cup Permutations({d1, d2})
=============================================================================
