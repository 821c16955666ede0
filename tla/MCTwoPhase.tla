------------------------------ MODULE MCTwoPhase ------------------------------
(***************************************************************************)
(* Instances of TwoPhaseCommit for TLC.                                    *)
(***************************************************************************)
EXTENDS TwoPhaseProperties, TLC

CONSTANTS s1, s2, t1, t2, d0, d1, d2, a, b

Read(s, f) == [server |-> s, name |-> "read", filename |-> f, data |-> Empty]
Write(s, f, d) == [server |-> s, name |-> "write", filename |-> f, data |-> d]

\* One transaction reads two files of a server that the other overwrites, and
\* both write one of them.
Conflicting ==
    (t1 :> <<Read(s1, b), Read(s1, a), Write(s1, a, d1)>>)
      @@ (t2 :> <<Write(s1, a, d2), Write(s1, b, d2)>>)

\* One transaction writes on two servers, the other reads and writes the file of
\* one of them.
Spanning ==
    (t1 :> <<Write(s1, a, d1), Write(s2, a, d1)>>)
      @@ (t2 :> <<Read(s2, a), Write(s2, a, d2)>>)
=============================================================================
