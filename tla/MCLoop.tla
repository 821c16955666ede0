-------------------------------- MODULE MCLoop --------------------------------
(***************************************************************************)
(* Instances of RequestLoop for TLC, with a header of one digit: answers   *)
(* of ten bytes or more do not fit.                                        *)
(***************************************************************************)
EXTENDS LoopProperties

CONSTANTS c1, c2, c3

Number(n) == [text |-> "number", digits |-> n]
Request(h, n, k, size) == [header |-> h, body |-> n, kind |-> k, size |-> size]

\* Correct requests with answers around the limit, a body shorter and one longer
\* than announced, the three ways of a wrong header, and a body that is no request.
AllPlans ==
    {Request(Number(1), 1, "operation", size) : size \in {9, 10}}
      \cup {Request(Number(1), 1, k, 2) : k \in {"prepare", "unsupported", "bad"}}
      \cup {Request(Number(2), 1, "operation", 2), Request(Number(1), 2, "operation", 2)}
      \cup {Request([text |-> "minus", digits |-> 1], 1, "operation", 2),
            Request([text |-> "other", digits |-> 0], 1, "operation", 2)}
=============================================================================
