---------------------------- MODULE LoopProperties ----------------------------
(***************************************************************************)
(* What clients may expect of the loop of main.                            *)
(***************************************************************************)
EXTENDS RequestLoop

(* The variables have the values the code can give them; there is a client *)
(* on the socket exactly while a request is being processed.               *)
TypeOK ==
    /\ setup \in Setups
    /\ proc \in {"down", "configured", "initialised", "ended", "accepting", "header",
                 "body", "calculating", "asking", "writing"}
    /\ starts \in 0..MaxStarts
    /\ conn \in Clients \cup {NoClient}
    /\ conn # NoClient <=> proc \in {"header", "body", "calculating", "asking", "writing"}
    /\ \A c \in Clients : link[c] = "accepted" <=> conn = c
    /\ \A c \in Clients : link[c] = "waiting" <=> \E i \in DOMAIN backlog : backlog[i] = c
    /\ buf \in [Clients -> Nat] /\ sent \in [Clients -> Nat] /\ left \in [Clients -> Nat]
    /\ length \in Int /\ response \in Nat
    /\ gone \subseteq Clients /\ effect \subseteq Clients /\ refused \subseteq Clients
    /\ typed \in 0..MaxLines /\ Len(lines) <= typed

\* The client sends a header that says how much it sends, and sends that much.
Correct(c) ==
    /\ plan[c].header = [text |-> "number", digits |-> plan[c].body]
    /\ plan[c].kind # "bad"

(* Nothing that other clients do to their connections costs a correct      *)
(* request its answer.  When the server closes the connection of a client  *)
(* that kept it open, the answer has been sent, or a call of the log threw *)
(* in its handler (which a connection that an earlier call has left may    *)
(* cause, see DaoSession).  Then the request has no row, so it may be      *)
(* repeated.                                                               *)
CorrectIsAnswered ==
    \A c \in Clients :
       link[c] = "closed" /\ c \notin gone /\ Correct(c) =>
          got[c] # Nothing \/ (c \in refused /\ c \notin effect)

(* The header of an answer announces its size: a client that reads what it *)
(* announces has all of the answer and nothing is left over.               *)
AnnouncedIsActual ==
    \A c \in Clients : got[c] # Nothing => got[c].header = got[c].size

(* No client can end the process but one whose answer does not fit the     *)
(* header: not by closing early, by sending less or more than announced,   *)
(* by a header that is no number, or by a body that is no request.         *)
EndsOnlyForLength ==
    [][Listening /\ ~Listening' => \E c \in Clients : c = conn /\ ~Fits(plan[c].size)]_vars

(* A request that has a row in the log is answered, unless its client has  *)
(* gone or the process ended on the way.  So a client whose connection was *)
(* closed without an answer may try again, and one that saw it break may   *)
(* have been served.                                                       *)
EffectIsAnswered ==
    \A c \in effect :
       \/ got[c] # Nothing
       \/ c \in gone
       \/ link[c] = "reset"
       \/ conn = c /\ proc = "writing"

\* The thread waits in a read for bytes that the client has not sent.
WaitsForClient ==
    /\ proc \in {"header", "body"}
    /\ conn \notin gone
    /\ ~Arrived(IF proc = "header" THEN HEADER_LENGTH ELSE length)

\* The thread waits for the operator, or spins at the end of the input.
WaitsForOperator == proc = "asking" /\ lines = << >>

(* The only ways in which a connection can wait for ever: a client that    *)
(* was accepted falls silent without closing, the operator does not answer *)
(* (or the input has ended), or the process has ended.  In particular a    *)
(* long queue, or clients that fail, never starve anybody.                 *)
EveryConnectionEnds ==
    \A c \in Clients :
       [](link[c] = "waiting" =>
            \/ <>(link[c] \in {"closed", "reset"})
            \/ <>[]WaitsForClient
            \/ <>[]WaitsForOperator)
=============================================================================
