------------------------------ MODULE AtomicLog ------------------------------
(***************************************************************************)
(* What the log operations of dao.cpp take for granted of the database:    *)
(* an insert happens at once or not at all, a query sees one moment, a     *)
(* call that fails has changed nothing, and the end of a process loses     *)
(* nothing.  A power loss may take back the last insert, and only that.    *)
(***************************************************************************)
CONSTANTS
    Calls,      \* the calls to the database; each is made once
    Writers,    \* the calls that insert; the others query
    Pages,      \* the parts of the database
    InitialImages,
    NoAnswer

VARIABLES
    image,      \* the database: of each page, the inserts that it shows
    previous,   \* what a power loss may leave instead
    outcome,    \* of each call: "idle", "running", "inserted", "done", "failed" or "gone"
    answer      \* what each query has seen

vars == <<image, previous, outcome, answer>>

Init ==
    /\ image \in InitialImages /\ previous = image
    /\ outcome = [c \in Calls |-> "idle"]
    /\ answer = [c \in Calls |-> NoAnswer]

\* Besides what a step does, the image may reach the disk for good.
Settles == previous' \in {previous, image'}

Becomes(c, s) == outcome' = [outcome EXCEPT ![c] = s]

Call(c) ==
    /\ outcome[c] = "idle" /\ Becomes(c, "running")
    /\ UNCHANGED <<image, answer>> /\ Settles

Insert(c) ==
    /\ c \in Writers /\ outcome[c] = "running" /\ Becomes(c, "inserted")
    /\ \E W \in SUBSET Pages :
          /\ W # {}
          /\ \A p \in Pages \ W : image'[p] = image[p]
          /\ \A p \in W : c \in image'[p] /\ image'[p] \cap Writers = (image[p] \cap Writers) \cup {c}
    /\ previous' \in {image, image'}
    /\ UNCHANGED answer

Query(c) ==
    /\ c \notin Writers /\ outcome[c] = "running" /\ Becomes(c, "done")
    /\ answer' = [answer EXCEPT ![c] = image]
    /\ UNCHANGED image /\ Settles

\* The caller is told that the row is in, that the call failed, or nothing as
\* its process has ended.
End(c, s) ==
    /\ \/ outcome[c] = "running" /\ s \in {"failed", "gone"}
       \/ outcome[c] = "inserted" /\ s \in {"done", "gone"}
    /\ Becomes(c, s)
    /\ UNCHANGED <<image, answer>> /\ Settles

\* Every call in progress is gone.
PowerLoss ==
    /\ image' \in {image, previous} /\ previous' = image'
    /\ outcome' = [c \in Calls |-> IF outcome[c] \in {"running", "inserted"} THEN "gone" ELSE outcome[c]]
    /\ UNCHANGED answer

Settle == Settles /\ UNCHANGED <<image, outcome, answer>>

Next ==
    \/ \E c \in Calls : Call(c) \/ Insert(c) \/ Query(c) \/ \E s \in {"done", "failed", "gone"} : End(c, s)
    \/ PowerLoss
    \/ Settle

Spec == Init /\ [][Next]_vars
=============================================================================
