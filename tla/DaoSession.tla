------------------------------ MODULE DaoSession ------------------------------
(***************************************************************************)
(* The calls of dao.cpp one after the other in one process, as they use    *)
(* SQLite: open, prepare, bind, step, finalize, close, with an exception   *)
(* wherever a result is not the expected one.  Only a call that gets to    *)
(* its end closes its connection; the others leave it open, with whatever  *)
(* lock its statement holds, for as long as the process runs.              *)
(* What a step of a statement does to the file is RollbackJournal.         *)
(***************************************************************************)
EXTENDS Integers, FiniteSets

CONSTANTS
    Handles,    \* bound: connections the process can have open
    NoHandle,
    MaxRows, MaxFaults  \* bounds: rows; failures and ends of the process

ASSUME SessionConstants ==
    /\ IsFiniteSet(Handles) /\ NoHandle \notin Handles
    /\ MaxRows \in Nat /\ MaxFaults \in Nat

VARIABLES
    kind,       \* the call in progress
    at,         \* what it is about to do
    mine,       \* its connection
    opened,     \* of each connection, the kind of call that opened it
    locked,     \* connections whose statement stands on a row, and holds a read lock
    rows,       \* rows of the table OPERATION
    left,       \* connections of calls that have thrown (history)
    faults

vars == <<kind, at, mine, opened, locked, rows, left, faults>>

\* insertOperation, the queries that count, the last content of a file, and the
\* pending writes.
Kinds == {"insert", "count", "last", "pending"}

Closed == "closed"

Init ==
    /\ kind = "insert" /\ at = "start" /\ mine = NoHandle
    /\ opened = [h \in Handles |-> Closed] /\ locked = {}
    /\ rows = 0 /\ left = {} /\ faults = 0

Open == {h \in Handles : opened[h] # Closed}

Fault == faults < MaxFaults /\ faults' = faults + 1
NoFault == UNCHANGED faults

\* The result is the expected one.
Proceed(step) == at' = step /\ UNCHANGED <<kind, mine, rows, left>> /\ NoFault

\* The exception passes through dao and controller to the catch in main.
Throw(connections) ==
    /\ at' = "start" /\ mine' = NoHandle /\ left' = left \cup connections
    /\ UNCHANGED <<kind, rows>>

Fails == Throw({mine}) /\ Fault

\* One call at a time.  The last content is asked for only if there is one.
Call(k) ==
    /\ at = "start"
    /\ k = "insert" => rows < MaxRows
    /\ k = "last" => rows > 0
    /\ kind' = k /\ at' = "open"
    /\ UNCHANGED <<mine, opened, locked, rows, left>> /\ NoFault

\* sqlite3_open returns a connection even when it fails.
OpenDatabase ==
    /\ at = "open"
    /\ \/ \E h \in Handles \ Open :
             /\ opened' = [opened EXCEPT ![h] = kind]
             /\ \/ at' = "prepare" /\ mine' = h /\ UNCHANGED <<kind, rows, left>> /\ NoFault
                \/ Throw({h}) /\ Fault
       \/ Open = Handles /\ Throw({}) /\ UNCHANGED opened /\ NoFault
    /\ UNCHANGED locked

PrepareStatement ==
    /\ at = "prepare"
    /\ Proceed("bind") \/ Fails
    /\ UNCHANGED <<opened, locked>>

BindTextParam ==
    /\ at = "bind"
    /\ Proceed("step") \/ Fails
    /\ UNCHANGED <<opened, locked>>

\* The commit needs the file for itself: a read lock that was left behind makes
\* it fail, and so may the file system.
StepInsert ==
    /\ at = "step" /\ kind = "insert"
    /\ \/ locked = {} /\ rows' = rows + 1 /\ at' = "finalize" /\ UNCHANGED <<kind, mine, left>> /\ NoFault
       \/ locked # {} /\ Throw({mine}) /\ NoFault
       \/ Fails
    /\ UNCHANGED <<opened, locked>>

\* Queries that count have one row, the others may have none.
StepQuery ==
    /\ at = "step" /\ kind \in {"count", "last", "pending"}
    /\ \/ /\ kind = "count" \/ rows > 0
          /\ Proceed("row") /\ locked' = locked \cup {mine}
       \/ kind = "pending" /\ Proceed("finalize") /\ UNCHANGED locked
       \/ Fails /\ UNCHANGED locked
    /\ UNCHANGED opened

GetText_Counts ==
    /\ at = "row"
    /\ Proceed("again") \/ Fails
    /\ UNCHANGED <<opened, locked>>

\* getText and push_back copy the texts and may run out of memory; an integer
\* is just taken.
GetText ==
    /\ at = "row"
    /\ \/ Proceed("again")
       \/ kind \in {"last", "pending"} /\ Fails
    /\ UNCHANGED <<opened, locked>>

StepAgain_Locked ==
    /\ at = "again"
    /\ Proceed("finalize") \/ Fails
    /\ UNCHANGED <<opened, locked>>

\* The statement stops, in success or failure, and gives up its lock, or goes
\* on to the next of several rows.
StepAgain ==
    /\ at = "again"
    /\ \/ /\ locked' = locked \ {mine}
          /\ Proceed("finalize") \/ Fails
       \/ kind = "pending" /\ rows > 1 /\ Proceed("row") /\ UNCHANGED locked
    /\ UNCHANGED opened

CloseStatement_Unclosed ==
    /\ at = "finalize" /\ at' = "start" /\ mine' = NoHandle
    /\ UNCHANGED <<kind, opened, locked, rows, left>> /\ NoFault

(* sqlite3_finalize repeats the result of the last step, which was a success, *)
(* and leaves sqlite3_close no statement to refuse for.                       *)
CloseStatement ==
    /\ at = "finalize"
    /\ opened' = [opened EXCEPT ![mine] = Closed]
    /\ at' = "start" /\ mine' = NoHandle
    /\ UNCHANGED <<kind, locked, rows, left>> /\ NoFault

\* The process ends, which closes everything, and is started again.
Restart ==
    /\ Fault
    /\ at' = "start" /\ mine' = NoHandle
    /\ opened' = [h \in Handles |-> Closed] /\ locked' = {} /\ left' = {}
    /\ UNCHANGED <<kind, rows>>

----------------------------------------------------------------------------
Next ==
    \/ \E k \in Kinds : Call(k)
    \/ OpenDatabase \/ PrepareStatement \/ BindTextParam
    \/ StepInsert \/ StepQuery \/ GetText \/ StepAgain \/ CloseStatement
    \/ Restart

Spec == Init /\ [][Next]_vars

----------------------------------------------------------------------------
(* The variables have the values the code can give them; only a connection *)
(* that is open holds a lock, and a call has one from open to close.       *)
TypeOK ==
    /\ kind \in Kinds /\ at \in {"start", "open", "prepare", "bind", "step", "row", "again", "finalize"}
    /\ opened \in [Handles -> Kinds \cup {Closed}]
    /\ mine = NoHandle <=> at \in {"start", "open"}
    /\ mine # NoHandle => opened[mine] = kind
    /\ locked \subseteq Open
    /\ rows \in 0..MaxRows /\ faults \in 0..MaxFaults

(* Connections are lost by exceptions and by nothing else: those open are  *)
(* the one in use and those of the calls that have thrown, none of which   *)
(* is closed before the process ends.                                      *)
LostByExceptions == Open = left \cup ({mine} \ {NoHandle})

(* What an exception leaves behind can fail a later call, to which nothing *)
(* happened itself, in two ways only: all connections are used up, or an   *)
(* insert meets the read lock of a call that had died on a row with a text *)
(* in it.  A failed insert or count never stops the log.                   *)
RefusedForAReason ==
    [][at \notin {"start", "finalize"} /\ at' = "start" /\ faults' = faults =>
         \/ Open = Handles
         \/ kind = "insert" /\ \E h \in Open \ {mine} : opened[h] \in {"last", "pending"}]_vars
=============================================================================
