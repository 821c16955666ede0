---------------------------- MODULE TwoPhaseCommit ----------------------------
(***************************************************************************)
(* Several servers in automatic mode and the transactions that use them.   *)
(* Each transaction is a program of reads and writes; its coordinator then *)
(* asks the servers it used to prepare, decides, and repeats the decision  *)
(* until every one of them has answered.  The servers are the code of this *)
(* repository; the coordinators are not, and are modelled by what the      *)
(* messages of the servers are for.  A request travels in a connection of  *)
(* its own: it may never arrive, its answer may be lost, and the server    *)
(* may take it from the backlog long after the sender gave up, so requests *)
(* also arrive late and in another order than they were sent.              *)
(*                                                                         *)
(* A handler is one step here, as the loop of a server finishes one before *)
(* it takes the next.  What can fail in it is part of the step: reads that *)
(* do not open their file, writes of a commit that do not take effect and  *)
(* that nothing checks, and a commit that ends before its row is inserted, *)
(* with the process or because the insert throws (HandleCutShort).  A call *)
(* of the log that throws before anything is changed is a lost request.    *)
(***************************************************************************)
EXTENDS OperationLog

CONSTANTS
    Servers,
    Program,        \* the operations of each transaction, in order
    InitialContent, \* what every file holds at first
    NoTransaction,
    MaxLosses,      \* bound: lost requests and answers, and handlers in which calls fail
    MaxTimeouts     \* bound: times a coordinator stops waiting too early

Operations ==
    [server : Servers, name : FileOperations, filename : Filenames, data : Data]

ASSUME ProgramOK ==
    /\ Program \in [Transactions -> Seq(Operations)]
    /\ \A t \in Transactions : Program[t] # << >>
    /\ InitialContent \in Data
    /\ NoTransaction \notin Transactions
    /\ MaxLosses \in Nat /\ MaxTimeouts \in Nat

VARIABLES
    log,        \* the OPERATION table of each server
    disk,       \* the shared directory of each server
    net,        \* requests sent and not yet accepted
    phase,      \* what the coordinator of each transaction is doing
    number,     \* its current operation, or the attempt at its decision
    heard,      \* what each server answered to the current requests
    torn,       \* history: files touched by a commit that was cut short, and not since by a whole one
    missed,     \* history: files whose last recorded commit did not write what it should
    losses, timeouts

vars == <<log, disk, net, phase, number, heard, torn, missed, losses, timeouts>>

Participants(t) == {Program[t][i].server : i \in DOMAIN Program[t]}

Phases ==
    {"working", "prepare", "global_commit", "global_abort", "committed", "aborted"}

Decisions == {"global_commit", "global_abort"}

Request(t, s, kind, n) == [txn |-> t, server |-> s, kind |-> kind, number |-> n]

Init ==
    /\ log = [s \in Servers |-> << >>]
    /\ disk = [s \in Servers |-> [f \in Filenames |-> InitialContent]]
    /\ net = {Request(t, Program[t][1].server, "working", 1) : t \in Transactions}
    /\ phase = [t \in Transactions |-> "working"]
    /\ number = [t \in Transactions |-> 1]
    /\ heard = [t \in Transactions |-> [s \in Servers |-> "nothing"]]
    /\ torn = [s \in Servers |-> {}]
    /\ missed = [s \in Servers |-> {}]
    /\ losses = 0
    /\ timeouts = 0

-----------------------------------------------------------------------------
(* The servers.  Every spelled name is a file of its own here.               *)
Server(s) == INSTANCE FileServer WITH
    log <- log[s], disk <- disk[s], Files <- Filenames,
    PathOf <- [f \in Filenames |-> f],
    InitialDisk <- [f \in Filenames |-> InitialContent],
    NoFile <- NoFilename, AutoMode <- TRUE, MaxLog <- 0, MaxFaults <- 0,
    pc <- "ready", txn <- NoTransaction, pending <- {}, reply <- Empty,
    sync <- [f \in Filenames |-> "recorded"], misread <- {}, faults <- 0

DecisionRow_Vote(kind, t) ==
    PlainRow(IF kind = "global_commit" THEN "vote_commit" ELSE "vote_abort", t)

\* A decision is recorded under its own name, although it is answered as a vote.
DecisionRow(kind, t) == PlainRow(kind, t)

\* The row that the handler of request m inserts.
RowFor(m) ==
    LET t == m.txn
        op == Program[t][m.number]
    IN  CASE m.kind = "working" /\ op.name = "read" ->
               FileRow("read", t, op.filename,
                       Server(m.server)!FileContent(t, op.filename))
          [] m.kind = "working" /\ op.name = "write" ->
               FileRow("write", t, op.filename, op.data)
          [] m.kind = "prepare" ->
               PlainRow(Server(m.server)!Vote(
                            Server(m.server)!CanAutoCommitTransaction(t)), t)
          [] m.kind \in Decisions -> DecisionRow(m.kind, t)

\* getFileContentFromHardDrive does not check that the file opens.
ReadsFile(m) ==
    /\ m.kind = "working"
    /\ LET op == Program[m.txn][m.number]
       IN  /\ op.name = "read"
           /\ ~FileWasWrittenInThisTransaction(log[m.server], m.txn, op.filename)

UnopenedRow(m) == FileRow("read", m.txn, Program[m.txn][m.number].filename, Empty)

RowsFor(m) == {RowFor(m)} \cup IF ReadsFile(m) THEN {UnopenedRow(m)} ELSE {}

\* A file is opened, which truncates it, written and closed.
Outcomes == {"written", "unopened", "unwritten"}

\* What commitPendingWrites leaves of directory d when it goes through the writes
\* in the domain of o, in order, with the outcomes o.
Applied(l, d, o) ==
    [f \in Filenames |->
        LET opened == {i \in DOMAIN o : l[i].filename = f /\ o[i] # "unopened"}
        IN  IF opened = {} THEN d[f]
            ELSE IF o[Max(opened)] = "written" THEN l[Max(opened)].data ELSE Empty]

\* The files that it touches, and those in which its last write is missing.
Touched(l, o) == {l[i].filename : i \in {j \in DOMAIN o : o[j] # "unopened"}}

Missing(l, o) ==
    {l[i].filename : i \in {j \in DOMAIN o :
        /\ o[j] # "written"
        /\ \A k \in DOMAIN o : l[k].filename = l[j].filename => k <= j}}

Pending(m) == PendingWrites(log[m.server], m.txn)

AllWritten(m) == [i \in Pending(m) |-> "written"]

Installs_OnAbort(m) == m.kind \in Decisions

Installs(m) == m.kind = "global_commit"

\* What may come of the writes that the handler of m carries out.
Installations(m) == IF Installs(m) THEN [Pending(m) -> Outcomes] ELSE {AllWritten(m)}

PathsWritten(m) == {log[m.server][i].filename : i \in Pending(m)}

AnswerName_OfItsOwn(row) == row.name

\* A request is answered with a vote whatever its kind; which one it answers is
\* known from the connection.
AnswerName(row) ==
    CASE row.name \in {"vote_commit", "global_commit"} -> "vote_commit"
      [] row.name \in {"vote_abort", "global_abort"} -> "vote_abort"
      [] OTHER -> "done"

\* The coordinator still waits for the answer to m.
Awaited(m) ==
    /\ phase[m.txn] = m.kind /\ number[m.txn] = m.number
    /\ heard[m.txn][m.server] = "nothing"

\* Nothing fails in the handler of m, and its answer arrives.
Healthy(m, row, o, delivered) == row = RowFor(m) /\ o = AllWritten(m) /\ delivered

\* The handler inserts row after its writes, if it has any, had outcomes o.  It
\* answers the same whatever they were.
Handle(m, row, o, delivered) ==
    /\ m \in net
    /\ net' = net \ {m}
    /\ log' = [log EXCEPT ![m.server] = InsertOperation(@, row)]
    /\ IF Installs(m)
       THEN /\ disk' = [disk EXCEPT ![m.server] = Applied(log[m.server], @, o)]
            /\ torn' = [torn EXCEPT ![m.server] = @ \ PathsWritten(m)]
            /\ missed' = [missed EXCEPT ![m.server] =
                            (@ \ PathsWritten(m)) \cup Missing(log[m.server], o)]
       ELSE UNCHANGED <<disk, torn, missed>>
    /\ IF delivered /\ Awaited(m)
       THEN heard' = [heard EXCEPT ![m.txn][m.server] = AnswerName(row)]
       ELSE heard' = heard
    /\ IF Healthy(m, row, o, delivered)
       THEN losses' = losses ELSE losses < MaxLosses /\ losses' = losses + 1
    /\ UNCHANGED <<phase, number, timeouts>>

HandleCutShort_Answered(m) ==
    /\ m \in net /\ Installs(m)
    /\ losses < MaxLosses /\ losses' = losses + 1
    /\ net' = net \ {m}
    /\ PathsWritten(m) # {}
    /\ torn' = [torn EXCEPT ![m.server] = @ \cup PathsWritten(m)]
    /\ heard' = [heard EXCEPT ![m.txn][m.server] = "vote_commit"]
    /\ UNCHANGED <<log, disk, phase, number, missed, timeouts>>

\* How far the loop of commitPendingWrites may have come.
Prefixes(ids) == {ids} \cup {{j \in ids : j < i} : i \in ids}

\* The row is not inserted: the process ends before, between or after the writes
\* or right after a file was truncated, or the insert throws.
HandleCutShort(m) ==
    /\ m \in net /\ Installs(m)
    /\ losses < MaxLosses /\ losses' = losses + 1
    /\ net' = net \ {m}
    /\ \E ids \in Prefixes(Pending(m)) : \E o \in [ids -> Outcomes] :
          /\ disk' = [disk EXCEPT ![m.server] = Applied(log[m.server], @, o)]
          /\ torn' = [torn EXCEPT ![m.server] = @ \cup Touched(log[m.server], o)]
    /\ UNCHANGED <<log, phase, number, heard, missed, timeouts>>

-----------------------------------------------------------------------------
(* The network and the coordinators.                                         *)
Lose(m) ==
    /\ m \in net
    /\ losses < MaxLosses /\ losses' = losses + 1
    /\ net' = net \ {m}
    /\ UNCHANGED <<log, disk, phase, number, heard, torn, missed, timeouts>>

\* Requests of one kind go to all of S.
Enter(t, p, n, S) ==
    /\ phase' = [phase EXCEPT ![t] = p]
    /\ number' = [number EXCEPT ![t] = n]
    /\ net' = net \cup {Request(t, s, p, n) : s \in S}

Forget(t) == heard' = [heard EXCEPT ![t] = [s \in Servers |-> "nothing"]]

Advance(t) ==
    /\ phase[t] = "working"
    /\ heard[t][Program[t][number[t]].server] # "nothing"
    /\ IF number[t] < Len(Program[t])
       THEN Enter(t, "working", number[t] + 1, {Program[t][number[t] + 1].server})
       ELSE Enter(t, "prepare", 1, Participants(t))
    /\ Forget(t)
    /\ UNCHANGED <<log, disk, torn, missed, losses, timeouts>>

Decide(t) ==
    /\ phase[t] = "prepare"
    /\ \A s \in Participants(t) : heard[t][s] # "nothing"
    /\ IF \A s \in Participants(t) : heard[t][s] = "vote_commit"
       THEN Enter(t, "global_commit", 1, Participants(t))
       ELSE Enter(t, "global_abort", 1, Participants(t))
    /\ Forget(t)
    /\ UNCHANGED <<log, disk, torn, missed, losses, timeouts>>

\* Requests of t that are on their way and still awaited.
Outstanding(t) == {m \in net : m.txn = t /\ Awaited(m)}

\* Waiting too long for a request that is still on its way is a premature
\* timeout, of which there are at most MaxTimeouts.
TimedOut(t) ==
    IF Outstanding(t) = {} THEN timeouts' = timeouts
    ELSE timeouts < MaxTimeouts /\ timeouts' = timeouts + 1

Unheard(t) == {s \in Participants(t) : heard[t][s] = "nothing"}

GiveUp(t) ==
    /\ \/ phase[t] = "working" /\ heard[t][Program[t][number[t]].server] = "nothing"
       \/ phase[t] = "prepare" /\ Unheard(t) # {}
    /\ TimedOut(t)
    /\ Enter(t, "global_abort", 1, Participants(t))
    /\ Forget(t)
    /\ UNCHANGED <<log, disk, torn, missed, losses>>

Resend(t) ==
    /\ phase[t] \in Decisions
    /\ Unheard(t) # {}
    /\ TimedOut(t)
    /\ Enter(t, phase[t], number[t] + 1, Unheard(t))
    /\ UNCHANGED <<log, disk, heard, torn, missed, losses>>

Finish(t) ==
    /\ phase[t] \in Decisions
    /\ Unheard(t) = {}
    /\ phase' = [phase EXCEPT ![t] =
                    IF @ = "global_commit" THEN "committed" ELSE "aborted"]
    /\ UNCHANGED <<log, disk, net, number, heard, torn, missed, losses, timeouts>>

Coordinate(t) == Advance(t) \/ Decide(t) \/ GiveUp(t) \/ Resend(t) \/ Finish(t)

\* Server s takes a request from its backlog and nothing fails.
Serve(s) == \E m \in net : m.server = s /\ Handle(m, RowFor(m), AllWritten(m), TRUE)

Next ==
    \/ \E m \in net :
          \/ \E row \in RowsFor(m), o \in Installations(m), delivered \in BOOLEAN :
                Handle(m, row, o, delivered)
          \/ HandleCutShort(m)
          \/ Lose(m)
    \/ \E t \in Transactions : Coordinate(t)

Spec == Init /\ [][Next]_vars

\* The fairness of a server assumes that it is started again when it has ended,
\* and that no silent client keeps its one thread (RequestLoop).
FairSpec ==
    /\ Spec
    /\ \A s \in Servers : WF_vars(Serve(s))
    /\ \A t \in Transactions : WF_vars(Coordinate(t))
=============================================================================
