----------------------------- MODULE FileServer -----------------------------
(***************************************************************************)
(* One server process: the request handlers of controller.cpp over the log *)
(* of dao.cpp and the shared directory.  The main loop of server.cpp takes *)
(* one connection at a time, so a handler is never interleaved with        *)
(* another handler of the same server; what can come between two of its    *)
(* steps is the end of the process.  A handler that makes one durable      *)
(* change is one action; applying a global commit, which truncates and     *)
(* rewrites several files before its row is inserted, is one action per    *)
(* durable change.  Definitions with an underscore are mutants.            *)
(***************************************************************************)
EXTENDS OperationLog

CONSTANTS
    Files,          \* files of the shared directory
    PathOf,         \* the file that a spelled name leads to
    InitialDisk,    \* contents of the shared directory before the first start
    NoFile,         \* "content" of a file that does not exist
    NoTransaction,
    AutoMode,       \* cfg.getAutoMode(): votes are given without the operator
    MaxLog,         \* bound: rows in the log
    MaxFaults       \* bound: crashes and failing calls

ASSUME ConstantsOK ==
    /\ PathOf \in [Filenames -> Files]
    /\ NoFile \notin Data
    /\ InitialDisk \in [Files -> Data \cup {NoFile}]
    /\ NoTransaction \notin Transactions
    /\ AutoMode \in BOOLEAN
    /\ MaxLog \in Nat /\ MaxFaults \in Nat

VARIABLES
    log,        \* the OPERATION table; survives the process
    disk,       \* the shared directory; survives the process
    pc,         \* what the process is doing
    txn,        \* transaction of the global_commit or prepare being handled
    pending,    \* ids of the writes that commitPendingWrites still has to apply
    reply,      \* response about to be sent
    sync,       \* history: how each file relates to what the log says of it
    misread,    \* history: ids of the reads that could not open an existing file
    faults      \* history: number of crashes and failing calls so far

vars == <<log, disk, pc, txn, pending, reply, sync, misread, faults>>

\* The answer to a request whose handling threw: the socket is just closed.
NoReply == PlainRow("none", NoTransaction)

Replies ==
    [name : {"read_response"}, transaction_id : Transactions,
     filename : Filenames, data : Data]
      \cup
    [name : {"write_response", "vote_commit", "vote_abort", "unsupported"},
     transaction_id : Transactions, filename : {NoFilename}, data : {Empty}]
      \cup
    {NoReply}

PCs == {"down", "ready", "asking", "installing", "writing", "replying"}

\* "recorded": the log accounts for the content; "open": truncated by a commit;
\* "installed": written by a commit that has no row yet; "failed": the last
\* write of a commit to it did not take effect.
SyncStates == {"recorded", "open", "installed", "failed"}

Row(i) == log[i]
Path(i) == PathOf[log[i].filename]

Room == Len(log) < MaxLog
Fault == faults < MaxFaults /\ faults' = faults + 1

Init ==
    /\ log = << >>
    /\ disk = InitialDisk
    /\ pc = "down"
    /\ txn = NoTransaction
    /\ pending = {}
    /\ reply = NoReply
    /\ sync = [f \in Files |-> "recorded"]
    /\ misread = {}
    /\ faults = 0

-----------------------------------------------------------------------------
(* main and the constructors: the configuration is read, the log file and the *)
(* directory must exist, and the table is created IF NOT EXISTS.  Nothing is  *)
(* recovered: a commit that was cut short leaves no trace to recover from.    *)
Start ==
    /\ pc = "down"
    /\ pc' = "ready"
    /\ UNCHANGED <<log, disk, txn, pending, reply, sync, misread, faults>>

\* The handler ends with response r.
Answer(r) == pc' = "replying" /\ reply' = r

FileContent_Dirty(t, f) ==
    LET writes == {i \in DOMAIN log : Row(i).name = "write" /\ Row(i).filename = f}
    IN  IF writes # {} THEN Row(Max(writes)).data
        ELSE IF disk[PathOf[f]] = NoFile THEN Empty ELSE disk[PathOf[f]]

\* getFileContent: the transaction's own last write, else the file.
FileContent(t, f) ==
    IF FileWasWrittenInThisTransaction(log, t, f)
    THEN LastFileContentFromThisTransaction(log, t, f)
    ELSE IF disk[PathOf[f]] = NoFile THEN Empty ELSE disk[PathOf[f]]

HandleRead(t, f) ==
    /\ pc = "ready" /\ Room
    /\ log' = InsertOperation(log, FileRow("read", t, f, FileContent(t, f)))
    /\ Answer(FileRow("read_response", t, f, FileContent(t, f)))
    /\ UNCHANGED <<disk, txn, pending, sync, misread, faults>>

\* The ifstream of an existing file is not checked: if it does not open, the
\* read is logged and answered with the empty content.
HandleReadUnopened(t, f) ==
    /\ pc = "ready" /\ Room /\ Fault
    /\ ~FileWasWrittenInThisTransaction(log, t, f)
    /\ disk[PathOf[f]] # NoFile
    /\ log' = InsertOperation(log, FileRow("read", t, f, Empty))
    /\ misread' = misread \cup {Len(log) + 1}
    /\ Answer(FileRow("read_response", t, f, Empty))
    /\ UNCHANGED <<disk, txn, pending, sync>>

HandleWrite_Through(t, f, d) ==
    /\ pc = "ready" /\ Room
    /\ log' = InsertOperation(log, FileRow("write", t, f, d))
    /\ disk' = [disk EXCEPT ![PathOf[f]] = d]
    /\ Answer(PlainRow("write_response", t))
    /\ UNCHANGED <<txn, pending, sync, misread, faults>>

HandleWrite(t, f, d) ==
    /\ pc = "ready" /\ Room
    /\ log' = InsertOperation(log, FileRow("write", t, f, d))
    /\ Answer(PlainRow("write_response", t))
    /\ UNCHANGED <<disk, txn, pending, sync, misread, faults>>

CanAutoCommitTransaction_WritesOnly(t) == ~WriteIntercepted(log, t)

CanAutoCommitTransaction(t) == ~WriteIntercepted(log, t) /\ ~ReadIntercepted(log, t)

Vote(canCommit) == IF canCommit THEN "vote_commit" ELSE "vote_abort"

HandlePrepare_LogsRequest(t) ==
    /\ pc = "ready" /\ Room /\ AutoMode
    /\ log' = InsertOperation(log, PlainRow("prepare", t))
    /\ Answer(PlainRow(Vote(CanAutoCommitTransaction(t)), t))
    /\ UNCHANGED <<disk, txn, pending, sync, misread, faults>>

HandlePrepare_Unlogged(t) ==
    /\ pc = "ready" /\ Room /\ AutoMode
    /\ Answer(PlainRow(Vote(CanAutoCommitTransaction(t)), t))
    /\ UNCHANGED <<log, disk, txn, pending, sync, misread, faults>>

\* handlePrepareMessage of a server in automatic mode.
HandlePrepare(t) ==
    /\ pc = "ready" /\ Room /\ AutoMode
    /\ LET vote == PlainRow(Vote(CanAutoCommitTransaction(t)), t)
       IN  log' = InsertOperation(log, vote) /\ Answer(vote)
    /\ UNCHANGED <<disk, txn, pending, sync, misread, faults>>

\* handlePrepareMessage otherwise: the log's opinion is shown, the process waits
\* for the operator, asking again until the line is "t" or "n".
AskOperator(t) ==
    /\ pc = "ready" /\ Room /\ ~AutoMode
    /\ pc' = "asking"
    /\ txn' = t
    /\ UNCHANGED <<log, disk, pending, reply, sync, misread, faults>>

OperatorAnswers_LogsOpinion(yes) ==
    /\ pc = "asking"
    /\ log' = InsertOperation(log, PlainRow(Vote(CanAutoCommitTransaction(txn)), txn))
    /\ Answer(PlainRow(Vote(yes), txn))
    /\ txn' = NoTransaction
    /\ UNCHANGED <<disk, pending, sync, misread, faults>>

OperatorAnswers(yes) ==
    /\ pc = "asking"
    /\ LET vote == PlainRow(Vote(yes), txn)
       IN  log' = InsertOperation(log, vote) /\ Answer(vote)
    /\ txn' = NoTransaction
    /\ UNCHANGED <<disk, pending, sync, misread, faults>>

HandleGlobalAbort_LogsCommit(t) ==
    /\ pc = "ready" /\ Room
    /\ log' = InsertOperation(log, PlainRow("global_commit", t))
    /\ Answer(PlainRow("vote_abort", t))
    /\ UNCHANGED <<disk, txn, pending, sync, misread, faults>>

HandleGlobalAbort(t) ==
    /\ pc = "ready" /\ Room
    /\ log' = InsertOperation(log, PlainRow("global_abort", t))
    /\ Answer(PlainRow("vote_abort", t))
    /\ UNCHANGED <<disk, txn, pending, sync, misread, faults>>

HandleUnsupported(t) ==
    /\ pc = "ready"
    /\ Answer(PlainRow("unsupported", t))
    /\ UNCHANGED <<log, disk, txn, pending, sync, misread, faults>>

\* The request does not parse, lacks a field, or a dao call of its handler throws
\* before anything durable was done.
RequestFails ==
    /\ pc = "ready"
    /\ Answer(NoReply)
    /\ UNCHANGED <<log, disk, txn, pending, sync, misread, faults>>

-----------------------------------------------------------------------------
(* handleGlobalCommitMessage.  No vote or earlier decision is looked at.      *)
HandleGlobalCommit(t) ==
    /\ pc = "ready" /\ Room
    /\ pc' = "installing"
    /\ txn' = t
    /\ pending' = PendingWrites(log, t)
    /\ UNCHANGED <<log, disk, reply, sync, misread, faults>>

NextWrite_LatestFirst(i) == i \in pending /\ \A j \in pending : j <= i

NextWrite(i) == i \in pending /\ \A j \in pending : i <= j

\* The constructor of the ofstream truncates or creates the file ...
OpenFile ==
    /\ pc = "installing"
    /\ \E i \in pending :
          /\ NextWrite(i)
          /\ disk' = [disk EXCEPT ![Path(i)] = Empty]
          /\ sync' = [sync EXCEPT ![Path(i)] = "open"]
    /\ pc' = "writing"
    /\ UNCHANGED <<log, txn, pending, reply, misread, faults>>

\* ... or fails, which nothing checks: the loop goes on with the next write.
OpenFileFails ==
    /\ pc = "installing" /\ Fault
    /\ \E i \in pending :
          /\ NextWrite(i)
          /\ sync' = [sync EXCEPT ![Path(i)] = "failed"]
          /\ pending' = pending \ {i}
    /\ UNCHANGED <<log, disk, pc, txn, reply, misread>>

WriteFile_NoAdvance ==
    /\ pc = "writing"
    /\ \E i \in pending :
          /\ NextWrite(i)
          /\ disk' = [disk EXCEPT ![Path(i)] = Row(i).data]
          /\ sync' = [sync EXCEPT ![Path(i)] = "installed"]
    /\ pc' = "installing"
    /\ UNCHANGED <<log, txn, pending, reply, misread, faults>>

WriteFile ==
    /\ pc = "writing"
    /\ \E i \in pending :
          /\ NextWrite(i)
          /\ disk' = [disk EXCEPT ![Path(i)] = Row(i).data]
          /\ sync' = [sync EXCEPT ![Path(i)] = "installed"]
          /\ pending' = pending \ {i}
    /\ pc' = "installing"
    /\ UNCHANGED <<log, txn, reply, misread, faults>>

\* The content does not reach the disk; nothing checks that either.
WriteFileFails ==
    /\ pc = "writing" /\ Fault
    /\ \E i \in pending :
          /\ NextWrite(i)
          /\ sync' = [sync EXCEPT ![Path(i)] = "failed"]
          /\ pending' = pending \ {i}
    /\ pc' = "installing"
    /\ UNCHANGED <<log, disk, txn, reply, misread>>

PathsWritten(t) == {Path(i) : i \in PendingWrites(log, t)}

\* The row is inserted after the files; the response is the one of a vote.
RecordCommit ==
    /\ pc = "installing" /\ pending = {}
    /\ log' = InsertOperation(log, PlainRow("global_commit", txn))
    /\ sync' = [f \in Files |->
                  IF f \in PathsWritten(txn) /\ sync[f] = "installed"
                  THEN "recorded" ELSE sync[f]]
    /\ Answer(PlainRow("vote_commit", txn))
    /\ txn' = NoTransaction
    /\ UNCHANGED <<disk, pending, misread, faults>>

\* The insert that ends a commit, or records the operator's vote, throws.
InsertFails ==
    /\ Fault
    /\ pc = "asking" \/ (pc = "installing" /\ pending = {})
    /\ Answer(NoReply)
    /\ txn' = NoTransaction
    /\ UNCHANGED <<log, disk, pending, sync, misread>>

-----------------------------------------------------------------------------
\* The response is written to the socket, or cannot be; the loop goes on.
Reply ==
    /\ pc = "replying"
    /\ pc' = "ready"
    /\ reply' = NoReply
    /\ UNCHANGED <<log, disk, txn, pending, sync, misread, faults>>

\* The process ends at any point; what it had in memory is gone.
Crash ==
    /\ pc # "down" /\ Fault
    /\ pc' = "down"
    /\ txn' = NoTransaction
    /\ pending' = {}
    /\ reply' = NoReply
    /\ UNCHANGED <<log, disk, sync, misread>>

CalculateResponse ==
    \E t \in Transactions :
       \/ \E f \in Filenames : \/ HandleRead(t, f)
                               \/ HandleReadUnopened(t, f)
                               \/ \E d \in Data : HandleWrite(t, f, d)
       \/ HandlePrepare(t)
       \/ AskOperator(t)
       \/ HandleGlobalCommit(t)
       \/ HandleGlobalAbort(t)
       \/ HandleUnsupported(t)

\* What the process does by itself once it has a request.
Proceed ==
    \/ OpenFile \/ OpenFileFails
    \/ WriteFile \/ WriteFileFails
    \/ RecordCommit
    \/ Reply

Next ==
    \/ Start
    \/ CalculateResponse
    \/ RequestFails
    \/ \E yes \in BOOLEAN : OperatorAnswers(yes)
    \/ Proceed
    \/ InsertFails
    \/ Crash

Spec == Init /\ [][Next]_vars
FairSpec == Spec /\ WF_vars(Proceed)
=============================================================================
