---------------------------- MODULE OperationLog ----------------------------
(***************************************************************************)
(* The OPERATION table of one server (dao.cpp) as a sequence of rows, and  *)
(* the six queries the controller runs against it.  The position of a row  *)
(* is its id: the key is AUTOINCREMENT and no statement of the program     *)
(* updates or deletes a row.  Each dao call opens the database, runs one   *)
(* autocommitted statement and closes it, so a call is one atomic step     *)
(* that either happens or throws; the operators below are those that       *)
(* happened.  Definitions that end in a word after an underscore are       *)
(* mutants: the definition that follows with a plausible mistake in it.    *)
(***************************************************************************)
EXTENDS Integers, Sequences, FiniteSetsExt

CONSTANTS
    Transactions,   \* transaction ids chosen by the clients
    Filenames,      \* file names as they are spelled in requests
    NoFilename,     \* the empty file name of the rows that name no file
    Data,           \* file contents
    Empty           \* the empty content

ASSUME EmptyIsData == Empty \in Data

FileOperations == {"read", "write"}
DecisionOperations ==
    {"vote_commit", "vote_abort", "global_commit", "global_abort"}

\* A row is written with a file name and a content, or with neither.
FileRow(name, t, f, d) ==
    [name |-> name, transaction_id |-> t, filename |-> f, data |-> d]
PlainRow(name, t) == FileRow(name, t, NoFilename, Empty)

Rows ==
    [name : FileOperations, transaction_id : Transactions,
     filename : Filenames, data : Data]
      \cup
    [name : DecisionOperations, transaction_id : Transactions,
     filename : {NoFilename}, data : {Empty}]

-----------------------------------------------------------------------------
InsertOperation(log, row) == Append(log, row)

\* The ids of the rows of transaction t that have the given name.
Ids(log, t, name) ==
    {i \in DOMAIN log : log[i].transaction_id = t /\ log[i].name = name}

OwnWrites(log, t, f) == {i \in Ids(log, t, "write") : log[i].filename = f}

FileWasWrittenInThisTransaction(log, t, f) == OwnWrites(log, t, f) # {}

LastFileContentFromThisTransaction_Ascending(log, t, f) ==
    log[Min(OwnWrites(log, t, f))].data

LastFileContentFromThisTransaction_AnyFile(log, t, f) ==
    log[Max(Ids(log, t, "write"))].data

LastFileContentFromThisTransaction(log, t, f) ==
    log[Max(OwnWrites(log, t, f))].data

PendingWrites_FirstFile(log, t) ==
    {i \in Ids(log, t, "write") :
        \A j \in Ids(log, t, "write") : j < i => log[j].filename = log[i].filename}

\* getPendingWrites returns rows; their ids determine them, and the rows come
\* back, and are applied, in the order of their ids.
PendingWrites(log, t) == Ids(log, t, "write")

\* "SELECT filename ... LIMIT 1" has no ORDER BY and no index to use, so the
\* table is scanned by rowid and the row of the smallest id is returned.
IsFirst(log, t, name, i) ==
    /\ i \in Ids(log, t, name)
    /\ \A j \in Ids(log, t, name) : i <= j

AfterStartOf_Descending(log, t, o) ==
    /\ \E i \in DOMAIN log : log[i].transaction_id = t
    /\ \A i \in DOMAIN log : log[i].transaction_id = t => i < o

\* o.id > (id of the first row of t, of whatever kind).
AfterStartOf(log, t, o) == \E i \in DOMAIN log : log[i].transaction_id = t /\ i < o

Committed(log, t) == Ids(log, t, "global_commit") # {}

\* Row o belongs to another transaction, names the file of the first row of t
\* called name, comes after the start of t, and its transaction has finished.
Intercepts(log, t, name, o) ==
    /\ \E i \in DOMAIN log : /\ IsFirst(log, t, name, i)
                             /\ log[o].filename = log[i].filename
    /\ log[o].transaction_id # t
    /\ AfterStartOf(log, t, o)
    /\ Committed(log, log[o].transaction_id)

WriteIntercepted(log, t) ==
    \E o \in DOMAIN log : /\ Intercepts(log, t, "write", o)
                          /\ log[o].name \in {"write", "read"}

ReadIntercepted(log, t) ==
    \E o \in DOMAIN log : /\ Intercepts(log, t, "read", o)
                          /\ log[o].name = "write"
=============================================================================
