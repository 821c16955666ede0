--------------------------- MODULE StoreRefinement ---------------------------
(***************************************************************************)
(* FileServer implements TransactionalStore.  What is committed is what    *)
(* the log replays to, the workspaces are the last writes in the log, and  *)
(* a file is torn when the log does not vouch for it.                      *)
(***************************************************************************)
EXTENDS FileServerProperties

CONSTANT Unwritten

ASSUME UnwrittenIsNoData == Unwritten \notin Data

Replayed(f) == {content \in Data \cup {NoFile} : Replays(f, content)}

Only(S) == CHOOSE x \in S : TRUE

CommittedFiles == [f \in Files |-> Only(Replayed(f))]

OwnNames ==
    [t \in Transactions |-> [f \in Filenames |->
        IF FileWasWrittenInThisTransaction(log, t, f)
        THEN LastFileContentFromThisTransaction(log, t, f) ELSE Unwritten]]

WritesTo(l, t, f) == {i \in PendingWrites(l, t) : PathOf[l[i].filename] = f}

IntendedFiles ==
    [t \in Transactions |-> [f \in Files |->
        IF WritesTo(log, t, f) # {} THEN log[Max(WritesTo(log, t, f))].data ELSE Unwritten]]

TornFiles == {f \in Files : sync[f] # "recorded"}

ReadResponse(t, f, d) == FileRow("read_response", t, f, d)

Store == INSTANCE TransactionalStore WITH
    InitialFiles <- InitialDisk,
    ReadAnswer <- ReadResponse,
    Answer <- PlainRow,
    NoAnswer <- NoReply,
    committed <- CommittedFiles,
    own <- OwnNames,
    intended <- IntendedFiles,
    torn <- TornFiles,
    answer <- reply,
    failed <- faults # 0

(* The server implements the abstract store: reads return the transaction's *)
(* own last write or committed content, a commit takes effect for all of its *)
(* files at once, a crash or a failing call can only tear files that some    *)
(* transaction wrote, and no torn file is visible before something failed.   *)
ImplementsStore == Store!Spec
=============================================================================
