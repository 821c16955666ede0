-------------------------- MODULE TransactionalStore --------------------------
(***************************************************************************)
(* What a client may rely on, without log, directory or process: committed *)
(* contents of files, a workspace for every transaction, and commits that  *)
(* move a workspace to the files in one step.  FileServer implements it.   *)
(* The promise is as weak as the code makes it: workspaces outlive commits *)
(* and aborts, votes are unconstrained here, and once something has failed *)
(* (failed = TRUE) files may be torn, that is, read as anything until a    *)
(* later commit to them.  As long as nothing has failed no torn file can   *)
(* be seen, and commits are atomic.                                        *)
(***************************************************************************)
EXTENDS Integers

CONSTANTS
    Transactions, Filenames, Files, PathOf, Data, Empty,
    NoFile,             \* "content" of a file that does not exist
    InitialFiles,       \* what the files hold at first
    Unwritten,          \* "content" of a name that a workspace does not have
    ReadAnswer(_, _, _),\* answer to a read: transaction, name, content
    Answer(_, _),       \* any other answer: its name, transaction
    NoAnswer

VARIABLES
    committed,  \* content of each file
    own,        \* last write of each transaction to each name
    intended,   \* last write of each transaction to each file
    torn,       \* files a commit has started on, or has damaged
    answer,     \* answer about to be given
    failed      \* whether any call has failed or the process has ended

vars == <<committed, own, intended, torn, answer, failed>>

Init ==
    /\ committed = InitialFiles
    /\ own = [t \in Transactions |-> [f \in Filenames |-> Unwritten]]
    /\ intended = [t \in Transactions |-> [f \in Files |-> Unwritten]]
    /\ torn = {}
    /\ answer = NoAnswer
    /\ failed = FALSE

Touched(t) == {f \in Files : intended[t][f] # Unwritten}

Shown(content) == IF content = NoFile THEN Empty ELSE content

\* What a read by t of name f may return.
Readable(t, f, d) ==
    IF own[t][f] # Unwritten THEN d = own[t][f]
    ELSE IF PathOf[f] \in torn THEN d \in Data /\ failed
    ELSE d = Shown(committed[PathOf[f]]) \/ (d = Empty /\ failed')

Read(t, f) ==
    /\ \E d \in Data : Readable(t, f, d) /\ answer' = ReadAnswer(t, f, d)
    /\ failed => failed'
    /\ UNCHANGED <<committed, own, intended, torn>>

Write(t, f, d) ==
    /\ own' = [own EXCEPT ![t] = [@ EXCEPT ![f] = d]]
    /\ intended' = [intended EXCEPT ![t] = [@ EXCEPT ![PathOf[f]] = d]]
    /\ answer' = Answer("write_response", t)
    /\ UNCHANGED <<committed, torn, failed>>

\* Votes, and requests to abort, change nothing that later requests can see.
Respond(t) ==
    /\ answer' \in {Answer(n, t) : n \in {"vote_commit", "vote_abort", "unsupported"}}
    /\ UNCHANGED <<committed, own, intended, torn, failed>>

\* All of the workspace becomes committed at once.  The files it touches are
\* whole again, except those whose writing failed.
Commit(t) ==
    /\ committed' = [f \in Files |-> IF f \in Touched(t) THEN intended[t][f] ELSE committed[f]]
    /\ torn' \subseteq torn /\ torn \ Touched(t) \subseteq torn'
    /\ ~failed => torn' = {}
    /\ answer' = Answer("vote_commit", t)
    /\ UNCHANGED <<own, intended, failed>>

\* A commit starts on a file, or fails on it; only files that some transaction
\* has written are ever at stake.
Disturb ==
    /\ torn \subseteq torn'
    /\ \A f \in torn' \ torn : \E t \in Transactions : f \in Touched(t)
    /\ failed => failed'
    /\ UNCHANGED <<committed, own, intended, answer>>

\* The answer is given, or there will be none.
Leave ==
    /\ answer' = NoAnswer
    /\ failed => failed'
    /\ UNCHANGED <<committed, own, intended, torn>>

Next ==
    \/ \E t \in Transactions :
          \/ \E f \in Filenames : Read(t, f) \/ \E d \in Data : Write(t, f, d)
          \/ Respond(t)
          \/ Commit(t)
    \/ Disturb
    \/ Leave

Spec == Init /\ [][Next]_vars
=============================================================================
