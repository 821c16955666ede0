-------------------------- MODULE TwoPhaseProperties --------------------------
(***************************************************************************)
(* What the servers together guarantee to transactions whose coordinators  *)
(* follow the two-phase commit.                                            *)
(***************************************************************************)
EXTENDS TwoPhaseCommit

(* The variables have the values the code and the coordinators give them;  *)
(* a server that has answered was asked.                                   *)
TypeOK ==
    /\ log \in [Servers -> Seq(Rows)]
    /\ disk \in [Servers -> [Filenames -> Data]]
    /\ \A m \in net : /\ m.txn \in Transactions
                      /\ m.server \in Participants(m.txn)
                      /\ m.kind \in {"working", "prepare"} \cup Decisions
                      /\ m.number \in Nat
    /\ phase \in [Transactions -> Phases]
    /\ number \in [Transactions -> Nat]
    /\ heard \in [Transactions -> [Servers -> {"nothing", "done", "vote_commit", "vote_abort"}]]
    /\ \A t \in Transactions, s \in Servers :
          heard[t][s] # "nothing" => s \in Participants(t)
    /\ torn \in [Servers -> SUBSET Filenames] /\ missed \in [Servers -> SUBSET Filenames]
    /\ losses \in 0..MaxLosses /\ timeouts \in 0..MaxTimeouts

Row(s, i) == log[s][i]
Commits(s, t) == Ids(log[s], t, "global_commit")

\* The operations by which the program of t writes file f of server s.
ProgramWrites(t, s, f) ==
    {i \in DOMAIN Program[t] : /\ Program[t][i].server = s
                               /\ Program[t][i].name = "write"
                               /\ Program[t][i].filename = f}

-----------------------------------------------------------------------------
\* A recorded commit of another transaction than t changed the file of row r of
\* server s between r and the first commit c of t: the writes w it installed.
Overwritten(s, t, r, c, cu, w) ==
    /\ r < cu /\ cu < c /\ w < cu
    /\ Row(s, cu).name = "global_commit" /\ Row(s, cu).transaction_id # t
    /\ Row(s, w).name = "write" /\ Row(s, w).transaction_id = Row(s, cu).transaction_id
    /\ Row(s, w).filename = Row(s, r).filename

(* A transaction commits with a read that was no longer current only if it *)
(* was voted for before the other commit (two conflicting transactions     *)
(* prepared at the same time), or the write was logged before it began, or *)
(* the file is not the one that the query looks at, the first it read.     *)
(* Otherwise the vote of the server that was read from stops it.           *)
StaleReadsAreExplained ==
    \A s \in Servers, t \in Transactions :
    \A c \in Commits(s, t), r \in Ids(log[s], t, "read") :
       /\ \A c1 \in Commits(s, t) : c <= c1
       /\ {i \in OwnWrites(log[s], t, Row(s, r).filename) : i < r} = {}
       => \A cu, w \in DOMAIN log[s] :
             Overwritten(s, t, r, c, cu, w) =>
                \/ \E v \in Ids(log[s], t, "vote_commit") : v < cu
                \/ ~AfterStartOf(log[s], t, w)
                \/ \A i \in Ids(log[s], t, "read") :
                      IsFirst(log[s], t, "read", i) => Row(s, i).filename # Row(s, r).filename

(* What a commit leaves behind is what the client was told, with the one   *)
(* exception that the code makes: when every server has answered the       *)
(* decision, each file the transaction wrote holds its last write to it,   *)
(* until another transaction commits to that file or is interrupted while  *)
(* it does, unless the open or the write of that very file failed in the   *)
(* last commit to it.  Repeated commits, failures in other files, in       *)
(* earlier writes to the file or in earlier attempts make no difference.   *)
CommittedAsAnswered ==
    \A t \in Transactions, s \in Servers, f \in Filenames :
       /\ phase[t] = "committed"
       /\ ProgramWrites(t, s, f) # {}
       /\ f \notin torn[s] \cup missed[s]
       => /\ Commits(s, t) # {}
          /\ \/ disk[s][f] = Program[t][Max(ProgramWrites(t, s, f))].data
             \/ \E cu \in DOMAIN log[s] :
                   /\ \A c \in Commits(s, t) : c < cu
                   /\ Row(s, cu).name = "global_commit"
                   /\ OwnWrites(log[s], Row(s, cu).transaction_id, f) # {}

(* A commit that is cut short is carried out again: while a file holds     *)
(* what it left, some transaction that is to be committed still waits for  *)
(* the server to answer.  Retries are the only recovery there is, and they *)
(* help against the end of the process and an insert that throws, not      *)
(* against a write that fails: that commit is recorded and answered, and   *)
(* nobody repeats it (missed).  They also need coordinators that do not    *)
(* repeat a decision while the earlier request is still on its way: a      *)
(* duplicate that arrives late can be interrupted with nobody waiting.     *)
TornFilesAreWaitedFor ==
    \A s \in Servers : \A f \in torn[s] :
       timeouts = 0 =>
          \E t \in Transactions :
             /\ phase[t] = "global_commit" /\ heard[t][s] = "nothing"
             /\ ProgramWrites(t, s, f) # {}

DataOf(t) == {Program[t][i].data : i \in {j \in DOMAIN Program[t] : Program[t][j].name = "write"}}

(* Nothing that a transaction wrote is seen by anybody else, in a file or  *)
(* in the answer to a read, unless its coordinator has decided to commit:  *)
(* not even after late requests, lost answers or repeated aborts.          *)
UndecidedStaysPrivate ==
    \A t \in Transactions :
       phase[t] \notin {"global_commit", "committed"} =>
          \A s \in Servers :
             /\ \A f \in Filenames : disk[s][f] \notin DataOf(t)
             /\ \A i \in DOMAIN log[s] :
                   Row(s, i).data \in DataOf(t) => Row(s, i).transaction_id = t

(* Every transaction ends, the same way everywhere: committed with a row   *)
(* of it on every server it used, or with such a row on none.  It takes    *)
(* coordinators that do not give up, and servers that go on: started again *)
(* when they have ended in a commit, and not kept by a silent client.      *)
AllOrNothing ==
    \A t \in Transactions :
       \/ <>[](phase[t] = "committed" /\ \A s \in Participants(t) : Commits(s, t) # {})
       \/ <>[](phase[t] = "aborted" /\ \A s \in Participants(t) : Commits(s, t) = {})
=============================================================================
