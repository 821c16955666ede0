------------------------ MODULE FileServerProperties ------------------------
(***************************************************************************)
(* What one server promises, stated on its log and its shared directory.   *)
(***************************************************************************)
EXTENDS FileServer

(* The variables have the values the code can give them; rows that name a  *)
(* file are only reads and writes, and a commit is only ever applying      *)
(* writes of its own transaction.                                          *)
TypeOK ==
    /\ log \in Seq(Rows)
    /\ disk \in [Files -> Data \cup {NoFile}]
    /\ pc \in PCs
    /\ txn \in Transactions \cup {NoTransaction}
    /\ pc \in {"asking", "installing", "writing"} <=> txn # NoTransaction
    /\ pending \subseteq PendingWrites(log, txn)
    /\ pc \notin {"installing", "writing"} => pending = {}
    /\ reply \in Replies
    /\ sync \in [Files -> SyncStates]
    /\ misread \subseteq Nat
    /\ faults \in 0..MaxFaults

-----------------------------------------------------------------------------
(* Row c records a commit that installed write w in file f.                *)
Installs(c, w, f) ==
    /\ c \in DOMAIN log /\ w \in DOMAIN log /\ w < c
    /\ Row(c).name = "global_commit" /\ Row(w).name = "write"
    /\ Row(c).transaction_id = Row(w).transaction_id
    /\ Path(w) = f

\* The last commit to touch f, and the last of the writes to f it installed.
LastInstall(c, w, f) ==
    /\ Installs(c, w, f)
    /\ \A c1, w1 \in DOMAIN log :
          Installs(c1, w1, f) => c1 < c \/ (c1 = c /\ w1 <= w)

\* What replaying the log over the initial directory leaves in f.
Replays(f, content) ==
    \/ /\ ~ \E c, w \in DOMAIN log : Installs(c, w, f)
       /\ content = InitialDisk[f]
    \/ \E c, w \in DOMAIN log : LastInstall(c, w, f) /\ content = Row(w).data

(* Except for the files a commit is in the middle of installing, was cut   *)
(* short on, or silently failed to write, the shared directory is exactly  *)
(* what the log says: the initial content overwritten by the writes of     *)
(* each recorded commit in the order of the global_commit rows.  It spans  *)
(* crashes, repeated and late commits, and writes logged after a commit.   *)
DiskIsReplay == \A f \in Files : sync[f] = "recorded" => Replays(f, disk[f])

-----------------------------------------------------------------------------
(* A read of a file the transaction has written returns the transaction's  *)
(* last write to it, whatever happened in between: commits of others,      *)
(* crashes, its own commit or abort.                                       *)
ReadYourWrites ==
    \A r \in DOMAIN log :
       Row(r).name = "read" =>
          LET own == {w \in OwnWrites(log, Row(r).transaction_id, Row(r).filename) : w < r}
          IN  own # {} => Row(r).data = Row(Max(own)).data

\* Row r is a read that was answered from the shared directory.
DiskRead(r) ==
    /\ r \in DOMAIN log \ misread
    /\ Row(r).name = "read"
    /\ ~ \E w \in OwnWrites(log, Row(r).transaction_id, Row(r).filename) : w < r

Shown(content) == IF content = NoFile THEN Empty ELSE content

(* What a transaction has read from the directory is still there until the *)
(* log records a commit that wrote to that file, unless the file is one    *)
(* that an unrecorded or failed installation has disturbed.                *)
ReadStaysCurrent ==
    \A r \in DOMAIN log :
       /\ DiskRead(r)
       /\ sync[Path(r)] = "recorded"
       /\ ~ \E c, w \in DOMAIN log : Installs(c, w, Path(r)) /\ r < c
       => Row(r).data = Shown(disk[Path(r)])

(* No dirty read: a row read from a file in order with the log holds the   *)
(* content that recorded commits put there, never an uncommitted write.    *)
ReadsSeeCommittedData ==
    [][\A t \in Transactions, f \in Filenames :
          LET r == Len(log) + 1 IN
          /\ log' # log
          /\ r \notin misread'
          /\ log'[r].name = "read" /\ log'[r].transaction_id = t /\ log'[r].filename = f
          /\ OwnWrites(log, t, f) = {}
          /\ sync[PathOf[f]] = "recorded"
          => \E content \in Data \cup {NoFile} :
                Replays(PathOf[f], content) /\ log'[r].data = Shown(content)]_vars

-----------------------------------------------------------------------------
\* Up to row v, transaction t reads and writes no file name but f.
UsesOnly(t, f, v) ==
    \A i \in DOMAIN log :
       i < v /\ Row(i).transaction_id = t /\ Row(i).name \in FileOperations
       => Row(i).filename = f

\* Rows i and o use one file name and one of them writes.
Conflict(i, o) ==
    /\ Row(i).name \in FileOperations /\ Row(o).name \in FileOperations
    /\ Row(i).filename = Row(o).filename
    /\ "write" \in {Row(i).name, Row(o).name}

\* Before row v, the transaction of row o has committed.
CommittedBefore(o, v) ==
    \E c \in DOMAIN log : /\ c < v
                          /\ Row(c).name = "global_commit"
                          /\ Row(c).transaction_id = Row(o).transaction_id

\* Transaction t did something before row o.
Began(t, o) == \E i \in DOMAIN log : i < o /\ Row(i).transaction_id = t

(* Validation is complete for a transaction that uses one file name: it is *)
(* not voted for automatically when a transaction that has committed did   *)
(* something conflicting with it after it began.                           *)
SingleFileValidation ==
    \A v, o, i \in DOMAIN log :
       LET t == Row(v).transaction_id IN
       /\ AutoMode
       /\ Row(v).name = "vote_commit"
       /\ i < v /\ Row(i).transaction_id = t
       /\ o < v /\ Row(o).transaction_id # t
       /\ Began(t, o)
       /\ Conflict(i, o)
       /\ CommittedBefore(o, v)
       => ~UsesOnly(t, Row(o).filename, v)

\* A write w that the checks of t do not see although it changes the file that
\* t read as f: it was logged before t began, or spells the name differently.
Unseen(t, f, w) == ~Began(t, w) \/ Row(w).filename # f

(* What automatic validation buys: at the moment a transaction is voted    *)
(* for, what it read of the file it read first is what the file holds,     *)
(* unless a commit recorded since then installed a write that the checks   *)
(* cannot see, or the transaction itself committed in between.             *)
ValidatedReadsAreCurrent ==
    \A r \in DOMAIN log :
       LET v == Len(log)
           t == Row(r).transaction_id
           f == Row(r).filename
       IN  /\ AutoMode
           /\ Row(v).name = "vote_commit" /\ Row(v).transaction_id = t
           /\ DiskRead(r)
           /\ sync[Path(r)] = "recorded"
           /\ \E i \in DOMAIN log : IsFirst(log, t, "read", i) /\ Row(i).filename = f
           /\ \A c, w \in DOMAIN log :
                 Installs(c, w, Path(r)) /\ r < c
                 => Row(c).transaction_id # t /\ ~Unseen(t, f, w)
           => Row(r).data = Shown(disk[Path(r)])

-----------------------------------------------------------------------------
\* The response that the handler which inserted this row gives.
AnswerTo(row) ==
    CASE row.name = "read"  -> FileRow("read_response", row.transaction_id, row.filename, row.data)
      [] row.name = "write" -> PlainRow("write_response", row.transaction_id)
      [] row.name \in {"vote_commit", "global_commit"} -> PlainRow("vote_commit", row.transaction_id)
      [] OTHER -> PlainRow("vote_abort", row.transaction_id)

(* Nothing is promised before it is durable: when a response is about to   *)
(* leave, the last row of the log is the operation it answers.             *)
AnsweredMeansLogged ==
    pc = "replying" /\ reply # NoReply /\ reply.name # "unsupported"
    => Len(log) > 0 /\ reply = AnswerTo(Row(Len(log)))

(* A commit never stops half way by itself: once no more calls fail, the   *)
(* row of a started commit is inserted and the coordinator gets an answer. *)
CommitCompletes ==
    \A t \in Transactions :
       (pc = "installing" /\ txn = t /\ faults = MaxFaults)
       ~> (pc = "replying" /\ reply = PlainRow("vote_commit", t)
                           /\ log[Len(log)] = PlainRow("global_commit", t))
-----------------------------------------------------------------------------
(* What the comments inside the two queries say (dao.cpp:192-200 and       *)
(* 224-232): "if we write to the same file that other transactions wrote   *)
(* or read after our write began, and they have finished", and the same    *)
(* for what we read and others wrote.  Row i is ours, row o is theirs.     *)
InterceptedAsCommented(v, i, o) ==
    /\ i < o /\ o < v
    /\ Row(i).transaction_id = Row(v).transaction_id
    /\ Row(o).transaction_id # Row(v).transaction_id
    /\ Conflict(i, o)
    /\ CommittedBefore(o, v)

(* A transaction one of whose writes was intercepted in the sense of the   *)
(* comment is not voted for.  The query looks at the first file written.   *)
InterceptedWritesAreNotVotedFor ==
    \A v, i, o \in DOMAIN log :
       AutoMode /\ InterceptedAsCommented(v, i, o) /\ Row(i).name = "write"
       => Row(v).name # "vote_commit"

(* A transaction is voted against only if a read or a write of it was      *)
(* intercepted in the sense of the comments.  The queries count from the   *)
(* first row of the transaction, not from its first read or write there.   *)
OnlyInterceptedAreVotedAgainst ==
    \A v \in DOMAIN log :
       AutoMode /\ Row(v).name = "vote_abort"
       => \E i, o \in DOMAIN log : InterceptedAsCommented(v, i, o)
=============================================================================
