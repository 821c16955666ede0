-------------------------- MODULE FileServerProofs --------------------------
(***************************************************************************)
(* Theorems about one server, for every set of transactions, file names,   *)
(* contents and files, every spelling of names, every initial directory,   *)
(* both modes and every bound.                                             *)
(***************************************************************************)
EXTENDS FileServerProperties, WellFoundedInduction, TLAPS

-----------------------------------------------------------------------------
(* Appending a row keeps the other rows and their ids.                     *)
LEMMA AppendRow ==
    ASSUME NEW l \in Seq(Rows), NEW row \in Rows
    PROVE  /\ Append(l, row) \in Seq(Rows)
           /\ Len(l) \in Nat
           /\ Len(Append(l, row)) = Len(l) + 1
           /\ DOMAIN l = 1..Len(l)
           /\ DOMAIN Append(l, row) = 1..(Len(l) + 1)
           /\ \A i \in DOMAIN l : Append(l, row)[i] = l[i]
           /\ Append(l, row)[Len(l) + 1] = row
OBVIOUS

(* The rows that have a file name are the reads and the writes.            *)
LEMMA RowTypes ==
    ASSUME NEW l \in Seq(Rows), NEW i \in DOMAIN l
    PROVE  /\ l[i] \in Rows
           /\ l[i].transaction_id \in Transactions
           /\ l[i].data \in Data
           /\ l[i].name \in FileOperations => l[i].filename \in Filenames
<1>1. l[i] \in Rows
  OBVIOUS
<1>2. QED
  BY <1>1, EmptyIsData DEF Rows, FileOperations, DecisionOperations

(* The rows that handlers insert are rows of the table.                    *)
LEMMA NewRows ==
    ASSUME NEW t \in Transactions
    PROVE  /\ \A name \in FileOperations, f \in Filenames, d \in Data :
                 FileRow(name, t, f, d) \in Rows
           /\ \A name \in DecisionOperations : PlainRow(name, t) \in Rows
BY DEF FileRow, PlainRow, Rows

(* A non-empty set of ids has a greatest element, and Max is it.           *)
LEMMA MaxOfIds ==
    ASSUME NEW n \in Nat, NEW S, S \subseteq 1..n, S # {}
    PROVE  Max(S) \in S /\ \A i \in S : i <= Max(S)
<1> DEFINE D == {n - i : i \in S}
<1>1. D \subseteq Nat /\ D # {}
  <2>1. \A i \in S : i \in 1..n
    OBVIOUS
  <2>2. \A i \in 1..n : n - i \in Nat
    OBVIOUS
  <2>3. PICK i \in S : TRUE
    OBVIOUS
  <2>4. n - i \in D
    OBVIOUS
  <2> QED BY <2>1, <2>2, <2>4
<1>2. PICK d \in D : \A e \in D : ~(<<e, d>> \in OpToRel(<, Nat))
  BY <1>1, NatLessThanWellFounded, WFMin
<1>3. \A e \in D : d <= e
  <2> TAKE e \in D
  <2>1. e \in Nat /\ d \in Nat
    BY <1>1
  <2>2. ~(e < d)
    BY <2>1, <1>2 DEF OpToRel
  <2> QED BY <2>1, <2>2
<1>4. PICK m \in S : d = n - m
  OBVIOUS
<1>5. \A i \in S : m >= i
  <2> TAKE i \in S
  <2>1. n - i \in D
    OBVIOUS
  <2>2. d <= n - i
    BY <1>3, <2>1
  <2> HIDE DEF D
  <2> QED BY <1>4, <2>2
<1>6. Max(S) \in S /\ \A i \in S : Max(S) >= i
  BY <1>4, <1>5 DEF Max
<1> QED BY <1>6

-----------------------------------------------------------------------------
(* What a transaction reads is a content: a row of its own, or the file.   *)
LEMMA FileContentIsData ==
    ASSUME TypeOK, NEW t \in Transactions, NEW f \in Filenames
    PROVE  FileContent(t, f) \in Data
<1> USE EmptyIsData, ConstantsOK
<1>1. log \in Seq(Rows) /\ disk \in [Files -> Data \cup {NoFile}]
  BY DEF TypeOK
<1>2. CASE FileWasWrittenInThisTransaction(log, t, f)
  <2>1. OwnWrites(log, t, f) \subseteq 1..Len(log) /\ Len(log) \in Nat
    BY <1>1 DEF OwnWrites, Ids
  <2>2. Max(OwnWrites(log, t, f)) \in OwnWrites(log, t, f)
    BY <2>1, <1>2, MaxOfIds DEF FileWasWrittenInThisTransaction
  <2>3. Max(OwnWrites(log, t, f)) \in DOMAIN log
    BY <2>2 DEF OwnWrites, Ids
  <2> QED
    BY <1>1, <1>2, <2>3, RowTypes DEF FileContent, LastFileContentFromThisTransaction
<1>3. CASE ~FileWasWrittenInThisTransaction(log, t, f)
  <2>1. PathOf[f] \in Files
    OBVIOUS
  <2> QED BY <1>1, <1>3, <2>1 DEF FileContent
<1> QED BY <1>2, <1>3

(* The rows that a transaction's writes have stay where they are when a row *)
(* is appended.                                                            *)
LEMMA PendingGrows ==
    ASSUME NEW l \in Seq(Rows), NEW row \in Rows, NEW t
    PROVE  PendingWrites(l, t) \subseteq PendingWrites(Append(l, row), t)
BY AppendRow DEF PendingWrites, Ids

(* The responses are responses.                                            *)
LEMMA NewReplies ==
    ASSUME NEW t \in Transactions
    PROVE  /\ \A f \in Filenames, d \in Data : FileRow("read_response", t, f, d) \in Replies
           /\ \A name \in {"write_response", "vote_commit", "vote_abort", "unsupported"} :
                 PlainRow(name, t) \in Replies
BY DEF FileRow, PlainRow, Replies

LEMMA NoReplyIsReply == NoReply \in Replies
BY DEF Replies

LEMMA TypeInit == Init => TypeOK
<1> SUFFICES ASSUME Init PROVE TypeOK
  OBVIOUS
<1> USE DEF Init
<1>1. PendingWrites(log, txn) = {}
  BY DEF PendingWrites, Ids
<1>2. reply \in Replies
  BY DEF Replies
<1>3. log \in Seq(Rows)
  OBVIOUS
<1> QED BY <1>1, <1>2, <1>3, ConstantsOK DEF TypeOK, PCs, SyncStates

(* Every step of the server keeps the types.  A handler that appends one   *)
(* row has nothing pending, so only the appended row has to be looked at.  *)
LEMMA TypeStep == TypeOK /\ [Next]_vars => TypeOK'
<1> SUFFICES ASSUME TypeOK, [Next]_vars PROVE TypeOK'
  OBVIOUS
<1> USE ConstantsOK, EmptyIsData DEF PCs, SyncStates
<1>0. /\ log \in Seq(Rows) /\ disk \in [Files -> Data \cup {NoFile}]
      /\ pending \subseteq DOMAIN log /\ sync \in [Files -> SyncStates]
      /\ misread \subseteq Nat /\ faults \in Nat /\ reply \in Replies
      /\ \A i \in pending : /\ Row(i).data \in Data
                             /\ Path(i) \in Files
                             /\ Row(i).transaction_id = txn
                             /\ Row(i).name = "write"
  <2>1. log \in Seq(Rows) /\ pending \subseteq PendingWrites(log, txn)
    BY DEF TypeOK
  <2>2. ASSUME NEW i \in pending
        PROVE  /\ i \in DOMAIN log
               /\ Row(i).data \in Data
               /\ Row(i).transaction_id = txn
               /\ Row(i).name = "write"
               /\ Row(i).filename \in Filenames
    BY <2>1, RowTypes DEF PendingWrites, Ids, Row, FileOperations
  <2> QED BY <2>1, <2>2 DEF TypeOK, Path, Row
<1>1. ASSUME NEW row \in Rows, log' = InsertOperation(log, row), pc = "ready",
             UNCHANGED <<txn, pending>>, pc' = "replying",
             reply' \in Replies, misread' \subseteq Nat, faults' \in 0..MaxFaults,
             UNCHANGED <<disk, sync>>
      PROVE  TypeOK'
  BY <1>0, <1>1, AppendRow DEF TypeOK, InsertOperation
<1>2. CASE Start
  BY <1>2 DEF Start, TypeOK
<1>3. ASSUME NEW t \in Transactions, NEW f \in Filenames,
             HandleRead(t, f)
      PROVE  TypeOK'
  <2>1. FileContent(t, f) \in Data
    BY FileContentIsData
  <2> QED
    BY <1>1, <1>3, <2>1, NewRows, NewReplies
       DEF HandleRead, Answer, FileOperations, TypeOK
<1>4. ASSUME NEW t \in Transactions, NEW f \in Filenames,
             HandleReadUnopened(t, f)
      PROVE  TypeOK'
  <2>1. misread' \subseteq Nat
    <3>1. misread' = misread \cup {Len(log) + 1}
      BY <1>4 DEF HandleReadUnopened
    <3>2. Len(log) + 1 \in Nat
      BY <1>0
    <3> QED BY <1>0, <3>1, <3>2
  <2>3. faults' \in 0..MaxFaults
    BY <1>0, <1>4 DEF HandleReadUnopened, Fault
  <2>2. FileRow("read", t, f, Empty) \in Rows /\ reply' \in Replies
    BY <1>4, NewRows, NewReplies DEF HandleReadUnopened, Answer, FileOperations
  <2> QED
    BY <1>1, <1>4, <2>1, <2>2, <2>3 DEF HandleReadUnopened, Answer
<1>5. ASSUME NEW t \in Transactions, NEW f \in Filenames, NEW d \in Data,
             HandleWrite(t, f, d)
      PROVE  TypeOK'
  BY <1>1, <1>5, NewRows, NewReplies
     DEF HandleWrite, Answer, FileOperations, TypeOK
<1>6. ASSUME NEW t \in Transactions, HandlePrepare(t)
      PROVE  TypeOK'
  BY <1>1, <1>6, NewRows, NewReplies
     DEF HandlePrepare, Answer, Vote, DecisionOperations, TypeOK
<1>7. ASSUME NEW t \in Transactions, AskOperator(t)
      PROVE  TypeOK'
  BY <1>7 DEF AskOperator, TypeOK
<1>8. ASSUME NEW yes \in BOOLEAN, OperatorAnswers(yes)
      PROVE  TypeOK'
  <2>1. txn \in Transactions /\ pending = {}
    BY <1>8 DEF OperatorAnswers, TypeOK
  <2> QED
    BY <1>8, <1>0, <2>1, AppendRow, NewRows, NewReplies
       DEF OperatorAnswers, Answer, InsertOperation, Vote, DecisionOperations, TypeOK
<1>9. ASSUME NEW t \in Transactions, HandleGlobalAbort(t)
      PROVE  TypeOK'
  BY <1>1, <1>9, NewRows, NewReplies
     DEF HandleGlobalAbort, Answer, DecisionOperations, TypeOK
<1>10. ASSUME NEW t \in Transactions, HandleUnsupported(t)
       PROVE  TypeOK'
  BY <1>10, NewReplies DEF HandleUnsupported, Answer, TypeOK
<1>11. CASE RequestFails
  BY <1>11, NoReplyIsReply DEF RequestFails, Answer, TypeOK
<1>12. ASSUME NEW t \in Transactions, HandleGlobalCommit(t)
       PROVE  TypeOK'
  BY <1>12 DEF HandleGlobalCommit, TypeOK
<1>13. CASE OpenFile
  BY <1>13, <1>0 DEF OpenFile, TypeOK
<1>14. CASE OpenFileFails
  BY <1>14, <1>0 DEF OpenFileFails, Fault, TypeOK
<1>15. CASE WriteFile
  BY <1>15, <1>0 DEF WriteFile, TypeOK
<1>16. CASE WriteFileFails
  BY <1>16, <1>0 DEF WriteFileFails, Fault, TypeOK
<1>17. CASE RecordCommit
  <2>1. txn \in Transactions /\ pending = {}
    BY <1>17 DEF RecordCommit, TypeOK
  <2> QED
    BY <1>17, <1>0, <2>1, AppendRow, NewRows, NewReplies
       DEF RecordCommit, Answer, InsertOperation, DecisionOperations, TypeOK
<1>18. CASE InsertFails
  BY <1>18, <1>0, NoReplyIsReply DEF InsertFails, Fault, Answer, TypeOK
<1>19. CASE Reply
  BY <1>19, NoReplyIsReply DEF Reply, TypeOK
<1>20. CASE Crash
  BY <1>20, <1>0, NoReplyIsReply DEF Crash, Fault, TypeOK
<1>21. CASE UNCHANGED vars
  BY <1>21 DEF vars, TypeOK, PendingWrites, Ids
<1> QED
  BY <1>2, <1>3, <1>4, <1>5, <1>6, <1>7, <1>8, <1>9, <1>10, <1>11, <1>12, <1>13,
     <1>14, <1>15, <1>16, <1>17, <1>18, <1>19, <1>20, <1>21
     DEF Next, CalculateResponse, Proceed

(* Every reachable state is well typed.                                    *)
THEOREM TypeCorrect == Spec => []TypeOK
BY TypeInit, TypeStep, PTL DEF Spec

-----------------------------------------------------------------------------
(* The strengthening of DiskIsReplay: what commitPendingWrites has done so  *)
(* far.  The writes are applied in the order of their ids; a file one of    *)
(* them went to is not vouched for; and if its last write took effect, the  *)
(* file holds the content of the last write applied to it.                  *)
InstallProgress ==
    LET applied == PendingWrites(log, txn) \ pending IN
    pc \in {"installing", "writing"} =>
       /\ \A i \in applied, j \in pending : i < j
       /\ \A i \in applied : sync[Path(i)] # "recorded"
       /\ \A i \in applied :
             /\ \A j \in applied : Path(j) = Path(i) => j <= i
             /\ sync[Path(i)] = "installed"
             => disk[Path(i)] = Row(i).data

IInv == TypeOK /\ InstallProgress /\ DiskIsReplay

(* A row that does not record a commit with a write to f leaves alone what *)
(* the log says of f.                                                      *)
LEMMA SameInstalls ==
    ASSUME TypeOK, NEW row \in Rows, log' = Append(log, row), NEW f,
           row.name = "global_commit"
             => \A w \in PendingWrites(log, row.transaction_id) : Path(w) # f
    PROVE  \A c, w : Installs(c, w, f)' <=> Installs(c, w, f)
<1>1. log \in Seq(Rows)
  BY DEF TypeOK
<1> DEFINE n == Len(log)
<1>2. /\ n \in Nat /\ DOMAIN log = 1..n /\ DOMAIN log' = 1..(n+1)
      /\ \A i \in 1..n : log'[i] = log[i]
      /\ log'[n+1] = row
  BY <1>1, AppendRow
<1> HIDE DEF n
<1> SUFFICES ASSUME NEW c, NEW w
             PROVE  Installs(c, w, f)' <=> Installs(c, w, f)
  OBVIOUS
<1>3. CASE c \in 1..n /\ w \in 1..n
  BY <1>2, <1>3 DEF Installs, Row, Path
<1>4. CASE c = n + 1 /\ w \in 1..n
  <2>1. ~Installs(c, w, f)
    BY <1>2, <1>4 DEF Installs
  <2>2. ~Installs(c, w, f)'
    <3> SUFFICES ASSUME Installs(c, w, f)' PROVE FALSE
      OBVIOUS
    <3>1. log'[c].name = "global_commit" /\ log'[w].name = "write"
          /\ log'[c].transaction_id = log'[w].transaction_id
          /\ PathOf[log'[w].filename] = f
      BY DEF Installs, Row, Path
    <3>2. row.name = "global_commit" /\ w \in PendingWrites(log, row.transaction_id)
      BY <3>1, <1>2, <1>4 DEF PendingWrites, Ids
    <3>3. Path(w) = f
      BY <3>1, <1>2, <1>4 DEF Path
    <3> QED BY <3>2, <3>3
  <2> QED BY <2>1, <2>2
<1>5. CASE w \notin 1..n \/ c \notin 1..(n+1)
  <2>1. ~Installs(c, w, f)
    BY <1>2, <1>5 DEF Installs
  <2>2. ~(w \in DOMAIN log' /\ c \in DOMAIN log' /\ w < c)
    BY <1>2, <1>5
  <2> QED BY <2>1, <2>2 DEF Installs
<1> QED BY <1>2, <1>3, <1>4, <1>5

(* Hence a file that keeps its content keeps agreeing with the log.        *)
LEMMA SameReplay ==
    ASSUME TypeOK, NEW row \in Rows, log' = Append(log, row), NEW f,
           row.name = "global_commit"
             => \A w \in PendingWrites(log, row.transaction_id) : Path(w) # f,
           disk'[f] = disk[f], Replays(f, disk[f])
    PROVE  Replays(f, disk[f])'
<1>1. log \in Seq(Rows)
  BY DEF TypeOK
<1>2. /\ DOMAIN log \subseteq DOMAIN log'
      /\ \A i \in DOMAIN log : log'[i] = log[i]
  BY <1>1, AppendRow
<1>3. \A c, w : Installs(c, w, f)' <=> Installs(c, w, f)
  BY SameInstalls
<1>4. \A c, w : Installs(c, w, f) => c \in DOMAIN log /\ w \in DOMAIN log
  BY DEF Installs
<1>5. CASE ~(\E c, w \in DOMAIN log : Installs(c, w, f)) /\ disk[f] = InitialDisk[f]
  BY <1>3, <1>4, <1>5 DEF Replays
<1>6. ASSUME NEW c \in DOMAIN log, NEW w \in DOMAIN log,
             LastInstall(c, w, f), disk[f] = Row(w).data
      PROVE  Replays(f, disk[f])'
  <2>1. LastInstall(c, w, f)'
    BY <1>2, <1>3, <1>4, <1>6 DEF LastInstall
  <2>2. disk'[f] = Row(w).data'
    BY <1>2, <1>6 DEF Row
  <2>3. c \in DOMAIN log' /\ w \in DOMAIN log'
    BY <1>2
  <2> QED BY <2>1, <2>2, <2>3 DEF Replays
<1> QED BY <1>5, <1>6 DEF Replays

(* The global_commit row makes the log account for what was installed.     *)
LEMMA RecordedIsReplay ==
    ASSUME TypeOK, InstallProgress, RecordCommit, NEW f \in PathsWritten(txn),
           sync[f] = "installed"
    PROVE  Replays(f, disk[f])'
<1> DEFINE n == Len(log)
           row == PlainRow("global_commit", txn)
           W == {w \in PendingWrites(log, txn) : Path(w) = f}
<1>1. log \in Seq(Rows) /\ txn \in Transactions /\ pending = {}
      /\ log' = Append(log, row) /\ disk' = disk
  BY DEF TypeOK, RecordCommit, InsertOperation
<1>2. row \in Rows /\ row.name = "global_commit" /\ row.transaction_id = txn
  BY <1>1, NewRows DEF DecisionOperations, PlainRow, FileRow
<1> HIDE DEF row
<1>3. /\ n \in Nat /\ DOMAIN log = 1..n /\ DOMAIN log' = 1..(n+1)
      /\ \A i \in 1..n : log'[i] = log[i]
      /\ log'[n+1] = row
  BY <1>1, <1>2, AppendRow
<1> HIDE DEF n
<1>4. W \subseteq 1..n /\ W # {}
  BY <1>3 DEF PathsWritten, PendingWrites, Ids
<1>5. PICK w \in W : \A i \in W : i <= w
  BY <1>3, <1>4, MaxOfIds
<1>6. /\ w \in 1..n /\ Path(w) = f
      /\ log[w].name = "write" /\ log[w].transaction_id = txn
  BY <1>3, <1>5 DEF PendingWrites, Ids
<1>6a. PICK c : c = n + 1    \* a constant, to be used below a prime
  OBVIOUS
<1>7. disk[f] = log[w].data
  BY <1>1, <1>5, <1>6 DEF InstallProgress, RecordCommit, Row
<1>8. Installs(c, w, f)'
  BY <1>6a, <1>2, <1>3, <1>6 DEF Installs, Row, Path
<1>9. ASSUME NEW c1 \in DOMAIN log', NEW w1 \in DOMAIN log', Installs(c1, w1, f)'
      PROVE  c1 < c \/ (c1 = c /\ w1 <= w)
  <2>1. CASE c1 \in 1..n
    BY <1>6a, <1>3, <2>1
  <2>2. CASE c1 = c
    <3>1. /\ w1 \in 1..n
          /\ log'[w1].name = "write"
          /\ log'[c1].transaction_id = log'[w1].transaction_id
          /\ PathOf[log'[w1].filename] = f
      BY <1>6a, <1>3, <1>9, <2>2 DEF Installs, Row, Path
    <3>2. w1 \in W
      BY <1>6a, <1>2, <1>3, <2>2, <3>1 DEF PendingWrites, Ids, Path
    <3> QED BY <1>5, <2>2, <3>2
  <2> QED BY <1>6a, <1>3, <2>1, <2>2
<1>10. LastInstall(c, w, f)'
  BY <1>8, <1>9 DEF LastInstall
<1>11. c \in DOMAIN log' /\ w \in DOMAIN log' /\ disk'[f] = log'[w].data
  BY <1>6a, <1>1, <1>3, <1>6, <1>7
<1> QED BY <1>10, <1>11 DEF Replays, Row

LEMMA IInvInit == Init => IInv
<1> SUFFICES ASSUME Init PROVE IInv
  OBVIOUS
<1>1. TypeOK
  BY TypeInit
<1>2. DOMAIN log = {} /\ pc = "down" /\ disk = InitialDisk
  BY DEF Init
<1>3. DiskIsReplay
  BY <1>2 DEF DiskIsReplay, Replays
<1> QED BY <1>1, <1>2, <1>3 DEF IInv, InstallProgress

(* The steps of a commit change a file only together with its sync, and    *)
(* the only row that installs anything is the one RecordCommit inserts.    *)
LEMMA IInvStep == IInv /\ [Next]_vars => IInv'
<1> SUFFICES ASSUME IInv, [Next]_vars PROVE IInv'
  OBVIOUS
<1>0. TypeOK /\ InstallProgress /\ DiskIsReplay /\ TypeOK'
  BY TypeStep DEF IInv
<1>a. /\ log \in Seq(Rows) /\ disk \in [Files -> Data \cup {NoFile}]
      /\ sync \in [Files -> SyncStates]
      /\ pending \subseteq PendingWrites(log, txn)
  BY <1>0 DEF TypeOK
<1>b. PendingWrites(log, txn) \subseteq Nat
  BY <1>a DEF PendingWrites, Ids
<1>c. \A i \in PendingWrites(log, txn) : Path(i) \in Files
  BY <1>a, RowTypes, ConstantsOK DEF PendingWrites, Ids, Path, FileOperations
(* Handlers that insert one row and touch no file. *)
<1>1. ASSUME NEW row \in Rows, log' = Append(log, row), row.name # "global_commit",
             UNCHANGED <<disk, sync>>, pc' = "replying"
      PROVE  IInv'
  <2>1. DiskIsReplay'
    <3> SUFFICES ASSUME NEW f \in Files, sync'[f] = "recorded"
                 PROVE  Replays(f, disk[f])'
      BY DEF DiskIsReplay
    <3>1. Replays(f, disk[f])
      BY <1>0, <1>1 DEF DiskIsReplay
    <3> QED BY <1>0, <1>1, <3>1, SameReplay
  <2> QED BY <1>0, <1>1, <2>1 DEF IInv, InstallProgress
(* Steps that leave the log, and every file the log accounts for, alone. *)
<1>2. ASSUME UNCHANGED log,
             \A f \in Files : sync'[f] = "recorded" => sync[f] = "recorded" /\ disk'[f] = disk[f]
      PROVE  DiskIsReplay'
  <2> SUFFICES ASSUME NEW f \in Files, sync'[f] = "recorded"
               PROVE  Replays(f, disk[f])'
    BY DEF DiskIsReplay
  <2>1. Replays(f, disk[f])
    BY <1>0, <1>2 DEF DiskIsReplay
  <2> QED BY <1>2, <2>1 DEF Replays, LastInstall, Installs, Row, Path
<1>3. ASSUME UNCHANGED <<log, disk, sync>>, pc' \notin {"installing", "writing"}
      PROVE  IInv'
  BY <1>0, <1>2, <1>3 DEF IInv, InstallProgress
<1>4. CASE Start
  BY <1>3, <1>4 DEF Start
<1>5. ASSUME NEW t \in Transactions, NEW f \in Filenames, HandleRead(t, f)
      PROVE  IInv'
  <2>1. FileRow("read", t, f, FileContent(t, f)) \in Rows
    BY <1>0, FileContentIsData, NewRows DEF FileOperations
  <2>2. FileRow("read", t, f, FileContent(t, f)).name # "global_commit"
    BY DEF FileRow
  <2> QED BY <1>1, <1>5, <2>1, <2>2 DEF HandleRead, Answer, InsertOperation
<1>6. ASSUME NEW t \in Transactions, NEW f \in Filenames, HandleReadUnopened(t, f)
      PROVE  IInv'
  <2>1. FileRow("read", t, f, Empty) \in Rows
    BY NewRows, EmptyIsData DEF FileOperations
  <2>2. FileRow("read", t, f, Empty).name # "global_commit"
    BY DEF FileRow
  <2> QED BY <1>1, <1>6, <2>1, <2>2 DEF HandleReadUnopened, Answer, InsertOperation
<1>7. ASSUME NEW t \in Transactions, NEW f \in Filenames, NEW d \in Data,
             HandleWrite(t, f, d)
      PROVE  IInv'
  <2>1. FileRow("write", t, f, d) \in Rows
    BY NewRows DEF FileOperations
  <2>2. FileRow("write", t, f, d).name # "global_commit"
    BY DEF FileRow
  <2> QED BY <1>1, <1>7, <2>1, <2>2 DEF HandleWrite, Answer, InsertOperation
<1>8. ASSUME NEW t \in Transactions, HandlePrepare(t)
      PROVE  IInv'
  BY <1>1, <1>8, NewRows
     DEF HandlePrepare, Answer, InsertOperation, Vote, DecisionOperations, PlainRow, FileRow
<1>9. ASSUME NEW t \in Transactions, AskOperator(t)
      PROVE  IInv'
  BY <1>3, <1>9 DEF AskOperator
<1>10. ASSUME NEW yes \in BOOLEAN, OperatorAnswers(yes)
       PROVE  IInv'
  <2>1. txn \in Transactions
    BY <1>0, <1>10 DEF OperatorAnswers, TypeOK
  <2> QED
    BY <1>1, <1>10, <2>1, NewRows
       DEF OperatorAnswers, Answer, InsertOperation, Vote, DecisionOperations, PlainRow, FileRow
<1>11. ASSUME NEW t \in Transactions, HandleGlobalAbort(t)
       PROVE  IInv'
  BY <1>1, <1>11, NewRows
     DEF HandleGlobalAbort, Answer, InsertOperation, DecisionOperations, PlainRow, FileRow
<1>12. ASSUME NEW t \in Transactions, HandleUnsupported(t)
       PROVE  IInv'
  BY <1>3, <1>12 DEF HandleUnsupported, Answer
<1>13. CASE RequestFails
  BY <1>3, <1>13 DEF RequestFails, Answer
<1>14. ASSUME NEW t \in Transactions, HandleGlobalCommit(t)
       PROVE  IInv'
  <2>1. PendingWrites(log, txn)' \ pending' = {}
    BY <1>14 DEF HandleGlobalCommit, PendingWrites, Ids
  <2>2. DiskIsReplay'
    BY <1>2, <1>14 DEF HandleGlobalCommit
  <2> QED BY <1>0, <2>1, <2>2 DEF IInv, InstallProgress
(* The four steps of applying one write. *)
<1>15. CASE OpenFile
  <2>1. PICK i \in pending : /\ NextWrite(i)
                             /\ disk' = [disk EXCEPT ![Path(i)] = Empty]
                             /\ sync' = [sync EXCEPT ![Path(i)] = "open"]
    BY <1>15 DEF OpenFile
  <2>2. UNCHANGED <<log, txn, pending>> /\ pc = "installing"
    BY <1>15 DEF OpenFile
  <2>3. Path(i) \in Files
    BY <1>a, <1>c
  <2>4. DiskIsReplay'
    BY <1>2, <1>a, <2>1, <2>2, <2>3
  <2>5. InstallProgress'
    BY <1>0, <1>a, <1>c, <2>1, <2>2, <2>3
       DEF InstallProgress, Path, Row, PendingWrites, Ids
  <2> QED BY <1>0, <2>4, <2>5 DEF IInv
<1>16. CASE OpenFileFails
  <2>1. PICK i \in pending : /\ NextWrite(i)
                             /\ sync' = [sync EXCEPT ![Path(i)] = "failed"]
                             /\ pending' = pending \ {i}
    BY <1>16 DEF OpenFileFails
  <2>2. UNCHANGED <<log, disk, txn>> /\ pc = "installing"
    BY <1>16 DEF OpenFileFails
  <2>3. Path(i) \in Files
    BY <1>a, <1>c
  <2>4. DiskIsReplay'
    BY <1>2, <1>a, <2>1, <2>2, <2>3
  <2>5. InstallProgress'
    BY <1>0, <1>a, <1>b, <1>c, <2>1, <2>2, <2>3
       DEF InstallProgress, NextWrite, Path, Row, PendingWrites, Ids
  <2> QED BY <1>0, <2>4, <2>5 DEF IInv
<1>17. CASE WriteFile
  <2>1. PICK i \in pending : /\ NextWrite(i)
                             /\ disk' = [disk EXCEPT ![Path(i)] = Row(i).data]
                             /\ sync' = [sync EXCEPT ![Path(i)] = "installed"]
                             /\ pending' = pending \ {i}
    BY <1>17 DEF WriteFile
  <2>2. UNCHANGED <<log, txn>> /\ pc = "writing"
    BY <1>17 DEF WriteFile
  <2>3. Path(i) \in Files
    BY <1>a, <1>c
  <2>4. DiskIsReplay'
    BY <1>2, <1>a, <2>1, <2>2, <2>3
  <2>5. InstallProgress'
    BY <1>0, <1>a, <1>b, <1>c, <2>1, <2>2, <2>3
       DEF InstallProgress, NextWrite, Path, Row, PendingWrites, Ids
  <2> QED BY <1>0, <2>4, <2>5 DEF IInv
<1>18. CASE WriteFileFails
  <2>1. PICK i \in pending : /\ NextWrite(i)
                             /\ sync' = [sync EXCEPT ![Path(i)] = "failed"]
                             /\ pending' = pending \ {i}
    BY <1>18 DEF WriteFileFails
  <2>2. UNCHANGED <<log, disk, txn>> /\ pc = "writing"
    BY <1>18 DEF WriteFileFails
  <2>3. Path(i) \in Files
    BY <1>a, <1>c
  <2>4. DiskIsReplay'
    BY <1>2, <1>a, <2>1, <2>2, <2>3
  <2>5. InstallProgress'
    BY <1>0, <1>a, <1>b, <1>c, <2>1, <2>2, <2>3
       DEF InstallProgress, NextWrite, Path, Row, PendingWrites, Ids
  <2> QED BY <1>0, <2>4, <2>5 DEF IInv
<1>19. CASE RecordCommit
  <2> DEFINE row == PlainRow("global_commit", txn)
  <2>1. txn \in Transactions /\ log' = Append(log, row) /\ disk' = disk
        /\ pending = {} /\ pc = "installing" /\ pc' = "replying"
    BY <1>0, <1>19 DEF RecordCommit, Answer, InsertOperation, TypeOK
  <2>2. row \in Rows /\ row.transaction_id = txn
    BY <2>1, NewRows DEF DecisionOperations, PlainRow, FileRow
  <2> SUFFICES ASSUME NEW f \in Files, sync'[f] = "recorded"
               PROVE  Replays(f, disk[f])'
    BY <1>0, <2>1 DEF IInv, InstallProgress, DiskIsReplay
  <2>3. CASE f \in PathsWritten(txn) /\ sync[f] = "installed"
    BY <1>0, <1>19, <2>3, RecordedIsReplay
  <2>4. CASE ~(f \in PathsWritten(txn) /\ sync[f] = "installed")
    <3>1. sync[f] = "recorded"
      BY <1>19, <2>4 DEF RecordCommit
    <3>2. f \notin PathsWritten(txn)
      BY <1>0, <2>1, <3>1 DEF InstallProgress, PathsWritten
    <3>3. \A w \in PendingWrites(log, row.transaction_id) : Path(w) # f
      BY <2>2, <3>2 DEF PathsWritten
    <3>4. Replays(f, disk[f])
      BY <1>0, <3>1 DEF DiskIsReplay
    <3> HIDE DEF row
    <3> QED BY <1>0, <2>1, <2>2, <3>3, <3>4, SameReplay
  <2> QED BY <2>3, <2>4
<1>20. CASE InsertFails
  BY <1>3, <1>20 DEF InsertFails, Answer
<1>21. CASE Reply
  BY <1>3, <1>21 DEF Reply
<1>22. CASE Crash
  BY <1>3, <1>22 DEF Crash
<1>23. CASE UNCHANGED vars
  <2>1. UNCHANGED <<log, disk, pc, txn, pending, sync>>
    BY <1>23 DEF vars
  <2>2. DiskIsReplay'
    BY <1>2, <2>1
  <2>3. InstallProgress'
    BY <1>0, <2>1 DEF InstallProgress, PendingWrites, Ids, Path, Row
  <2> QED BY <1>0, <2>2, <2>3 DEF IInv
<1> QED
  BY <1>4, <1>5, <1>6, <1>7, <1>8, <1>9, <1>10, <1>11, <1>12, <1>13, <1>14, <1>15,
     <1>16, <1>17, <1>18, <1>19, <1>20, <1>21, <1>22, <1>23
     DEF Next, CalculateResponse, Proceed

(* In every reachable state, a file that no unrecorded installation has    *)
(* disturbed holds what replaying the log leaves in it.                    *)
THEOREM DiskFollowsLog == Spec => []DiskIsReplay
<1>1. IInv => DiskIsReplay
  BY DEF IInv
<1> QED BY IInvInit, IInvStep, <1>1, PTL DEF Spec
=============================================================================
