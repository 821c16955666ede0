---------------------------- MODULE HistoryProofs ----------------------------
(***************************************************************************)
(* Theorems about what the log of one server records: what reads return,   *)
(* what votes mean, what answers promise.  The log only grows, so each of  *)
(* them comes down to the row that a step appends.                         *)
(***************************************************************************)
EXTENDS FileServerProofs

(* What a handler guarantees of the row it appends to the log.             *)
GoodRow(row) ==
    LET t == row.transaction_id
        f == row.filename
    IN  /\ row.name = "read" /\ OwnWrites(log, t, f) # {}
             => row.data = Row(Max(OwnWrites(log, t, f))).data
        /\ row.name = "read" /\ OwnWrites(log, t, f) = {} /\ Len(log) + 1 \notin misread'
             => row.data = Shown(disk[PathOf[f]])
        /\ row.name = "vote_commit" /\ AutoMode => CanAutoCommitTransaction(t)

(* A step that appends a row.                                              *)
Appends(row) ==
    /\ row \in Rows /\ log' = Append(log, row) /\ GoodRow(row)
    /\ UNCHANGED disk /\ misread \subseteq misread'
    /\ \A f \in Files :
          sync'[f] = "recorded" =>
             \/ sync[f] = "recorded"
             \/ /\ row.name = "global_commit"
                /\ \E w \in PendingWrites(log, row.transaction_id) : Path(w) = f

(* A step that does not.                                                   *)
Leaves ==
    /\ UNCHANGED log /\ misread \subseteq misread'
    /\ \A f \in Files :
          sync'[f] = "recorded" => sync[f] = "recorded" /\ disk'[f] = disk[f]

(* An automatic server never waits for the operator.                       *)
AsksOnlyOperators == pc = "asking" => ~AutoMode

Base == TypeOK /\ AsksOnlyOperators

LEMMA BaseInvariant == Spec => []Base
<1>1. Init => AsksOnlyOperators
  BY DEF Init, AsksOnlyOperators
<1>2. AsksOnlyOperators /\ [Next]_vars => AsksOnlyOperators'
  <2> SUFFICES ASSUME AsksOnlyOperators, [Next]_vars PROVE AsksOnlyOperators'
    OBVIOUS
  <2> QED
    BY DEF AsksOnlyOperators, vars, Next, CalculateResponse, Proceed, Answer, Start, HandleRead,
       HandleReadUnopened, HandleWrite, HandlePrepare, AskOperator, OperatorAnswers,
       HandleGlobalAbort, HandleUnsupported, RequestFails, HandleGlobalCommit, OpenFile,
       OpenFileFails, WriteFile, WriteFileFails, RecordCommit, InsertFails, Reply, Crash
<1> QED BY <1>1, <1>2, TypeCorrect, PTL DEF Spec, Base

(* Every step appends one good row or leaves the log alone.                *)
LEMMA StepOfLog ==
    ASSUME Base, [Next]_vars
    PROVE  Leaves \/ \E row : Appends(row)
<1> USE ConstantsOK, EmptyIsData
<1>0. TypeOK /\ AsksOnlyOperators
  BY DEF Base
<1>a. /\ log \in Seq(Rows) /\ disk \in [Files -> Data \cup {NoFile}]
      /\ sync \in [Files -> SyncStates]
      /\ \A i \in pending : Path(i) \in Files
  <2>1. log \in Seq(Rows) /\ pending \subseteq PendingWrites(log, txn)
    BY <1>0 DEF TypeOK
  <2>2. ASSUME NEW i \in pending PROVE Path(i) \in Files
    BY <2>1, RowTypes DEF PendingWrites, Ids, Path, FileOperations
  <2> QED BY <1>0, <2>2 DEF TypeOK
<1>1. ASSUME NEW t \in Transactions, NEW f \in Filenames, HandleRead(t, f)
      PROVE  \E row : Appends(row)
  <2> DEFINE row == FileRow("read", t, f, FileContent(t, f))
  <2>1. row \in Rows
    BY <1>0, FileContentIsData, NewRows DEF FileOperations
  <2>2. row.name = "read" /\ row.transaction_id = t /\ row.filename = f
        /\ row.data = FileContent(t, f)
    BY DEF FileRow
  <2>3. GoodRow(row)
    BY <2>2 DEF GoodRow, FileContent, FileWasWrittenInThisTransaction,
       LastFileContentFromThisTransaction, Row, Shown
  <2>4. Appends(row)
    BY <1>1, <2>1, <2>3 DEF Appends, HandleRead, InsertOperation
  <2> QED BY <2>4
<1>2. ASSUME NEW t \in Transactions, NEW f \in Filenames, HandleReadUnopened(t, f)
      PROVE  \E row : Appends(row)
  <2> DEFINE row == FileRow("read", t, f, Empty)
  <2>1. row \in Rows
    BY NewRows DEF FileOperations
  <2>2. row.name = "read" /\ row.transaction_id = t /\ row.filename = f
    BY DEF FileRow
  <2>3. OwnWrites(log, t, f) = {} /\ Len(log) + 1 \in misread'
    BY <1>2 DEF HandleReadUnopened, FileWasWrittenInThisTransaction
  <2>4. GoodRow(row)
    BY <2>2, <2>3 DEF GoodRow
  <2>5. Appends(row)
    BY <1>2, <2>1, <2>4 DEF Appends, HandleReadUnopened, InsertOperation
  <2> QED BY <2>5
<1>3. ASSUME NEW t \in Transactions, NEW f \in Filenames, NEW d \in Data,
             HandleWrite(t, f, d)
      PROVE  \E row : Appends(row)
  <2> DEFINE row == FileRow("write", t, f, d)
  <2>1. row \in Rows /\ row.name = "write"
    BY NewRows DEF FileOperations, FileRow
  <2>2. GoodRow(row)
    BY <2>1 DEF GoodRow
  <2>3. Appends(row)
    BY <1>3, <2>1, <2>2 DEF Appends, HandleWrite, InsertOperation
  <2> QED BY <2>3
<1>4. ASSUME NEW t \in Transactions, HandlePrepare(t)
      PROVE  \E row : Appends(row)
  <2> DEFINE row == PlainRow(Vote(CanAutoCommitTransaction(t)), t)
  <2>1. row \in Rows /\ row.name # "read" /\ row.transaction_id = t
    BY NewRows DEF DecisionOperations, Vote, PlainRow, FileRow
  <2>2. row.name = "vote_commit" => CanAutoCommitTransaction(t)
    BY DEF Vote, PlainRow, FileRow
  <2>3. GoodRow(row)
    BY <2>1, <2>2 DEF GoodRow
  <2>4. Appends(row)
    BY <1>4, <2>1, <2>3 DEF Appends, HandlePrepare, Answer, InsertOperation
  <2> QED BY <2>4
<1>5. ASSUME NEW yes \in BOOLEAN, OperatorAnswers(yes)
      PROVE  \E row : Appends(row)
  <2> DEFINE row == PlainRow(Vote(yes), txn)
  <2>1. txn \in Transactions /\ ~AutoMode
    BY <1>0, <1>5 DEF OperatorAnswers, TypeOK, AsksOnlyOperators
  <2>2. row \in Rows /\ row.name # "read"
    BY <2>1, NewRows DEF DecisionOperations, Vote, PlainRow, FileRow
  <2>3. GoodRow(row)
    BY <2>1, <2>2 DEF GoodRow
  <2>4. Appends(row)
    BY <1>5, <2>2, <2>3 DEF Appends, OperatorAnswers, Answer, InsertOperation
  <2> QED BY <2>4
<1>6. ASSUME NEW t \in Transactions, HandleGlobalAbort(t)
      PROVE  \E row : Appends(row)
  <2> DEFINE row == PlainRow("global_abort", t)
  <2>1. row \in Rows /\ row.name = "global_abort"
    BY NewRows DEF DecisionOperations, PlainRow, FileRow
  <2>2. GoodRow(row)
    BY <2>1 DEF GoodRow
  <2>3. Appends(row)
    BY <1>6, <2>1, <2>2 DEF Appends, HandleGlobalAbort, InsertOperation
  <2> QED BY <2>3
<1>7. CASE RecordCommit
  <2> DEFINE row == PlainRow("global_commit", txn)
  <2>1. txn \in Transactions
    BY <1>0, <1>7 DEF RecordCommit, TypeOK
  <2>2. row \in Rows /\ row.name = "global_commit" /\ row.transaction_id = txn
    BY <2>1, NewRows DEF DecisionOperations, PlainRow, FileRow
  <2>3. GoodRow(row)
    BY <2>2 DEF GoodRow
  <2>4. \A f \in Files :
           sync'[f] = "recorded" =>
              sync[f] = "recorded" \/ \E w \in PendingWrites(log, txn) : Path(w) = f
    BY <1>7 DEF RecordCommit, PathsWritten
  <2>5. Appends(row)
    BY <1>7, <2>2, <2>3, <2>4 DEF Appends, RecordCommit, InsertOperation
  <2> QED BY <2>5
<1>8. CASE OpenFile
  BY <1>a, <1>8 DEF OpenFile, Leaves
<1>9. CASE OpenFileFails
  BY <1>a, <1>9 DEF OpenFileFails, Leaves
<1>10. CASE WriteFile
  BY <1>a, <1>10 DEF WriteFile, Leaves
<1>11. CASE WriteFileFails
  BY <1>a, <1>11 DEF WriteFileFails, Leaves
<1>12. ASSUME UNCHANGED <<log, disk, sync, misread>>
       PROVE  Leaves
  BY <1>12 DEF Leaves
<1> QED
  BY <1>1, <1>2, <1>3, <1>4, <1>5, <1>6, <1>7, <1>8, <1>9, <1>10, <1>11, <1>12
     DEF Next, CalculateResponse, Proceed, vars, Start, AskOperator, HandleUnsupported,
         RequestFails, HandleGlobalCommit, InsertFails, Reply, Crash

(* Old rows stay, with their ids; the appended one is the last.            *)
LEMMA AppendedLog ==
    ASSUME Base, NEW row, Appends(row)
    PROVE  /\ Len(log) \in Nat /\ Len(log') = Len(log) + 1
           /\ DOMAIN log = 1..Len(log) /\ DOMAIN log' = 1..(Len(log) + 1)
           /\ \A i \in 1..Len(log) : log'[i] = log[i]
           /\ log'[Len(log) + 1] = row
           /\ row \in Rows
BY AppendRow DEF Base, TypeOK, Appends

-----------------------------------------------------------------------------
(* ReadYourWrites needs no strengthening: the writes before a row never    *)
(* change, and the appended read returned the last of them.                *)
LEMMA ReadYourWritesStep ==
    ASSUME Base, ReadYourWrites, [Next]_vars
    PROVE  ReadYourWrites'
<1>1. CASE Leaves
  BY <1>1 DEF Leaves, ReadYourWrites, OwnWrites, Ids, Row
<1>2. ASSUME NEW row, Appends(row)
      PROVE  ReadYourWrites'
  <2> PICK n : n = Len(log)
    OBVIOUS
  <2>1. /\ n \in Nat /\ DOMAIN log = 1..n /\ DOMAIN log' = 1..(n+1)
        /\ \A i \in 1..n : log'[i] = log[i]
        /\ log'[n+1] = row
    BY <1>2, AppendedLog
  <2>2. ASSUME NEW r \in 1..(n+1), NEW t, NEW f
        PROVE  {w \in OwnWrites(log', t, f) : w < r} = {w \in OwnWrites(log, t, f) : w < r}
    BY <2>1 DEF OwnWrites, Ids
  <2> SUFFICES ASSUME NEW r \in DOMAIN log', log'[r].name = "read",
                      {w \in OwnWrites(log', log'[r].transaction_id, log'[r].filename) : w < r} # {}
               PROVE  log'[r].data =
                        log'[Max({w \in OwnWrites(log', log'[r].transaction_id, log'[r].filename) : w < r})].data
    BY DEF ReadYourWrites, Row
  <2> DEFINE own == {w \in OwnWrites(log, log'[r].transaction_id, log'[r].filename) : w < r}
  <2>3. {w \in OwnWrites(log', log'[r].transaction_id, log'[r].filename) : w < r} = own
    BY <2>1, <2>2
  <2>4. own \subseteq 1..n /\ own # {}
    BY <2>1, <2>3 DEF OwnWrites, Ids
  <2>5. Max(own) \in 1..n
    BY <2>1, <2>4, MaxOfIds
  <2>6. CASE r \in 1..n
    <3>1. log'[r] = log[r]
      BY <2>1, <2>6
    <3>2. log[r].data = log[Max(own)].data
      BY <2>1, <2>4, <2>6, <3>1 DEF ReadYourWrites, Row
    <3> QED BY <2>1, <2>3, <2>5, <3>1, <3>2
  <2>7. CASE r = n + 1
    <3>1. log'[r] = row
      BY <2>1, <2>7
    <3>2. own = OwnWrites(log, row.transaction_id, row.filename)
      BY <2>1, <2>7, <3>1 DEF OwnWrites, Ids
    <3>3. row.data = log[Max(own)].data
      BY <1>2, <2>4, <3>1, <3>2 DEF Appends, GoodRow, Row
    <3> QED BY <2>1, <2>3, <2>5, <3>1, <3>3
  <2> QED BY <2>1, <2>6, <2>7
<1> QED BY <1>1, <1>2, StepOfLog

(* Whatever happens in between, a transaction reads its own last write.    *)
THEOREM OwnWritesAreRead == Spec => []ReadYourWrites
<1>1. Init => ReadYourWrites
  BY DEF Init, ReadYourWrites
<1>2. Base /\ ReadYourWrites /\ [Next]_vars => ReadYourWrites'
  BY ReadYourWritesStep
<1> QED BY <1>1, <1>2, BaseInvariant, PTL DEF Spec

-----------------------------------------------------------------------------
(* The row of a read that is answered from a file in order holds what the  *)
(* log replays to: the read shows the file, and DiskIsReplay speaks of it. *)
THEOREM NoDirtyReads == Spec => ReadsSeeCommittedData
<1> DEFINE P == \A t \in Transactions, f \in Filenames :
          LET r == Len(log) + 1 IN
          /\ log' # log
          /\ r \notin misread'
          /\ log'[r].name = "read" /\ log'[r].transaction_id = t /\ log'[r].filename = f
          /\ OwnWrites(log, t, f) = {}
          /\ sync[PathOf[f]] = "recorded"
          => \E content \in Data \cup {NoFile} :
                Replays(PathOf[f], content) /\ log'[r].data = Shown(content)
<1>1. Base /\ DiskIsReplay /\ [Next]_vars => P
  <2> SUFFICES ASSUME Base, DiskIsReplay, [Next]_vars,
                      NEW t \in Transactions, NEW f \in Filenames,
                      log' # log,
                      Len(log) + 1 \notin misread',
                      log'[Len(log) + 1].name = "read",
                      log'[Len(log) + 1].transaction_id = t,
                      log'[Len(log) + 1].filename = f,
                      OwnWrites(log, t, f) = {},
                      sync[PathOf[f]] = "recorded"
               PROVE  \E content \in Data \cup {NoFile} :
                         Replays(PathOf[f], content) /\ log'[Len(log) + 1].data = Shown(content)
    OBVIOUS
  <2>1. PICK row : Appends(row)
    BY StepOfLog DEF Leaves
  <2>2. log'[Len(log) + 1] = row
    BY <2>1, AppendedLog
  <2>3. row.data = Shown(disk[PathOf[f]])
    BY <2>1, <2>2 DEF Appends, GoodRow
  <2>4. PathOf[f] \in Files /\ disk[PathOf[f]] \in Data \cup {NoFile}
    BY ConstantsOK DEF Base, TypeOK
  <2>5. Replays(PathOf[f], disk[PathOf[f]])
    BY <2>4 DEF DiskIsReplay
  <2> QED BY <2>2, <2>3, <2>4, <2>5
<1>2. ReadsSeeCommittedData <=> [][P]_vars
  BY DEF ReadsSeeCommittedData
<1> HIDE DEF P
<1> QED BY <1>1, <1>2, BaseInvariant, DiskFollowsLog, PTL DEF Spec

-----------------------------------------------------------------------------
(* The file of a read row is a file.                                       *)
LEMMA ReadsNameFiles ==
    ASSUME Base, NEW r, DiskRead(r)
    PROVE  Path(r) \in Files
BY RowTypes, ConstantsOK DEF Base, TypeOK, DiskRead, Path, Row, FileOperations

(* A file is vouched for again only when a row recording a commit to it    *)
(* is appended, which is what ends the claim of the earlier reads.         *)
LEMMA ReadStaysCurrentStep ==
    ASSUME Base, ReadStaysCurrent, [Next]_vars
    PROVE  ReadStaysCurrent'
<1>0. log \in Seq(Rows)
  BY DEF Base, TypeOK
<1>1. CASE Leaves
  <2> SUFFICES ASSUME NEW r \in DOMAIN log', DiskRead(r)', (sync[Path(r)] = "recorded")',
                      (~ \E c, w \in DOMAIN log : Installs(c, w, Path(r)) /\ r < c)'
               PROVE  (Row(r).data = Shown(disk[Path(r)]))'
    BY DEF ReadStaysCurrent
  <2>1. log' = log
    BY <1>1 DEF Leaves
  <2>2. DiskRead(r) /\ Path(r)' = Path(r)
    BY <1>1, <2>1 DEF Leaves, DiskRead, Row, Path
  <2>3. sync[Path(r)] = "recorded" /\ disk'[Path(r)] = disk[Path(r)]
    BY <1>1, <2>2, ReadsNameFiles DEF Leaves
  <2>4. ~ \E c, w \in DOMAIN log : Installs(c, w, Path(r)) /\ r < c
    BY <2>1 DEF Installs, Row, Path
  <2>5. Row(r).data = Shown(disk[Path(r)])
    BY <2>1, <2>2, <2>3, <2>4 DEF ReadStaysCurrent
  <2> QED BY <2>1, <2>2, <2>3, <2>5 DEF Row, Shown
<1>2. ASSUME NEW row, Appends(row)
      PROVE  ReadStaysCurrent'
  <2> PICK n : n = Len(log)
    OBVIOUS
  <2>1. /\ n \in Nat /\ DOMAIN log = 1..n /\ DOMAIN log' = 1..(n+1)
        /\ \A i \in 1..n : log'[i] = log[i]
        /\ log'[n+1] = row
    BY <1>2, AppendedLog
  <2> SUFFICES ASSUME NEW r \in DOMAIN log', DiskRead(r)', (sync[Path(r)] = "recorded")',
                      (~ \E c, w \in DOMAIN log : Installs(c, w, Path(r)) /\ r < c)'
               PROVE  (Row(r).data = Shown(disk[Path(r)]))'
    BY DEF ReadStaysCurrent
  <2>2. disk' = disk /\ misread \subseteq misread'
    BY <1>2 DEF Appends
  <2>3. CASE r \in 1..n
    <3>1. log'[r] = log[r] /\ Path(r)' = Path(r)
      BY <2>1, <2>3 DEF Path
    <3>2. DiskRead(r)
      <4>1. ~ \E w \in OwnWrites(log', log'[r].transaction_id, log'[r].filename) : w < r
        BY DEF DiskRead, Row
      <4>2. r \notin misread /\ log[r].name = "read"
        BY <2>2, <3>1 DEF DiskRead, Row
      <4>3. \A w \in OwnWrites(log, log[r].transaction_id, log[r].filename) :
               w \in OwnWrites(log', log'[r].transaction_id, log'[r].filename)
        BY <2>1, <3>1 DEF OwnWrites, Ids
      <4> QED BY <2>1, <2>3, <4>1, <4>2, <4>3 DEF DiskRead, Row
    <3>3. ASSUME NEW c \in DOMAIN log, NEW w \in DOMAIN log, Installs(c, w, Path(r))
          PROVE  Installs(c, w, Path(r))'
      BY <2>1, <3>1, <3>3 DEF Installs, Row, Path
    <3>4. ~ \E c, w \in DOMAIN log : Installs(c, w, Path(r)) /\ r < c
      BY <2>1, <3>1, <3>3
    <3>5. sync[Path(r)] = "recorded"
      <4> SUFFICES ASSUME sync[Path(r)] # "recorded" PROVE FALSE
        OBVIOUS
      <4>1. Path(r) \in Files
        BY <3>2, ReadsNameFiles
      <4>2. row.name = "global_commit"
            /\ \E w \in PendingWrites(log, row.transaction_id) : Path(w) = Path(r)
        BY <1>2, <3>1, <4>1 DEF Appends
      <4>3. PICK w \in PendingWrites(log, row.transaction_id) : Path(w) = Path(r)
        BY <4>2
      <4>4. w \in 1..n /\ log[w].name = "write" /\ log[w].transaction_id = row.transaction_id
        BY <2>1, <4>3 DEF PendingWrites, Ids
      <4>5. PICK c : c = n + 1
        OBVIOUS
      <4>6. Installs(c, w, Path(r))'
        BY <2>1, <3>1, <4>2, <4>3, <4>4, <4>5 DEF Installs, Row, Path
      <4> QED BY <2>1, <2>3, <4>4, <4>5, <4>6
    <3>6. Row(r).data = Shown(disk[Path(r)])
      BY <2>1, <2>3, <3>2, <3>4, <3>5 DEF ReadStaysCurrent
    <3> QED BY <2>2, <3>1, <3>6 DEF Row, Shown
  <2>4. CASE r = n + 1
    <3>1. log'[r] = row /\ row.name = "read"
      BY <2>1, <2>4 DEF DiskRead, Row
    <3>2. r \notin misread'
      BY DEF DiskRead
    <3>3. OwnWrites(log, row.transaction_id, row.filename) = {}
      <4>1. \A w \in OwnWrites(log, row.transaction_id, row.filename) :
               w \in OwnWrites(log', row.transaction_id, row.filename) /\ w < r
        BY <2>1, <2>4 DEF OwnWrites, Ids
      <4> QED BY <3>1, <4>1 DEF DiskRead, Row
    <3>4. row.data = Shown(disk[PathOf[row.filename]])
      BY <1>2, <2>4, <3>1, <3>2, <3>3 DEF Appends, GoodRow
    <3> QED BY <2>2, <3>1, <3>4 DEF Row, Path, Shown
  <2> QED BY <2>1, <2>3, <2>4
<1> QED BY <1>1, <1>2, StepOfLog

(* What was read stays until a commit to the file is recorded.             *)
THEOREM ReadsStayCurrent == Spec => []ReadStaysCurrent
<1>1. Init => ReadStaysCurrent
  BY DEF Init, ReadStaysCurrent
<1>2. Base /\ ReadStaysCurrent /\ [Next]_vars => ReadStaysCurrent'
  BY ReadStaysCurrentStep
<1> QED BY <1>1, <1>2, BaseInvariant, PTL DEF Spec

-----------------------------------------------------------------------------
(* A non-empty set of ids has a least element.                             *)
LEMMA LeastId ==
    ASSUME NEW n \in Nat, NEW S, S \subseteq 1..n, S # {}
    PROVE  \E m \in S : \A i \in S : m <= i
<1>1. S \subseteq Nat
  OBVIOUS
<1>2. PICK m \in S : \A i \in S : ~(<<i, m>> \in OpToRel(<, Nat))
  BY <1>1, NatLessThanWellFounded, WFMin
<1>3. \A i \in S : m <= i
  <2> TAKE i \in S
  <2>1. i \in Nat /\ m \in Nat
    BY <1>1
  <2>2. ~(i < m)
    BY <1>2, <2>1 DEF OpToRel
  <2> QED BY <2>1, <2>2
<1> QED BY <1>3

(* What a recorded automatic vote says of the rows before it: nothing that *)
(* a finished transaction did to the first file written or read was found. *)
PassedChecks ==
    \A v, o, i, c \in DOMAIN log :
       LET t == Row(v).transaction_id IN
       /\ AutoMode /\ Row(v).name = "vote_commit"
       /\ o < v /\ i < v /\ c < v
       /\ Row(o).transaction_id # t /\ Began(t, o)
       /\ Row(c).name = "global_commit" /\ Row(c).transaction_id = Row(o).transaction_id
       /\ Row(i).filename = Row(o).filename
       => /\ IsFirst(log, t, "write", i) => Row(o).name \notin FileOperations
          /\ IsFirst(log, t, "read", i) => Row(o).name # "write"

LEMMA PassedChecksStep ==
    ASSUME Base, PassedChecks, [Next]_vars
    PROVE  PassedChecks'
<1>1. CASE Leaves
  BY <1>1 DEF Leaves, PassedChecks, Row, Began, IsFirst, Ids
<1>2. ASSUME NEW row, Appends(row)
      PROVE  PassedChecks'
  <2> PICK n : n = Len(log)
    OBVIOUS
  <2>1. /\ n \in Nat /\ DOMAIN log = 1..n /\ DOMAIN log' = 1..(n+1)
        /\ \A i \in 1..n : log'[i] = log[i]
        /\ log'[n+1] = row
    BY <1>2, AppendedLog
  <2> SUFFICES ASSUME NEW v \in 1..(n+1), NEW o \in 1..(n+1), NEW i \in 1..(n+1), NEW c \in 1..(n+1),
                      NEW t, t = log'[v].transaction_id,
                      AutoMode, log'[v].name = "vote_commit",
                      o < v, i < v, c < v,
                      log'[o].transaction_id # t, Began(t, o)',
                      log'[c].name = "global_commit",
                      log'[c].transaction_id = log'[o].transaction_id,
                      log'[i].filename = log'[o].filename
               PROVE  /\ IsFirst(log', t, "write", i) => log'[o].name \notin FileOperations
                      /\ IsFirst(log', t, "read", i) => log'[o].name # "write"
    BY <2>1 DEF PassedChecks, Row
  <2>2. /\ o \in 1..n /\ i \in 1..n /\ c \in 1..n
        /\ log'[o] = log[o] /\ log'[i] = log[i] /\ log'[c] = log[c]
    BY <2>1
  <2>3. Began(t, o)
    BY <2>1, <2>2 DEF Began, Row
  <2>4. \A name : IsFirst(log', t, name, i) => IsFirst(log, t, name, i)
    BY <2>1, <2>2 DEF IsFirst, Ids
  <2>5. CASE v \in 1..n
    <3>1. log'[v] = log[v]
      BY <2>1, <2>5
    <3> QED BY <2>1, <2>2, <2>3, <2>4, <2>5, <3>1 DEF PassedChecks, Row
  <2>6. CASE v = n + 1
    <3>1. log'[v] = row
      BY <2>1, <2>6
    <3>2. ~WriteIntercepted(log, t) /\ ~ReadIntercepted(log, t)
      BY <1>2, <3>1 DEF Appends, GoodRow, CanAutoCommitTransaction
    <3>3. AfterStartOf(log, t, o) /\ Committed(log, log[o].transaction_id)
      BY <2>1, <2>2, <2>3 DEF Began, AfterStartOf, Committed, Ids, Row
    <3>4. \A name : IsFirst(log, t, name, i) => Intercepts(log, t, name, o)
      BY <2>1, <2>2, <3>3 DEF Intercepts
    <3> QED
      BY <2>1, <2>2, <2>4, <3>2, <3>4 DEF WriteIntercepted, ReadIntercepted, FileOperations
  <2> QED BY <2>5, <2>6
<1> QED BY <1>1, <1>2, StepOfLog

LEMMA PassedChecksInvariant == Spec => []PassedChecks
<1>1. Init => PassedChecks
  BY DEF Init, PassedChecks
<1>2. Base /\ PassedChecks /\ [Next]_vars => PassedChecks'
  BY PassedChecksStep
<1> QED BY <1>1, <1>2, BaseInvariant, PTL DEF Spec

(* Validation is complete for a transaction that uses one file name: its   *)
(* first read and its first write are of that file, whichever conflicts.   *)
THEOREM OneFileIsValidated == Spec => []SingleFileValidation
<1>1. Base /\ PassedChecks => SingleFileValidation
  <2> SUFFICES ASSUME Base, PassedChecks,
                      NEW v \in DOMAIN log, NEW o \in DOMAIN log, NEW i \in DOMAIN log,
                      NEW t, t = Row(v).transaction_id,
                      AutoMode, Row(v).name = "vote_commit",
                      i < v, Row(i).transaction_id = t,
                      o < v, Row(o).transaction_id # t,
                      Began(t, o), Conflict(i, o), CommittedBefore(o, v),
                      UsesOnly(t, Row(o).filename, v)
               PROVE  FALSE
    BY DEF SingleFileValidation
  <2>1. Len(log) \in Nat /\ DOMAIN log = 1..Len(log)
    BY DEF Base, TypeOK
  <2>2. PICK c \in DOMAIN log : c < v /\ Row(c).name = "global_commit"
                                /\ Row(c).transaction_id = Row(o).transaction_id
    BY DEF CommittedBefore
  <2> DEFINE S == Ids(log, t, Row(i).name)
  <2>3. i \in S /\ S \subseteq 1..Len(log)
    BY <2>1 DEF Ids, Row
  <2>4. PICK m \in S : \A j \in S : m <= j
    BY <2>1, <2>3, LeastId
  <2>5. /\ m \in DOMAIN log /\ m < v /\ Row(m).transaction_id = t /\ Row(m).name = Row(i).name
        /\ IsFirst(log, t, Row(i).name, m)
    BY <2>1, <2>3, <2>4 DEF IsFirst, Ids, Row
  <2>6. Row(m).filename = Row(o).filename
    BY <2>5 DEF UsesOnly, Conflict
  <2>7. /\ IsFirst(log, t, "write", m) => Row(o).name \notin FileOperations
        /\ IsFirst(log, t, "read", m) => Row(o).name # "write"
    BY <2>2, <2>5, <2>6 DEF PassedChecks
  <2> QED BY <2>5, <2>7 DEF Conflict, FileOperations
<1> QED BY <1>1, BaseInvariant, PassedChecksInvariant, PTL

(* An automatic vote is given for a read that is current, except through   *)
(* the writes that the queries cannot see.                                 *)
THEOREM VotesAreForCurrentReads == Spec => []ValidatedReadsAreCurrent
<1>1. Base /\ PassedChecks /\ ReadStaysCurrent => ValidatedReadsAreCurrent
  <2> SUFFICES ASSUME Base, PassedChecks, ReadStaysCurrent,
                      NEW r \in DOMAIN log,
                      NEW v, v = Len(log),
                      NEW t, t = Row(r).transaction_id,
                      NEW f, f = Row(r).filename,
                      AutoMode, Row(v).name = "vote_commit", Row(v).transaction_id = t,
                      DiskRead(r), sync[Path(r)] = "recorded",
                      NEW i \in DOMAIN log, IsFirst(log, t, "read", i), Row(i).filename = f,
                      \A c, w \in DOMAIN log :
                         Installs(c, w, Path(r)) /\ r < c
                         => Row(c).transaction_id # t /\ ~Unseen(t, f, w)
               PROVE  Row(r).data = Shown(disk[Path(r)])
    BY DEF ValidatedReadsAreCurrent
  <2>1. v \in Nat /\ DOMAIN log = 1..v /\ v \in DOMAIN log
    BY DEF Base, TypeOK
  <2>2. ASSUME NEW c \in DOMAIN log, NEW w \in DOMAIN log, Installs(c, w, Path(r)), r < c
        PROVE  FALSE
    <3>1. /\ Row(c).transaction_id # t /\ Began(t, w) /\ Row(w).filename = f
          /\ Row(c).name = "global_commit" /\ Row(w).name = "write"
          /\ Row(w).transaction_id = Row(c).transaction_id /\ w < c
      BY <2>2 DEF Unseen, Installs
    <3>2. Row(i).name = "read"
      BY DEF IsFirst, Ids, Row
    <3>3. c < v /\ w < v /\ i < v
      BY <2>1, <3>1, <3>2
    <3> QED BY <2>1, <3>1, <3>3 DEF PassedChecks
  <2> QED BY <2>2 DEF ReadStaysCurrent
<1> QED BY <1>1, BaseInvariant, PassedChecksInvariant, ReadsStayCurrent, PTL

-----------------------------------------------------------------------------
(* An answer leaves only with its row at the end of the log: the handlers  *)
(* that answer with more than "unsupported" append the row in that step.   *)
LEMMA AnsweredMeansLoggedStep ==
    ASSUME Base, AnsweredMeansLogged, [Next]_vars
    PROVE  AnsweredMeansLogged'
<1>0. log \in Seq(Rows)
  BY DEF Base, TypeOK
<1>1. ASSUME NEW row \in Rows, log' = Append(log, row), reply' = AnswerTo(row)
      PROVE  AnsweredMeansLogged'
  BY <1>0, <1>1, AppendRow DEF AnsweredMeansLogged, Row, AnswerTo
<1>2. ASSUME pc' # "replying" \/ reply' = NoReply \/ reply'.name = "unsupported"
      PROVE  AnsweredMeansLogged'
  BY <1>2 DEF AnsweredMeansLogged
<1>3. \A row : row.name = "global_abort" => AnswerTo(row) = PlainRow("vote_abort", row.transaction_id)
  BY DEF AnswerTo
<1>4. ASSUME NEW t \in Transactions, NEW f \in Filenames, HandleRead(t, f)
      PROVE  AnsweredMeansLogged'
  <2>1. FileContent(t, f) \in Data
    BY FileContentIsData DEF Base
  <2> QED
    BY <1>1, <1>4, <2>1, NewRows
       DEF HandleRead, Answer, InsertOperation, AnswerTo, FileRow, FileOperations
<1>5. ASSUME NEW t \in Transactions, NEW f \in Filenames, HandleReadUnopened(t, f)
      PROVE  AnsweredMeansLogged'
  BY <1>1, <1>5, NewRows, EmptyIsData
     DEF HandleReadUnopened, Answer, InsertOperation, AnswerTo, FileRow, FileOperations
<1>6. ASSUME NEW t \in Transactions, NEW f \in Filenames, NEW d \in Data, HandleWrite(t, f, d)
      PROVE  AnsweredMeansLogged'
  BY <1>1, <1>6, NewRows
     DEF HandleWrite, Answer, InsertOperation, AnswerTo, PlainRow, FileRow, FileOperations
<1>7. ASSUME NEW t \in Transactions, HandlePrepare(t)
      PROVE  AnsweredMeansLogged'
  BY <1>1, <1>7, NewRows
     DEF HandlePrepare, Answer, InsertOperation, AnswerTo, Vote, PlainRow, FileRow, DecisionOperations
<1>8. ASSUME NEW yes \in BOOLEAN, OperatorAnswers(yes)
      PROVE  AnsweredMeansLogged'
  <2>1. txn \in Transactions
    BY <1>8 DEF OperatorAnswers, Base, TypeOK
  <2> QED
    BY <1>1, <1>8, <2>1, NewRows
       DEF OperatorAnswers, Answer, InsertOperation, AnswerTo, Vote, PlainRow, FileRow, DecisionOperations
<1>9. ASSUME NEW t \in Transactions, HandleGlobalAbort(t)
      PROVE  AnsweredMeansLogged'
  <2> DEFINE row == PlainRow("global_abort", t)
  <2>1. row \in Rows /\ row.name = "global_abort" /\ row.transaction_id = t
    BY NewRows DEF PlainRow, FileRow, DecisionOperations
  <2>2. log' = Append(log, row) /\ reply' = PlainRow("vote_abort", t)
    BY <1>9 DEF HandleGlobalAbort, Answer, InsertOperation
  <2> HIDE DEF row
  <2> QED BY <1>1, <1>3, <2>1, <2>2
<1>10. CASE RecordCommit
  <2>1. txn \in Transactions
    BY <1>10 DEF RecordCommit, Base, TypeOK
  <2> QED
    BY <1>1, <1>10, <2>1, NewRows
       DEF RecordCommit, Answer, InsertOperation, AnswerTo, PlainRow, FileRow, DecisionOperations
<1>11. ASSUME NEW t \in Transactions, HandleUnsupported(t)
       PROVE  AnsweredMeansLogged'
  BY <1>2, <1>11 DEF HandleUnsupported, Answer, PlainRow, FileRow
<1>12. CASE UNCHANGED vars
  BY <1>12 DEF vars, AnsweredMeansLogged, Row
<1> QED
  BY <1>2, <1>4, <1>5, <1>6, <1>7, <1>8, <1>9, <1>10, <1>11, <1>12
     DEF Next, CalculateResponse, Proceed, Start, AskOperator, RequestFails, Answer,
         HandleGlobalCommit, OpenFile, OpenFileFails, WriteFile, WriteFileFails,
         InsertFails, Reply, Crash

(* Nothing is promised to a client before it is durable.                   *)
THEOREM AnswersAreDurable == Spec => []AnsweredMeansLogged
<1>1. Init => AnsweredMeansLogged
  BY DEF Init, AnsweredMeansLogged
<1>2. Base /\ AnsweredMeansLogged /\ [Next]_vars => AnsweredMeansLogged'
  BY AnsweredMeansLoggedStep
<1> QED BY <1>1, <1>2, BaseInvariant, PTL DEF Spec
=============================================================================
