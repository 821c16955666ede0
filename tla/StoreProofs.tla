----------------------------- MODULE StoreProofs -----------------------------
(***************************************************************************)
(* FileServer implements TransactionalStore, for every value of the        *)
(* constants.                                                              *)
(***************************************************************************)
EXTENDS StoreRefinement, FileServerProofs

-----------------------------------------------------------------------------
(* The writes of one transaction under some names, and what a new row does *)
(* to them.                                                                *)
WritesUnder(l, t, N) == {i \in Ids(l, t, "write") : l[i].filename \in N}

LastWrite(l, t, N) ==
    IF WritesUnder(l, t, N) # {} THEN l[Max(WritesUnder(l, t, N))].data ELSE Unwritten

LEMMA OwnAreUnder ==
    ASSUME NEW l, NEW t, NEW f
    PROVE  OwnWrites(l, t, f) = WritesUnder(l, t, {f})
BY DEF OwnWrites, WritesUnder

NamesOf(p) == {f \in Filenames : PathOf[f] = p}

LEMMA ToAreUnder ==
    ASSUME NEW l \in Seq(Rows), NEW t, NEW p
    PROVE  WritesTo(l, t, p) = WritesUnder(l, t, NamesOf(p))
<1>1. \A i \in Ids(l, t, "write") : l[i].filename \in Filenames
  BY RowTypes DEF Ids, FileOperations
<1> QED BY <1>1 DEF WritesTo, WritesUnder, NamesOf, PendingWrites

LEMMA LastUnder ==
    ASSUME NEW l \in Seq(Rows), NEW t, NEW N, WritesUnder(l, t, N) # {}
    PROVE  /\ Max(WritesUnder(l, t, N)) \in WritesUnder(l, t, N)
           /\ \A i \in WritesUnder(l, t, N) : i <= Max(WritesUnder(l, t, N))
           /\ l[Max(WritesUnder(l, t, N))].data \in Data
<1>1. WritesUnder(l, t, N) \subseteq 1..Len(l) /\ Len(l) \in Nat
  BY DEF WritesUnder, Ids
<1>2. Max(WritesUnder(l, t, N)) \in WritesUnder(l, t, N)
      /\ \A i \in WritesUnder(l, t, N) : i <= Max(WritesUnder(l, t, N))
  BY <1>1, MaxOfIds
<1>3. Max(WritesUnder(l, t, N)) \in DOMAIN l
  BY <1>2 DEF WritesUnder, Ids
<1> QED BY <1>2, <1>3, RowTypes

\* A row that is not such a write changes nothing.
LEMMA SameUnder ==
    ASSUME NEW l \in Seq(Rows), NEW row \in Rows, NEW t, NEW N,
           ~(row.name = "write" /\ row.transaction_id = t /\ row.filename \in N)
    PROVE  /\ WritesUnder(Append(l, row), t, N) = WritesUnder(l, t, N)
           /\ WritesUnder(l, t, N) # {}
                => Append(l, row)[Max(WritesUnder(l, t, N))] = l[Max(WritesUnder(l, t, N))]
<1>1. WritesUnder(Append(l, row), t, N) = WritesUnder(l, t, N)
  BY AppendRow DEF WritesUnder, Ids
<1>2. ASSUME WritesUnder(l, t, N) # {} PROVE Max(WritesUnder(l, t, N)) \in DOMAIN l
  <2>1. Max(WritesUnder(l, t, N)) \in WritesUnder(l, t, N)
    BY <1>2, LastUnder
  <2>2. WritesUnder(l, t, N) \subseteq DOMAIN l
    BY DEF WritesUnder, Ids
  <2> QED BY <2>1, <2>2
<1> QED BY <1>1, <1>2, AppendRow

\* A row that is one is the last.
LEMMA NewUnder ==
    ASSUME NEW l \in Seq(Rows), NEW row \in Rows, NEW t, NEW N,
           row.name = "write" /\ row.transaction_id = t /\ row.filename \in N
    PROVE  LastWrite(Append(l, row), t, N) = row.data
<1> DEFINE n == Len(l) + 1
           W == WritesUnder(Append(l, row), t, N)
<1>1. n \in Nat /\ DOMAIN Append(l, row) = 1..n /\ Append(l, row)[n] = row
  BY AppendRow
<1>2. n \in W /\ W \subseteq 1..n
  BY <1>1 DEF WritesUnder, Ids
<1>3. Append(l, row) \in Seq(Rows)
  BY AppendRow
<1>4. Max(W) \in W /\ \A i \in W : i <= Max(W)
  BY <1>2, <1>3, LastUnder
<1>5. Max(W) = n
  <2> HIDE DEF W, n
  <2>1. Max(W) \in 1..n
    BY <1>2, <1>4
  <2>2. n <= Max(W)
    BY <1>2, <1>4
  <2> QED BY <1>1, <2>1, <2>2
<1>6. Append(l, row)[Max(W)] = row /\ W # {}
  BY <1>1, <1>2, <1>5
<1>7. PICK m : m = Append(l, row)
  OBVIOUS
<1>8. LastWrite(m, t, N) = m[Max(W)].data
  BY <1>6, <1>7 DEF LastWrite
<1> QED BY <1>6, <1>7, <1>8

-----------------------------------------------------------------------------
(* What is committed: the replay of a file is unique, and only a row that   *)
(* records a commit with a write to the file changes it.                    *)
LEMMA LastIsOne ==
    ASSUME NEW c1 \in Nat, NEW w1 \in Nat, NEW c2 \in Nat, NEW w2 \in Nat,
           c1 < c2 \/ (c1 = c2 /\ w1 <= w2), c2 < c1 \/ (c2 = c1 /\ w2 <= w1)
    PROVE  c1 = c2 /\ w1 = w2
OBVIOUS

LEMMA CommittedIs ==
    ASSUME TypeOK, NEW f \in Files, NEW content \in Data \cup {NoFile}, Replays(f, content)
    PROVE  CommittedFiles[f] = content
<1>1. DOMAIN log \subseteq Nat
  BY DEF TypeOK
<1>2. ASSUME NEW other, Replays(f, other) PROVE other = content
  <2>1. CASE ~ \E c, w \in DOMAIN log : Installs(c, w, f)
    BY <2>1, <1>2 DEF Replays, LastInstall
  <2>2. CASE \E c, w \in DOMAIN log : Installs(c, w, f)
    <3>1. PICK c1, w1 \in DOMAIN log : LastInstall(c1, w1, f) /\ content = Row(w1).data
      BY <2>2 DEF Replays
    <3>2. PICK c2, w2 \in DOMAIN log : LastInstall(c2, w2, f) /\ other = Row(w2).data
      BY <2>2, <1>2 DEF Replays
    <3>3. w1 = w2
      BY <1>1, <3>1, <3>2, LastIsOne DEF LastInstall
    <3> QED BY <3>1, <3>2, <3>3
  <2> QED BY <2>1, <2>2
<1>3. Replayed(f) = {content}
  BY <1>2 DEF Replayed
<1>4. Only({content}) = content
  BY DEF Only
<1> QED BY <1>3, <1>4 DEF CommittedFiles

LEMMA CommittedWillBe ==
    ASSUME TypeOK', NEW f \in Files, NEW content \in Data \cup {NoFile}, Replays(f, content)'
    PROVE  CommittedFiles'[f] = content
<1>1. DOMAIN log' \subseteq Nat
  BY DEF TypeOK
<1>2. ASSUME NEW other, Replays(f, other)' PROVE other = content
  <2>1. CASE ~ \E c, w \in DOMAIN log' : Installs(c, w, f)'
    BY <2>1, <1>2 DEF Replays, LastInstall
  <2>2. CASE \E c, w \in DOMAIN log' : Installs(c, w, f)'
    <3>1. PICK c1, w1 \in DOMAIN log' : LastInstall(c1, w1, f)' /\ content = log'[w1].data
      BY <2>2 DEF Replays, Row
    <3>2. PICK c2, w2 \in DOMAIN log' : LastInstall(c2, w2, f)' /\ other = log'[w2].data
      BY <2>2, <1>2 DEF Replays, Row
    <3>3. w1 = w2
      BY <1>1, <3>1, <3>2, LastIsOne DEF LastInstall
    <3> QED BY <3>1, <3>2, <3>3
  <2> QED BY <2>1, <2>2
<1>3. Replayed(f)' = {content}
  BY <1>2 DEF Replayed
<1>4. Only({content}) = content
  BY DEF Only
<1> QED BY <1>3, <1>4 DEF CommittedFiles

LEMMA SameCommitted ==
    ASSUME TypeOK, NEW row \in Rows, log' = Append(log, row), NEW f \in Files,
           row.name = "global_commit"
             => \A w \in PendingWrites(log, row.transaction_id) : Path(w) # f
    PROVE  CommittedFiles'[f] = CommittedFiles[f]
<1>1. log \in Seq(Rows)
  BY DEF TypeOK
<1>2. /\ DOMAIN log \subseteq DOMAIN log'
      /\ \A i \in DOMAIN log : log'[i] = log[i]
  BY <1>1, AppendRow
<1>3. \A c, w : Installs(c, w, f)' <=> Installs(c, w, f)
  BY SameInstalls
<1>4. \A c, w : Installs(c, w, f) => c \in DOMAIN log /\ w \in DOMAIN log
  BY DEF Installs
<1>5. \A c, w : LastInstall(c, w, f)' <=> LastInstall(c, w, f)
  BY <1>2, <1>3, <1>4 DEF LastInstall
<1>6. \A content : Replays(f, content)' <=> Replays(f, content)
  BY <1>2, <1>3, <1>4, <1>5 DEF Replays, Row, LastInstall
<1>7. Replayed(f)' = Replayed(f)
  BY <1>6 DEF Replayed
<1> QED BY <1>7 DEF CommittedFiles

-----------------------------------------------------------------------------
(* The workspaces: only a write changes one, in one place.                  *)
LEMMA Workspaces ==
    ASSUME log \in Seq(Rows)
    PROVE  /\ OwnNames = [t \in Transactions |-> [f \in Filenames |-> LastWrite(log, t, {f})]]
           /\ IntendedFiles = [t \in Transactions |-> [p \in Files |-> LastWrite(log, t, NamesOf(p))]]
<1>1. \A t, f : (IF FileWasWrittenInThisTransaction(log, t, f)
                 THEN LastFileContentFromThisTransaction(log, t, f) ELSE Unwritten) = LastWrite(log, t, {f})
  BY OwnAreUnder DEF FileWasWrittenInThisTransaction, LastFileContentFromThisTransaction, LastWrite
<1>2. \A t, p : (IF WritesTo(log, t, p) # {} THEN log[Max(WritesTo(log, t, p))].data ELSE Unwritten)
                = LastWrite(log, t, NamesOf(p))
  BY ToAreUnder DEF LastWrite
<1>3. OwnNames = [t \in Transactions |-> [f \in Filenames |-> LastWrite(log, t, {f})]]
  BY <1>1 DEF OwnNames
<1>4. IntendedFiles = [t \in Transactions |-> [p \in Files |-> LastWrite(log, t, NamesOf(p))]]
  BY <1>2 DEF IntendedFiles
<1> QED BY <1>3, <1>4

LEMMA WorkspacesNext ==
    ASSUME log' \in Seq(Rows)
    PROVE  /\ OwnNames' = [t \in Transactions |-> [f \in Filenames |-> LastWrite(log', t, {f})]]
           /\ IntendedFiles' = [t \in Transactions |-> [p \in Files |-> LastWrite(log', t, NamesOf(p))]]
<1>1. \A t, f : (IF FileWasWrittenInThisTransaction(log', t, f)
                 THEN LastFileContentFromThisTransaction(log', t, f) ELSE Unwritten) = LastWrite(log', t, {f})
  BY OwnAreUnder DEF FileWasWrittenInThisTransaction, LastFileContentFromThisTransaction, LastWrite
<1>2. \A t, p : (IF WritesTo(log', t, p) # {} THEN log'[Max(WritesTo(log', t, p))].data ELSE Unwritten)
                = LastWrite(log', t, NamesOf(p))
  BY ToAreUnder DEF LastWrite
<1>3. OwnNames' = [t \in Transactions |-> [f \in Filenames |-> LastWrite(log', t, {f})]]
  BY <1>1 DEF OwnNames
<1>4. IntendedFiles' = [t \in Transactions |-> [p \in Files |-> LastWrite(log', t, NamesOf(p))]]
  BY <1>2 DEF IntendedFiles
<1> QED BY <1>3, <1>4

LEMMA LastWriteAfter ==
    ASSUME NEW l \in Seq(Rows), NEW row \in Rows, NEW t, NEW N
    PROVE  LastWrite(Append(l, row), t, N) =
              IF row.name = "write" /\ row.transaction_id = t /\ row.filename \in N
              THEN row.data ELSE LastWrite(l, t, N)
<1>1. CASE row.name = "write" /\ row.transaction_id = t /\ row.filename \in N
  BY <1>1, NewUnder
<1>2. CASE ~(row.name = "write" /\ row.transaction_id = t /\ row.filename \in N)
  <2>1. /\ WritesUnder(Append(l, row), t, N) = WritesUnder(l, t, N)
        /\ WritesUnder(l, t, N) # {}
             => Append(l, row)[Max(WritesUnder(l, t, N))] = l[Max(WritesUnder(l, t, N))]
    BY <1>2, SameUnder
  <2>2. PICK m : m = Append(l, row)
    OBVIOUS
  <2>3. /\ WritesUnder(m, t, N) = WritesUnder(l, t, N)
        /\ WritesUnder(l, t, N) # {} => m[Max(WritesUnder(l, t, N))] = l[Max(WritesUnder(l, t, N))]
    BY <2>1, <2>2
  <2>4. LastWrite(m, t, N) = LastWrite(l, t, N)
    BY <2>3 DEF LastWrite
  <2> QED BY <1>2, <2>2, <2>4
<1> QED BY <1>1, <1>2

LEMMA SameWorkspaces ==
    ASSUME TypeOK, NEW row \in Rows, log' = Append(log, row), row.name # "write"
    PROVE  OwnNames' = OwnNames /\ IntendedFiles' = IntendedFiles
<1>1. log \in Seq(Rows) /\ log' \in Seq(Rows)
  BY AppendRow DEF TypeOK
<1>2. \A t, N : LastWrite(log', t, N) = LastWrite(log, t, N)
  BY <1>1, LastWriteAfter
<1>3. /\ OwnNames = [t \in Transactions |-> [f \in Filenames |-> LastWrite(log, t, {f})]]
      /\ OwnNames' = [t \in Transactions |-> [f \in Filenames |-> LastWrite(log', t, {f})]]
      /\ IntendedFiles = [t \in Transactions |-> [p \in Files |-> LastWrite(log, t, NamesOf(p))]]
      /\ IntendedFiles' = [t \in Transactions |-> [p \in Files |-> LastWrite(log', t, NamesOf(p))]]
  BY <1>1, Workspaces, WorkspacesNext
<1>4. OwnNames' = OwnNames
  BY <1>2, <1>3
<1>5. IntendedFiles' = IntendedFiles
  BY <1>2, <1>3
<1> QED BY <1>4, <1>5

LEMMA SameLog ==
    ASSUME UNCHANGED log
    PROVE  CommittedFiles' = CommittedFiles /\ OwnNames' = OwnNames /\ IntendedFiles' = IntendedFiles
<1>1. \A f : Replayed(f)' = Replayed(f)
  BY DEF Replayed, Replays, LastInstall, Installs, Row, Path
<1>2. CommittedFiles' = CommittedFiles
  BY <1>1 DEF CommittedFiles
<1>3. OwnNames' = OwnNames
  BY DEF OwnNames
<1>4. IntendedFiles' = IntendedFiles
  BY DEF IntendedFiles
<1> QED BY <1>2, <1>3, <1>4

LEMMA WriteWorkspaces ==
    ASSUME TypeOK, NEW t \in Transactions, NEW f \in Filenames, NEW d \in Data,
           log' = Append(log, FileRow("write", t, f, d))
    PROVE  /\ OwnNames' = [OwnNames EXCEPT ![t] = [@ EXCEPT ![f] = d]]
           /\ IntendedFiles' = [IntendedFiles EXCEPT ![t] = [@ EXCEPT ![PathOf[f]] = d]]
<1> PICK row : row = FileRow("write", t, f, d)
  OBVIOUS
<1>1. /\ row \in Rows /\ row.name = "write" /\ row.transaction_id = t
      /\ row.filename = f /\ row.data = d
  BY NewRows DEF FileRow, FileOperations
<1>2. log \in Seq(Rows) /\ log' \in Seq(Rows) /\ log' = Append(log, row)
  BY <1>1, AppendRow DEF TypeOK
<1>3. \A u, N : LastWrite(log', u, N) = IF u = t /\ f \in N THEN d ELSE LastWrite(log, u, N)
  BY <1>1, <1>2, LastWriteAfter
<1>4. /\ OwnNames = [u \in Transactions |-> [g \in Filenames |-> LastWrite(log, u, {g})]]
      /\ OwnNames' = [u \in Transactions |-> [g \in Filenames |-> LastWrite(log', u, {g})]]
      /\ IntendedFiles = [u \in Transactions |-> [p \in Files |-> LastWrite(log, u, NamesOf(p))]]
      /\ IntendedFiles' = [u \in Transactions |-> [p \in Files |-> LastWrite(log', u, NamesOf(p))]]
  BY <1>2, Workspaces, WorkspacesNext
<1>5. OwnNames' = [OwnNames EXCEPT ![t] = [@ EXCEPT ![f] = d]]
  <2>1. [OwnNames[t] EXCEPT ![f] = d] = [g \in Filenames |-> LastWrite(log', t, {g})]
    BY <1>3, <1>4
  <2>2. \A u \in Transactions : u # t => OwnNames[u] = [g \in Filenames |-> LastWrite(log', u, {g})]
    BY <1>3, <1>4
  <2>3. OwnNames' = [u \in Transactions |-> IF u = t THEN [OwnNames[t] EXCEPT ![f] = d] ELSE OwnNames[u]]
    <3>1. \A u \in Transactions : (IF u = t THEN [OwnNames[t] EXCEPT ![f] = d] ELSE OwnNames[u])
                                   = [g \in Filenames |-> LastWrite(log', u, {g})]
      BY <2>1, <2>2
    <3> QED BY <1>4, <3>1, Zenon
  <2> QED BY <1>4, <2>3
<1>6. \A p \in Files : f \in NamesOf(p) <=> p = PathOf[f]
  BY DEF NamesOf
<1>7. IntendedFiles' = [IntendedFiles EXCEPT ![t] = [@ EXCEPT ![PathOf[f]] = d]]
  <2>1. [IntendedFiles[t] EXCEPT ![PathOf[f]] = d] = [p \in Files |-> LastWrite(log', t, NamesOf(p))]
    BY <1>3, <1>4, <1>6
  <2>2. \A u \in Transactions : u # t => IntendedFiles[u] = [p \in Files |-> LastWrite(log', u, NamesOf(p))]
    BY <1>3, <1>4
  <2>3. IntendedFiles' = [u \in Transactions |->
                            IF u = t THEN [IntendedFiles[t] EXCEPT ![PathOf[f]] = d] ELSE IntendedFiles[u]]
    BY <1>4, <2>1, <2>2
  <2> QED BY <1>4, <2>3
<1> QED BY <1>5, <1>7

-----------------------------------------------------------------------------
(* As long as nothing has failed, only the files of the commit in progress *)
(* are out of step with the log, and at most the one being written is open.*)
NothingFailedYet ==
    faults = 0 =>
       /\ pc \notin {"installing", "writing"} => \A f \in Files : sync[f] = "recorded"
       /\ \A f \in Files :
             /\ sync[f] # "failed"
             /\ sync[f] # "recorded" => f \in PathsWritten(txn)
             /\ sync[f] = "open" =>
                  pc = "writing" /\ \E i \in pending : NextWrite(i) /\ Path(i) = f

SInv == IInv /\ NothingFailedYet

LEMMA SInvInit == Init => SInv
BY IInvInit DEF Init, SInv, NothingFailedYet

LEMMA SInvStep == SInv /\ [Next]_vars => SInv'
<1> SUFFICES ASSUME SInv, [Next]_vars, faults' = 0 PROVE NothingFailedYet'
  BY IInvStep DEF SInv, NothingFailedYet
<1>0. TypeOK /\ NothingFailedYet /\ faults \in Nat
  BY ConstantsOK DEF SInv, IInv, TypeOK
<1>1. faults = 0 /\ ~Fault
  <2>1. CASE UNCHANGED faults
    BY <1>0, <2>1 DEF Fault
  <2>2. CASE faults' = faults + 1
    BY <1>0, <2>2
  <2>3. UNCHANGED faults \/ faults' = faults + 1
    BY DEF Next, CalculateResponse, Proceed, Start, HandleRead, HandleReadUnopened, HandleWrite,
       HandlePrepare, AskOperator, HandleGlobalCommit, HandleGlobalAbort, HandleUnsupported,
       RequestFails, OperatorAnswers, OpenFile, OpenFileFails, WriteFile, WriteFileFails,
       RecordCommit, Reply, InsertFails, Crash, Fault, vars
  <2> QED BY <2>1, <2>2, <2>3
<1>a. /\ \A f \in Files : sync[f] # "failed" /\ (sync[f] # "recorded" => f \in PathsWritten(txn))
      /\ pc # "writing" => \A f \in Files : sync[f] # "open"
      /\ sync \in [Files -> SyncStates]
  BY <1>0, <1>1 DEF NothingFailedYet, TypeOK
<1>2. ASSUME pc \notin {"installing", "writing"}, UNCHANGED sync PROVE NothingFailedYet'
  BY <1>0, <1>1, <1>2 DEF NothingFailedYet
<1>3. CASE OpenFile
  <2>1. PICK i \in pending : /\ NextWrite(i)
                             /\ sync' = [sync EXCEPT ![Path(i)] = "open"]
    BY <1>3 DEF OpenFile
  <2>2. UNCHANGED <<log, txn, pending>> /\ pc = "installing" /\ pc' = "writing"
    BY <1>3 DEF OpenFile
  <2>3. Path(i) \in PathsWritten(txn)
    BY <1>0 DEF TypeOK, PathsWritten
  <2>4. PathsWritten(txn)' = PathsWritten(txn) /\ Path(i)' = Path(i) /\ NextWrite(i)'
    BY <2>1, <2>2 DEF PathsWritten, PendingWrites, Ids, Path, NextWrite
  <2> SUFFICES ASSUME NEW f \in Files
               PROVE  /\ sync'[f] # "failed"
                      /\ sync'[f] # "recorded" => f \in PathsWritten(txn)
                      /\ sync'[f] = "open" => f = Path(i)
    BY <2>2, <2>4 DEF NothingFailedYet
  <2>5. CASE f = Path(i)
    BY <1>a, <2>1, <2>3, <2>5
  <2>6. CASE f # Path(i)
    BY <1>a, <2>1, <2>2, <2>6
  <2> QED BY <2>5, <2>6
<1>4. CASE WriteFile
  <2>1. PICK i \in pending : /\ NextWrite(i)
                             /\ sync' = [sync EXCEPT ![Path(i)] = "installed"]
    BY <1>4 DEF WriteFile
  <2>2. UNCHANGED <<log, txn>> /\ pc = "writing" /\ pc' = "installing"
    BY <1>4 DEF WriteFile
  <2>3. Path(i) \in PathsWritten(txn)
    BY <1>0 DEF TypeOK, PathsWritten
  <2>4. PathsWritten(txn)' = PathsWritten(txn)
    BY <2>2 DEF PathsWritten, PendingWrites, Ids, Path
  <2>5. pending \subseteq Nat
    BY <1>0 DEF TypeOK, PendingWrites, Ids
  <2> SUFFICES ASSUME NEW f \in Files
               PROVE  /\ sync'[f] # "failed"
                      /\ sync'[f] # "recorded" => f \in PathsWritten(txn)
                      /\ sync'[f] # "open"
    BY <2>2, <2>4 DEF NothingFailedYet
  <2>6. CASE f = Path(i)
    BY <1>a, <2>1, <2>3, <2>6
  <2>7. CASE f # Path(i)
    <3>1. sync'[f] = sync[f]
      BY <1>a, <2>1, <2>7
    <3>2. ASSUME sync[f] = "open" PROVE FALSE
      <4>1. PICK j \in pending : NextWrite(j) /\ Path(j) = f
        BY <1>0, <1>1, <3>2 DEF NothingFailedYet
      <4>2. i <= j /\ j <= i
        BY <2>1, <4>1 DEF NextWrite
      <4>3. i = j
        BY <2>5, <4>2
      <4> QED BY <2>7, <4>1, <4>3
    <3> QED BY <1>a, <3>1, <3>2
  <2> QED BY <2>6, <2>7
<1>5. CASE RecordCommit
  <2>1. pc = "installing" /\ pc' = "replying"
        /\ sync' = [f \in Files |-> IF f \in PathsWritten(txn) /\ sync[f] = "installed"
                                    THEN "recorded" ELSE sync[f]]
    BY <1>5 DEF RecordCommit, Answer
  <2>2. \A f \in Files : sync[f] = "recorded" \/ (sync[f] = "installed" /\ f \in PathsWritten(txn))
    BY <1>a, <2>1 DEF SyncStates
  <2>3. \A f \in Files : sync'[f] = "recorded"
    BY <2>1, <2>2
  <2> QED BY <2>1, <2>3 DEF NothingFailedYet
<1>6. CASE UNCHANGED vars
  BY <1>0, <1>6 DEF vars, NothingFailedYet, PathsWritten, PendingWrites, Ids, Path, NextWrite
<1>7. CASE \/ Start \/ RequestFails \/ Reply
           \/ \E yes \in BOOLEAN : OperatorAnswers(yes)
  BY <1>2, <1>7 DEF Start, RequestFails, Reply, OperatorAnswers
<1>8. CASE CalculateResponse
  <2>1. \A f \in Files : sync'[f] = "recorded"
    <3>1. pc = "ready" /\ UNCHANGED sync
      BY <1>8 DEF CalculateResponse, HandleRead, HandleReadUnopened, HandleWrite,
           HandlePrepare, AskOperator, HandleGlobalCommit, HandleGlobalAbort, HandleUnsupported
    <3> QED BY <1>0, <1>1, <3>1 DEF NothingFailedYet
  <2> QED BY <2>1 DEF NothingFailedYet
<1>9. ~(OpenFileFails \/ WriteFileFails \/ InsertFails \/ Crash)
  BY <1>1 DEF OpenFileFails, WriteFileFails, InsertFails, Crash
<1> QED BY <1>3, <1>4, <1>5, <1>6, <1>7, <1>8, <1>9 DEF Next, Proceed

-----------------------------------------------------------------------------
(* The mapped state starts as the store does.                               *)
LEMMA StoreInit == Init => Store!Init
<1> SUFFICES ASSUME Init PROVE Store!Init
  OBVIOUS
<1>1. TypeOK /\ log = << >> /\ disk = InitialDisk /\ DOMAIN log = {}
  BY TypeInit DEF Init
<1>2. CommittedFiles = InitialDisk
  <2>1. \A f \in Files : Replays(f, InitialDisk[f]) /\ InitialDisk[f] \in Data \cup {NoFile}
    BY <1>1, ConstantsOK DEF Replays
  <2>2. \A f \in Files : CommittedFiles[f] = InitialDisk[f]
    BY <1>1, <2>1, CommittedIs
  <2> QED BY <2>2, ConstantsOK DEF CommittedFiles
<1>3. \A t, N : LastWrite(log, t, N) = Unwritten
  BY <1>1 DEF LastWrite, WritesUnder, Ids
<1>4. /\ OwnNames = [t \in Transactions |-> [f \in Filenames |-> Unwritten]]
      /\ IntendedFiles = [t \in Transactions |-> [f \in Files |-> Unwritten]]
  <2>1. /\ OwnNames = [t \in Transactions |-> [f \in Filenames |-> LastWrite(log, t, {f})]]
        /\ IntendedFiles = [t \in Transactions |-> [p \in Files |-> LastWrite(log, t, NamesOf(p))]]
    BY <1>1, Workspaces DEF TypeOK
  <2>2. OwnNames = [t \in Transactions |-> [f \in Filenames |-> Unwritten]]
    BY <1>3, <2>1
  <2>3. IntendedFiles = [t \in Transactions |-> [f \in Files |-> Unwritten]]
    BY <1>3, <2>1
  <2> QED BY <2>2, <2>3
<1>5. TornFiles = {} /\ reply = NoReply /\ (faults # 0) = FALSE
  BY DEF Init, TornFiles
<1> QED BY <1>2, <1>4, <1>5 DEF Store!Init

\* Nothing that later requests can see changes.
SameStore == UNCHANGED <<CommittedFiles, OwnNames, IntendedFiles>>

LEMMA SameStoreAfterRow ==
    ASSUME TypeOK, NEW row \in Rows, log' = Append(log, row), row.name \notin {"write", "global_commit"}
    PROVE  SameStore
<1>1. \A f \in Files : CommittedFiles'[f] = CommittedFiles[f]
  BY SameCommitted
<1>2. CommittedFiles' = CommittedFiles
  BY <1>1 DEF CommittedFiles
<1> QED BY <1>2, SameWorkspaces DEF SameStore

(* A transaction has written a file exactly if the store says so.          *)
LEMMA TouchedAreWritten ==
    ASSUME TypeOK, NEW t \in Transactions
    PROVE  Store!Touched(t) = PathsWritten(t)
<1>1. log \in Seq(Rows)
  BY DEF TypeOK
<1>2. ASSUME NEW p \in Files
      PROVE  IntendedFiles[t][p] # Unwritten <=> WritesUnder(log, t, NamesOf(p)) # {}
  <2>1. IntendedFiles[t][p] = LastWrite(log, t, NamesOf(p))
    BY <1>1, Workspaces
  <2> QED BY <1>1, <2>1, LastUnder, UnwrittenIsNoData DEF LastWrite
<1>3. \A i \in Ids(log, t, "write") : log[i].filename \in Filenames
  BY <1>1, RowTypes DEF Ids, FileOperations
<1>4. \A p \in Files : p \in PathsWritten(t) <=> WritesUnder(log, t, NamesOf(p)) # {}
  BY <1>3 DEF PathsWritten, PendingWrites, Path, WritesUnder, NamesOf
<1>5. PathsWritten(t) \subseteq Files
  BY <1>3, ConstantsOK DEF PathsWritten, PendingWrites, Path
<1> QED BY <1>2, <1>4, <1>5 DEF Store!Touched

-----------------------------------------------------------------------------
(* What a read returns is what the store allows.                            *)
LEMMA ReadableContent ==
    ASSUME SInv, pc = "ready", NEW t \in Transactions, NEW f \in Filenames
    PROVE  LET own == OwnNames[t][f] IN
           /\ own # Unwritten <=> FileWasWrittenInThisTransaction(log, t, f)
           /\ own # Unwritten => FileContent(t, f) = own
           /\ own = Unwritten /\ PathOf[f] \notin TornFiles
                => /\ FileContent(t, f) = Store!Shown(CommittedFiles[PathOf[f]])
                   /\ Store!Shown(CommittedFiles[PathOf[f]]) = Shown(disk[PathOf[f]])
           /\ PathOf[f] \in TornFiles => faults # 0
<1>1. log \in Seq(Rows) /\ TypeOK /\ DiskIsReplay /\ NothingFailedYet
  BY DEF SInv, IInv, TypeOK
<1>2. OwnNames[t][f] = LastWrite(log, t, {f})
  BY <1>1, Workspaces
<1>3. OwnNames[t][f] # Unwritten <=> FileWasWrittenInThisTransaction(log, t, f)
  BY <1>1, <1>2, LastUnder, OwnAreUnder, UnwrittenIsNoData DEF LastWrite, FileWasWrittenInThisTransaction
<1>4. OwnNames[t][f] # Unwritten => FileContent(t, f) = OwnNames[t][f]
  BY <1>2, <1>3, OwnAreUnder
     DEF LastWrite, FileContent, FileWasWrittenInThisTransaction, LastFileContentFromThisTransaction
<1>5. PathOf[f] \in Files
  BY ConstantsOK
<1>6. ASSUME OwnNames[t][f] = Unwritten, PathOf[f] \notin TornFiles
      PROVE  /\ FileContent(t, f) = Store!Shown(CommittedFiles[PathOf[f]])
             /\ Store!Shown(CommittedFiles[PathOf[f]]) = Shown(disk[PathOf[f]])
  <2>1. sync[PathOf[f]] = "recorded"
    BY <1>5, <1>6 DEF TornFiles
  <2>2. Replays(PathOf[f], disk[PathOf[f]]) /\ disk[PathOf[f]] \in Data \cup {NoFile}
    BY <1>1, <1>5, <2>1 DEF DiskIsReplay, TypeOK
  <2>3. CommittedFiles[PathOf[f]] = disk[PathOf[f]]
    BY <1>1, <1>5, <2>2, CommittedIs
  <2> QED BY <1>3, <1>6, <2>3 DEF FileContent, Store!Shown, Shown
<1>7. PathOf[f] \in TornFiles => faults # 0
  BY <1>1 DEF NothingFailedYet, TornFiles
<1> QED BY <1>3, <1>4, <1>6, <1>7

(* Recording a commit makes the workspace of its transaction committed.    *)
LEMMA RecordedReplays ==
    ASSUME TypeOK, NEW t \in Transactions, NEW row \in Rows, log' = Append(log, row),
           row.name = "global_commit", row.transaction_id = t,
           NEW f \in Files, WritesUnder(log, t, NamesOf(f)) # {},
           NEW content, content = LastWrite(log, t, NamesOf(f))
    PROVE  Replays(f, content)'
<1>1. log \in Seq(Rows)
  BY DEF TypeOK
<1> PICK n \in Nat : n = Len(log)
  BY <1>1
<1> PICK c : c = n + 1
  OBVIOUS
<1>2. /\ DOMAIN log = 1..n /\ DOMAIN log' = 1..c
      /\ \A i \in 1..n : log'[i] = log[i]
      /\ log'[c] = row
  BY <1>1, AppendRow
<1> PICK w : w = Max(WritesUnder(log, t, NamesOf(f)))
  OBVIOUS
<1>3. w \in WritesUnder(log, t, NamesOf(f)) /\ \A i \in WritesUnder(log, t, NamesOf(f)) : i <= w
  BY <1>1, LastUnder
<1>4. /\ w \in 1..n /\ PathOf[log[w].filename] = f
      /\ log[w].name = "write" /\ log[w].transaction_id = t
  BY <1>2, <1>3 DEF WritesUnder, Ids, NamesOf
<1>5. content = log[w].data
  BY DEF LastWrite
<1>6. Installs(c, w, f)'
  BY <1>2, <1>4 DEF Installs, Row, Path
<1>7. ASSUME NEW c1 \in DOMAIN log', NEW w1 \in DOMAIN log', Installs(c1, w1, f)'
      PROVE  c1 < c \/ (c1 = c /\ w1 <= w)
  <2>1. CASE c1 \in 1..n
    BY <2>1
  <2>2. CASE c1 = c
    <3>1. /\ w1 \in 1..n
          /\ log'[w1].name = "write"
          /\ log'[c1].transaction_id = log'[w1].transaction_id
          /\ PathOf[log'[w1].filename] = f
      BY <1>2, <1>7, <2>2 DEF Installs, Row, Path
    <3>2. log[w1].name = "write" /\ log[w1].transaction_id = t /\ PathOf[log[w1].filename] = f
      BY <1>2, <2>2, <3>1
    <3>3. log[w1].filename \in Filenames
      BY <1>1, <1>2, <3>1, <3>2, RowTypes DEF FileOperations
    <3>4. w1 \in WritesUnder(log, t, NamesOf(f))
      BY <1>2, <3>1, <3>2, <3>3 DEF WritesUnder, Ids, NamesOf
    <3> QED BY <1>3, <2>2, <3>4
  <2> QED BY <1>2, <2>1, <2>2
<1>8. LastInstall(c, w, f)'
  BY <1>6, <1>7 DEF LastInstall
<1>9. c \in DOMAIN log' /\ w \in DOMAIN log' /\ content = log'[w].data
  BY <1>2, <1>4, <1>5
<1> QED BY <1>8, <1>9 DEF Replays, Row

LEMMA RecordedIsCommitted ==
    ASSUME SInv, SInv', RecordCommit, NEW t \in Transactions, t = txn
    PROVE  Store!Commit(t)
<1>0. TypeOK /\ TypeOK' /\ NothingFailedYet'
  BY DEF SInv, IInv
<1> PICK row : row = PlainRow("global_commit", t)
  OBVIOUS
<1>1. /\ log \in Seq(Rows) /\ log' = Append(log, row) /\ row \in Rows
      /\ row.name = "global_commit" /\ row.transaction_id = t
  BY <1>0, NewRows DEF RecordCommit, InsertOperation, TypeOK, DecisionOperations, PlainRow, FileRow
<1>2. OwnNames' = OwnNames /\ IntendedFiles' = IntendedFiles
  BY <1>0, <1>1, SameWorkspaces
<1>3. Store!Touched(t) = PathsWritten(t)
  BY <1>0, TouchedAreWritten
<1>4. ASSUME NEW f \in Files
      PROVE  CommittedFiles'[f] = IF f \in Store!Touched(t) THEN IntendedFiles[t][f] ELSE CommittedFiles[f]
  <2>1. IntendedFiles[t][f] = LastWrite(log, t, NamesOf(f))
    BY <1>1, Workspaces
  <2>2. CASE f \in Store!Touched(t)
    <3> PICK content : content = LastWrite(log, t, NamesOf(f))
      OBVIOUS
    <3>1. content # Unwritten
      BY <2>1, <2>2 DEF Store!Touched
    <3>2. WritesUnder(log, t, NamesOf(f)) # {}
      BY <3>1 DEF LastWrite
    <3>3. content \in Data
      BY <1>1, <3>2, LastUnder DEF LastWrite
    <3>4. Replays(f, content)'
      BY <1>0, <1>1, <3>2, RecordedReplays
    <3>5. CommittedFiles'[f] = content
      BY <1>0, <3>3, <3>4, CommittedWillBe
    <3> QED BY <2>1, <2>2, <3>5
  <2>3. CASE f \notin Store!Touched(t)
    <3>1. \A w \in PendingWrites(log, row.transaction_id) : Path(w) # f
      BY <1>1, <1>3, <2>3 DEF PathsWritten
    <3>2. CommittedFiles'[f] = CommittedFiles[f]
      BY <1>0, <1>1, <3>1, SameCommitted
    <3> QED BY <2>3, <3>2
  <2> QED BY <2>2, <2>3
<1>5. CommittedFiles' = [f \in Files |->
                           IF f \in Store!Touched(t) THEN IntendedFiles[t][f] ELSE CommittedFiles[f]]
  BY <1>4 DEF CommittedFiles
<1>6. sync' = [f \in Files |-> IF f \in PathsWritten(t) /\ sync[f] = "installed"
                               THEN "recorded" ELSE sync[f]]
      /\ pc' = "replying" /\ reply' = PlainRow("vote_commit", t) /\ faults' = faults
  BY DEF RecordCommit, Answer
<1>7. TornFiles' \subseteq TornFiles /\ TornFiles \ Store!Touched(t) \subseteq TornFiles'
  BY <1>3, <1>6 DEF TornFiles
<1>8. ~(faults # 0) => TornFiles' = {}
  BY <1>0, <1>6 DEF NothingFailedYet, TornFiles
<1> QED BY <1>2, <1>5, <1>6, <1>7, <1>8 DEF Store!Commit

-----------------------------------------------------------------------------
(* Every step of the server is a step of the store, or none.               *)
LEMMA StoreStep == SInv /\ SInv' /\ [Next]_vars => [Store!Next]_(Store!vars)
<1> SUFFICES ASSUME SInv, SInv', [Next]_vars PROVE [Store!Next]_(Store!vars)
  OBVIOUS
<1>0. TypeOK /\ TypeOK' /\ faults \in Nat /\ log \in Seq(Rows)
  BY ConstantsOK DEF SInv, IInv, TypeOK
<1>a. Fault => faults' # 0
  BY <1>0 DEF Fault
\* Steps that nobody can see, and the ends of handlers without an answer.
<1>1. ASSUME UNCHANGED <<log, sync, reply, faults>> PROVE UNCHANGED Store!vars
  BY <1>1, SameLog DEF Store!vars, TornFiles
<1>2. ASSUME UNCHANGED <<log, sync>>, reply' = NoReply, UNCHANGED faults \/ Fault PROVE Store!Leave
  BY <1>2, <1>a, SameLog DEF Store!Leave, TornFiles
<1>3. CASE Start
  BY <1>1, <1>3 DEF Start
<1>4. ASSUME NEW t \in Transactions, NEW f \in Filenames, HandleRead(t, f)
      PROVE  Store!Next
  <2> DEFINE d == FileContent(t, f)
             row == FileRow("read", t, f, d)
  <2>1. d \in Data
    BY <1>0, FileContentIsData
  <2>2. row \in Rows /\ row.name \notin {"write", "global_commit"}
    BY <2>1, NewRows DEF FileOperations, FileRow
  <2>3. /\ log' = Append(log, row) /\ reply' = ReadResponse(t, f, d)
        /\ UNCHANGED <<sync, faults>> /\ pc = "ready"
    BY <1>4 DEF HandleRead, InsertOperation, Answer, ReadResponse
  <2> HIDE DEF row
  <2>4. SameStore /\ TornFiles' = TornFiles
    BY <1>0, <2>2, <2>3, SameStoreAfterRow DEF TornFiles
  <2> HIDE DEF d
  <2>5. Store!Readable(t, f, d)
    BY <2>1, <2>3, ReadableContent DEF Store!Readable, d
  <2>6. Store!Read(t, f)
    BY <2>1, <2>3, <2>4, <2>5 DEF Store!Read, SameStore
  <2> QED BY <2>6 DEF Store!Next
<1>5. ASSUME NEW t \in Transactions, NEW f \in Filenames, HandleReadUnopened(t, f)
      PROVE  Store!Next
  <2> DEFINE row == FileRow("read", t, f, Empty)
  <2>1. row \in Rows /\ row.name \notin {"write", "global_commit"} /\ Empty \in Data
    BY NewRows, EmptyIsData DEF FileOperations, FileRow
  <2>2. /\ log' = Append(log, row) /\ reply' = ReadResponse(t, f, Empty)
        /\ UNCHANGED sync /\ pc = "ready" /\ Fault
        /\ ~FileWasWrittenInThisTransaction(log, t, f)
    BY <1>5 DEF HandleReadUnopened, InsertOperation, Answer, ReadResponse
  <2> HIDE DEF row
  <2>3. SameStore /\ TornFiles' = TornFiles
    BY <1>0, <2>1, <2>2, SameStoreAfterRow DEF TornFiles
  <2>4. Store!Readable(t, f, Empty)
    BY <1>a, <2>1, <2>2, ReadableContent DEF Store!Readable
  <2>5. Store!Read(t, f)
    BY <1>a, <2>1, <2>2, <2>3, <2>4 DEF Store!Read, SameStore
  <2> QED BY <2>5 DEF Store!Next
<1>6. ASSUME NEW t \in Transactions, NEW f \in Filenames, NEW d \in Data, HandleWrite(t, f, d)
      PROVE  Store!Next
  <2> DEFINE row == FileRow("write", t, f, d)
  <2>1. row \in Rows /\ row.name # "global_commit"
    BY NewRows DEF FileOperations, FileRow
  <2>2. /\ log' = Append(log, row) /\ reply' = PlainRow("write_response", t)
        /\ UNCHANGED <<sync, faults>>
    BY <1>6 DEF HandleWrite, InsertOperation, Answer
  <2>3. /\ OwnNames' = [OwnNames EXCEPT ![t] = [@ EXCEPT ![f] = d]]
        /\ IntendedFiles' = [IntendedFiles EXCEPT ![t] = [@ EXCEPT ![PathOf[f]] = d]]
    BY <1>0, <2>2, WriteWorkspaces
  <2> HIDE DEF row
  <2>4. \A p \in Files : CommittedFiles'[p] = CommittedFiles[p]
    BY <1>0, <2>1, <2>2, SameCommitted
  <2>5. CommittedFiles' = CommittedFiles /\ TornFiles' = TornFiles
    BY <2>2, <2>4 DEF CommittedFiles, TornFiles
  <2>6. Store!Write(t, f, d)
    BY <2>2, <2>3, <2>5 DEF Store!Write
  <2> QED BY <2>6 DEF Store!Next
\* Votes and aborts.
<1>7. ASSUME NEW t \in Transactions, NEW name \in {"vote_commit", "vote_abort", "global_abort"},
             log' = Append(log, PlainRow(name, t)),
             NEW n \in {"vote_commit", "vote_abort"}, reply' = PlainRow(n, t),
             UNCHANGED <<sync, faults>>
      PROVE  Store!Next
  <2> PICK row : row = PlainRow(name, t)
    OBVIOUS
  <2>1. row \in Rows /\ row.name \notin {"write", "global_commit"}
    BY NewRows DEF DecisionOperations, PlainRow, FileRow
  <2>2. SameStore /\ TornFiles' = TornFiles
    BY <1>0, <1>7, <2>1, SameStoreAfterRow DEF TornFiles
  <2>3. Store!Respond(t)
    BY <1>7, <2>2 DEF Store!Respond, SameStore
  <2> QED BY <2>3 DEF Store!Next
<1>8. ASSUME NEW t \in Transactions, HandlePrepare(t) PROVE Store!Next
  BY <1>7, <1>8 DEF HandlePrepare, Answer, InsertOperation, Vote
<1>9. ASSUME NEW t \in Transactions, AskOperator(t) PROVE UNCHANGED Store!vars
  BY <1>1, <1>9 DEF AskOperator
<1>10. ASSUME NEW yes \in BOOLEAN, OperatorAnswers(yes) PROVE Store!Next
  <2>1. txn \in Transactions
    BY <1>0, <1>10 DEF OperatorAnswers, TypeOK
  <2> QED BY <1>7, <1>10, <2>1 DEF OperatorAnswers, Answer, InsertOperation, Vote
<1>11. ASSUME NEW t \in Transactions, HandleGlobalAbort(t) PROVE Store!Next
  BY <1>7, <1>11 DEF HandleGlobalAbort, Answer, InsertOperation
<1>12. ASSUME NEW t \in Transactions, HandleUnsupported(t) PROVE Store!Next
  <2>1. UNCHANGED <<log, sync, faults>> /\ reply' = PlainRow("unsupported", t)
    BY <1>12 DEF HandleUnsupported, Answer
  <2>2. Store!Respond(t)
    BY <2>1, SameLog DEF Store!Respond, TornFiles
  <2> QED BY <2>2 DEF Store!Next
<1>13. CASE RequestFails
  BY <1>2, <1>13 DEF RequestFails, Answer, Store!Next
<1>14. ASSUME NEW t \in Transactions, HandleGlobalCommit(t) PROVE UNCHANGED Store!vars
  BY <1>1, <1>14 DEF HandleGlobalCommit
\* The steps of installing a write disturb a file of the transaction at most.
<1>15. ASSUME NEW i \in pending, NEW s \in {"open", "installed", "failed"},
              sync' = [sync EXCEPT ![Path(i)] = s],
              UNCHANGED <<log, reply>>, UNCHANGED faults \/ Fault
       PROVE  Store!Next
  <2>1. txn \in Transactions /\ i \in PendingWrites(log, txn)
    BY <1>0 DEF TypeOK
  <2> PICK t \in Transactions : t = txn
    BY <2>1
  <2>2. Path(i) \in Store!Touched(t)
    BY <1>0, <2>1, TouchedAreWritten DEF PathsWritten
  <2>3. TornFiles' = TornFiles \cup {Path(i)}
    BY <1>0, <1>15, <2>2 DEF TornFiles, TypeOK, Store!Touched
  <2>4. Store!Disturb
    BY <1>15, <1>a, <2>2, <2>3, SameLog DEF Store!Disturb
  <2> QED BY <2>4 DEF Store!Next
<1>16. CASE OpenFile
  BY <1>15, <1>16 DEF OpenFile
<1>17. CASE OpenFileFails
  BY <1>15, <1>17 DEF OpenFileFails
<1>18. CASE WriteFile
  BY <1>15, <1>18 DEF WriteFile
<1>19. CASE WriteFileFails
  BY <1>15, <1>19 DEF WriteFileFails
<1>20. CASE RecordCommit
  <2>1. txn \in Transactions
    BY <1>0, <1>20 DEF RecordCommit, TypeOK
  <2> PICK t \in Transactions : t = txn
    BY <2>1
  <2>2. Store!Commit(t)
    BY <1>20, RecordedIsCommitted
  <2> QED BY <2>2 DEF Store!Next
<1>21. CASE InsertFails
  BY <1>2, <1>21 DEF InsertFails, Answer, Store!Next
<1>22. CASE Reply
  BY <1>2, <1>22 DEF Reply, Store!Next
<1>23. CASE Crash
  BY <1>2, <1>23 DEF Crash, Store!Next
<1>24. CASE UNCHANGED vars
  BY <1>1, <1>24 DEF vars
<1> QED
  BY <1>3, <1>4, <1>5, <1>6, <1>8, <1>9, <1>10, <1>11, <1>12, <1>13, <1>14, <1>16, <1>17,
     <1>18, <1>19, <1>20, <1>21, <1>22, <1>23, <1>24, <1>1
     DEF Next, CalculateResponse, Proceed

(* The server implements the store: reads return the transaction's own     *)
(* last write or committed content, a commit takes effect for all of its   *)
(* files at once, and only a failure can tear a file.                      *)
THEOREM ServerImplementsStore == Spec => ImplementsStore
BY SInvInit, SInvStep, StoreInit, StoreStep, PTL DEF Spec, ImplementsStore, Store!Spec
=============================================================================
