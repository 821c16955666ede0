---------------------------- MODULE TwoPhaseProofs ----------------------------
(***************************************************************************)
(* Theorems about several servers and the transactions that use them, for  *)
(* every set of servers, transactions, file names and contents, every      *)
(* program of every transaction, and any number of lost requests, lost     *)
(* answers, failing opens and writes, interrupted commits and premature    *)
(* timeouts.                                                               *)
(***************************************************************************)
EXTENDS TwoPhaseProperties, WellFoundedInduction, TLAPS

-----------------------------------------------------------------------------
(* The inductive invariant.                                                *)
ToCommit(t) == phase[t] \in {"global_commit", "committed"}
ToAbort(t) == phase[t] \in {"global_abort", "aborted"}

\* An operation is requested once.  As long as its transaction is not given up, its
\* request is on its way only while the coordinator is waiting for the answer.
Sent ==
    /\ \A t \in Transactions : phase[t] = "working" => number[t] \in DOMAIN Program[t]
    /\ \A m \in net :
          /\ m = Request(m.txn, m.server, m.kind, m.number)
          /\ m.kind = "working" => /\ m.number \in DOMAIN Program[m.txn]
                                   /\ Program[m.txn][m.number].server = m.server
                                   /\ ToAbort(m.txn) \/ Awaited(m)
          /\ m.kind = "global_commit" => ToCommit(m.txn)

\* Every row is of a transaction that uses the server, a write one of its writes.
Planned ==
    \A s \in Servers : \A i \in DOMAIN log[s] :
       /\ s \in Participants(Row(s, i).transaction_id)
       /\ Row(s, i).name = "write" =>
             \E k \in ProgramWrites(Row(s, i).transaction_id, s, Row(s, i).filename) :
                Row(s, i).data = Program[Row(s, i).transaction_id][k].data

\* What the coordinator has heard is in the logs.
Answered ==
    \A t \in Transactions : \A s \in Participants(t) :
       /\ phase[t] = "prepare" /\ heard[t][s] = "vote_commit"
             => Ids(log[s], t, "vote_commit") # {}
       /\ ToCommit(t) => Ids(log[s], t, "vote_commit") # {}
       /\ ToCommit(t) /\ heard[t][s] # "nothing" => Commits(s, t) # {}
       /\ phase[t] = "committed" => heard[t][s] # "nothing"
       /\ Commits(s, t) # {} => ToCommit(t)

Current(t) == Program[t][number[t]].server

\* How many operations of t have been answered.
Done(t) ==
    IF phase[t] # "working" THEN Len(Program[t])
    ELSE IF heard[t][Current(t)] = "nothing" THEN number[t] - 1 ELSE number[t]

\* No request of t was lost, and no answer to one of its operations.
Unharmed(t) ==
    /\ ~ToAbort(t)
    /\ phase[t] = "working" /\ heard[t][Current(t)] = "nothing"
          => Request(t, Current(t), "working", number[t]) \in net

LastDone(t, s, f, i) ==
    /\ i \in ProgramWrites(t, s, f) /\ i <= Done(t)
    /\ \A j \in ProgramWrites(t, s, f) : j <= Done(t) => j <= i

IsLast(l, t, f, r) ==
    /\ r \in OwnWrites(l, t, f)
    /\ \A j \in OwnWrites(l, t, f) : j <= r

\* The last write that was answered is the last one in the log.
Logged ==
    \A t \in Transactions, s \in Servers, f \in Filenames : \A i \in DOMAIN Program[t] :
       Unharmed(t) /\ LastDone(t, s, f, i) =>
          \E r \in DOMAIN log[s] : /\ IsLast(log[s], t, f, r)
                                   /\ Row(s, r).data = Program[t][i].data

\* A recorded commit to f that comes after those of t.
CommittedLater(t, s, f) ==
    \E cu \in DOMAIN log[s] :
       /\ \A c \in Commits(s, t) : c < cu
       /\ Row(s, cu).name = "global_commit"
       /\ OwnWrites(log[s], Row(s, cu).transaction_id, f) # {}

\* A file holds what the last commit to it was to install, unless the write failed
\* or a later one was cut short.
Installed ==
    \A t \in Transactions, s \in Servers, f \in Filenames : \A r \in DOMAIN log[s] :
       IsLast(log[s], t, f, r) /\ Commits(s, t) # {} /\ f \notin torn[s] \cup missed[s]
          => disk[s][f] = Row(s, r).data \/ CommittedLater(t, s, f)

\* As long as nobody timed out too early, commit requests are waited for.
CommitsAwaited == timeouts = 0 => \A m \in net : m.kind = "global_commit" => Awaited(m)

\* A vote to commit was given when no other commit had overwritten the file that
\* its transaction read first.
VotesWereChecked ==
    \A s \in Servers : \A v, i, o, cu, k \in DOMAIN log[s] :
       /\ Row(s, v).name = "vote_commit" /\ i < v /\ o < v /\ cu < v
       /\ IsFirst(log[s], Row(s, v).transaction_id, "read", i)
       /\ Row(s, o).name = "write" /\ Row(s, o).filename = Row(s, i).filename
       /\ Row(s, o).transaction_id # Row(s, v).transaction_id
       /\ k < o /\ Row(s, k).transaction_id = Row(s, v).transaction_id
       /\ Row(s, cu).name = "global_commit"
       => Row(s, cu).transaction_id # Row(s, o).transaction_id

\* Contents that anybody may see.
Public ==
    {InitialContent, Empty} \cup {d \in Data : \E t \in Transactions : ToCommit(t) /\ d \in DataOf(t)}

Provenance ==
    \A s \in Servers :
       /\ \A f \in Filenames : disk[s][f] \in Public
       /\ \A i \in DOMAIN log[s] :
             Row(s, i).data \in Public \cup DataOf(Row(s, i).transaction_id)

IInv ==
    /\ TypeOK /\ Sent /\ Planned /\ Answered /\ Logged /\ Installed
    /\ CommitsAwaited /\ TornFilesAreWaitedFor /\ VotesWereChecked /\ Provenance
-----------------------------------------------------------------------------
(* Rows and ids.                                                           *)

(* Appending a row keeps the other rows and their ids.                     *)
LEMMA AppendRow ==
    ASSUME NEW l \in Seq(Rows), NEW row \in Rows
    PROVE  /\ Append(l, row) \in Seq(Rows)
           /\ Len(l) \in Nat
           /\ Len(l) + 1 \notin DOMAIN l
           /\ DOMAIN l = 1..Len(l)
           /\ DOMAIN Append(l, row) = DOMAIN l \cup {Len(l) + 1}
           /\ \A i \in DOMAIN l : i \in Nat /\ i < Len(l) + 1
           /\ \A i \in DOMAIN l : Append(l, row)[i] = l[i]
           /\ Append(l, row)[Len(l) + 1] = row
OBVIOUS

(* The rows that have a file name are the reads and the writes.            *)
LEMMA RowTypes ==
    ASSUME NEW row \in Rows
    PROVE  /\ row.transaction_id \in Transactions
           /\ row.data \in Data
           /\ row.name \in FileOperations \cup DecisionOperations
           /\ row.name \in FileOperations => row.filename \in Filenames
           /\ row.name \in DecisionOperations => row.data = Empty
BY EmptyIsData DEF Rows, FileOperations, DecisionOperations

(* What a new row adds to the ids of a transaction.                        *)
LEMMA AppendIds ==
    ASSUME NEW l \in Seq(Rows), NEW row \in Rows, NEW t, NEW name
    PROVE  Ids(Append(l, row), t, name) =
              IF row.transaction_id = t /\ row.name = name
              THEN Ids(l, t, name) \cup {Len(l) + 1} ELSE Ids(l, t, name)
<1> DEFINE new == Append(l, row)
<1>1. DOMAIN new = DOMAIN l \cup {Len(l) + 1} /\ Len(l) + 1 \notin DOMAIN l
  BY AppendRow
<1>2. new[Len(l) + 1] = row /\ \A i \in DOMAIN l : new[i] = l[i]
  BY AppendRow
<1> HIDE DEF new
<1>3. QED
  BY <1>1, <1>2 DEF Ids, new

(* What a new row adds to the writes of a transaction to a file.           *)
LEMMA AppendOwnWrites ==
    ASSUME NEW l \in Seq(Rows), NEW row \in Rows, NEW t, NEW f
    PROVE  OwnWrites(Append(l, row), t, f) =
              IF row.transaction_id = t /\ row.name = "write" /\ row.filename = f
              THEN OwnWrites(l, t, f) \cup {Len(l) + 1} ELSE OwnWrites(l, t, f)
<1> DEFINE new == Append(l, row)
<1>1. DOMAIN new = DOMAIN l \cup {Len(l) + 1} /\ Len(l) + 1 \notin DOMAIN l
  BY AppendRow
<1>2. new[Len(l) + 1] = row /\ \A i \in DOMAIN l : new[i] = l[i]
  BY AppendRow
<1> HIDE DEF new
<1>3. QED
  BY <1>1, <1>2 DEF Ids, OwnWrites, new

(* A non-empty set of ids has a greatest element, and Max is it.           *)
LEMMA MaxOfIds ==
    ASSUME NEW n \in Nat, NEW S, S \subseteq 1..n, S # {}
    PROVE  Max(S) \in S /\ \A i \in S : i <= Max(S)
<1> DEFINE D == {n - i : i \in S}
<1>1. D \subseteq Nat /\ D # {}
  <2>1. \A i \in S : i \in 1..n
    OBVIOUS
  <2>2. \A i \in 1..n : n - i \in Nat
    OBVIOUS
  <2>3. PICK i \in S : TRUE
    OBVIOUS
  <2>4. n - i \in D
    OBVIOUS
  <2> QED BY <2>1, <2>2, <2>4
<1>2. PICK d \in D : \A e \in D : ~(<<e, d>> \in OpToRel(<, Nat))
  BY <1>1, NatLessThanWellFounded, WFMin
<1>3. \A e \in D : d <= e
  <2> TAKE e \in D
  <2>1. e \in Nat /\ d \in Nat
    BY <1>1
  <2>2. ~(e < d)
    BY <2>1, <1>2 DEF OpToRel
  <2> QED BY <2>1, <2>2
<1>4. PICK m \in S : d = n - m
  OBVIOUS
<1>5. \A i \in S : m >= i
  <2> TAKE i \in S
  <2>1. n - i \in D
    OBVIOUS
  <2>2. d <= n - i
    BY <1>3, <2>1
  <2> HIDE DEF D
  <2> QED BY <1>4, <2>2
<1>6. Max(S) \in S /\ \A i \in S : Max(S) >= i
  BY <1>4, <1>5 DEF Max
<1> QED BY <1>6

-----------------------------------------------------------------------------
(* What the handlers of a server do.                                       *)

(* What a transaction reads is the file, the empty content if there is no  *)
(* file, or what it wrote itself.                                          *)
LEMMA ContentComesFrom ==
    ASSUME TypeOK, NEW s \in Servers, NEW t \in Transactions, NEW f \in Filenames
    PROVE  \/ Server(s)!FileContent(t, f) \in {disk[s][f], Empty}
           \/ \E i \in OwnWrites(log[s], t, f) :
                 Server(s)!FileContent(t, f) = log[s][i].data
<1> DEFINE own == OwnWrites(log[s], t, f)
<1>1. own \subseteq 1..Len(log[s]) /\ Len(log[s]) \in Nat
  BY DEF TypeOK, OwnWrites, Ids
<1>2. Server(s)!FileContent(t, f) =
         IF own # {} THEN log[s][Max(own)].data
         ELSE IF disk[s][f] = NoFilename THEN Empty ELSE disk[s][f]
  BY DEF Server!FileContent, Server!FileWasWrittenInThisTransaction, Server!OwnWrites, Server!Ids,
         Server!LastFileContentFromThisTransaction, Server!Max, Max, OwnWrites, Ids
<1> HIDE DEF own
<1>3. QED
  BY <1>1, <1>2, MaxOfIds DEF own

(* Transactions use servers only.                                          *)
LEMMA ParticipantsAreServers ==
    ASSUME NEW t \in Transactions
    PROVE  Participants(t) \subseteq Servers
<1>1. \A i \in DOMAIN Program[t] : Program[t][i] \in Operations
  BY ProgramOK
<1>2. QED
  BY <1>1 DEF Participants, Operations

(* Who asks, and where.                                                    *)
LEMMA WhereRequested ==
    ASSUME TypeOK, NEW m \in net
    PROVE  /\ m.server \in Servers /\ m.txn \in Transactions
           /\ m.server \in Participants(m.txn)
           /\ m.kind \in {"working", "prepare"} \cup Decisions
BY ParticipantsAreServers DEF TypeOK

(* The row that the handler of a request inserts.                          *)
LEMMA RowOfRequest ==
    ASSUME TypeOK, Sent, NEW m \in net, NEW row \in RowsFor(m)
    PROVE  /\ m.server \in Servers /\ m.txn \in Transactions
           /\ m.server \in Participants(m.txn)
           /\ row \in Rows
           /\ row.transaction_id = m.txn
           /\ row.name = "global_commit" <=> Installs(m)
           /\ row.name = "vote_commit" =>
                 /\ m.kind = "prepare"
                 /\ Server(m.server)!CanAutoCommitTransaction(m.txn)
           /\ row.name \in FileOperations => m.kind = "working"
           /\ row.name = "read" =>
                 row.data \in {Empty, Server(m.server)!FileContent(m.txn, row.filename)}
           /\ m.kind = "working" =>
                 /\ row.name = Program[m.txn][m.number].name
                 /\ row.filename = Program[m.txn][m.number].filename
                 /\ row.name = "write" => row.data = Program[m.txn][m.number].data
           /\ m.kind = "prepare" => row.name \in {"vote_commit", "vote_abort"}
           /\ m.kind \in Decisions => row.name = m.kind
<1> DEFINE t == m.txn  op == Program[t][m.number]
<1>1. /\ m.txn \in Transactions /\ m.server \in Participants(m.txn)
      /\ m.kind \in {"working", "prepare"} \cup Decisions
      /\ m.server \in Servers
  BY WhereRequested
<1>2. row = RowFor(m) \/ (row = UnopenedRow(m) /\ m.kind = "working" /\ op.name = "read")
  BY DEF RowsFor, ReadsFile
<1>3. CASE m.kind = "working"
  <2>1. op \in Operations /\ op.server = m.server
    BY <1>1, <1>3, ProgramOK DEF Sent
  <2>2. op.filename \in Filenames /\ op.data \in Data /\ op.name \in FileOperations
    BY <2>1 DEF Operations
  <2>3. CASE op.name = "read"
    <3> DEFINE d == Server(m.server)!FileContent(t, op.filename)
    <3>1. d \in Data
      <4>1. \/ d \in {disk[m.server][op.filename], Empty}
            \/ \E i \in OwnWrites(log[m.server], t, op.filename) : d = log[m.server][i].data
        BY <1>1, <2>2, ContentComesFrom
      <4>2. disk[m.server][op.filename] \in Data
        BY <1>1, <2>2 DEF TypeOK
      <4>3. ASSUME NEW i \in OwnWrites(log[m.server], t, op.filename)
            PROVE  log[m.server][i].data \in Data
        <5>1. log[m.server] \in Seq(Rows) /\ i \in DOMAIN log[m.server]
          BY <1>1 DEF TypeOK, OwnWrites, Ids
        <5> QED BY <5>1, RowTypes
      <4> QED BY <4>1, <4>2, <4>3, EmptyIsData
    <3>2. /\ RowFor(m) = FileRow("read", t, op.filename, d)
          /\ UnopenedRow(m) = FileRow("read", t, op.filename, Empty)
      BY <1>3, <2>3 DEF RowFor, UnopenedRow, Decisions
    <3> HIDE DEF d
    <3>3. PICK e \in {Empty, d} : row = FileRow("read", t, op.filename, e)
      BY <1>2, <3>2
    <3>4. e \in Data
      BY <3>1, EmptyIsData
    <3>5. row \in Rows
      BY <1>1, <2>2, <3>3, <3>4 DEF FileRow, Rows, FileOperations
    <3>6. /\ row.name = "read" /\ row.transaction_id = t
          /\ row.filename = op.filename /\ row.data = e
      BY <3>3 DEF FileRow
    <3> QED BY <1>1, <1>3, <2>3, <3>5, <3>6 DEF Installs, Decisions, d
  <2>4. CASE op.name = "write"
    <3>1. row = FileRow("write", t, op.filename, op.data)
      BY <1>2, <1>3, <2>4 DEF RowFor, Decisions
    <3>2. row \in Rows
      BY <1>1, <2>2, <3>1 DEF FileRow, Rows, FileOperations
    <3>3. /\ row.name = "write" /\ row.transaction_id = t
          /\ row.filename = op.filename /\ row.data = op.data
      BY <3>1 DEF FileRow
    <3> QED BY <1>1, <1>3, <2>4, <3>2, <3>3 DEF Installs, Decisions
  <2> QED BY <2>2, <2>3, <2>4 DEF FileOperations
<1>4. CASE m.kind = "prepare"
  <2> DEFINE can == Server(m.server)!CanAutoCommitTransaction(t)
  <2>1. row = PlainRow(IF can THEN "vote_commit" ELSE "vote_abort", t)
    BY <1>2, <1>4 DEF RowFor, Decisions, Server!Vote
  <2> HIDE DEF can
  <2>2. /\ row.name = IF can THEN "vote_commit" ELSE "vote_abort"
        /\ row.transaction_id = t /\ row \in Rows
    BY <1>1, <2>1 DEF PlainRow, FileRow, Rows, DecisionOperations
  <2> QED BY <1>1, <1>4, <2>2 DEF can, Installs, Decisions, FileOperations
<1>5. CASE m.kind \in Decisions
  <2>1. row = PlainRow(m.kind, t)
    BY <1>2, <1>5 DEF RowFor, DecisionRow, Decisions
  <2>2. row.name = m.kind /\ row.transaction_id = t /\ row \in Rows
    BY <1>1, <1>5, <2>1 DEF PlainRow, FileRow, Rows, DecisionOperations, Decisions
  <2> QED BY <1>1, <1>5, <2>2 DEF Installs, Decisions, FileOperations
<1>6. QED
  BY <1>1, <1>3, <1>4, <1>5

(* The files that a commit writes are files of the directory.              *)
LEMMA PathsAreFilenames ==
    ASSUME TypeOK, NEW m, m.server \in Servers
    PROVE  PathsWritten(m) \subseteq Filenames
<1>1. \A i \in PendingWrites(log[m.server], m.txn) : log[m.server][i].filename \in Filenames
  BY RowTypes DEF TypeOK, PendingWrites, Ids, FileOperations
<1>2. QED
  BY <1>1 DEF PathsWritten, Pending

\* Directory a is what the writes in the domain of o, in the order of their ids and
\* with the outcomes o, make of d: each file that they touch is empty or has one of
\* them, and the last of them if that was carried out.
Applies(a, l, d, o) ==
    /\ a \in [Filenames -> Data]
    /\ \A f \in Filenames :
          \/ f \notin Touched(l, o) /\ a[f] = d[f]
          \/ f \in Touched(l, o) /\ a[f] = Empty
          \/ f \in Touched(l, o) /\ \E i \in DOMAIN o : l[i].filename = f /\ a[f] = l[i].data
    /\ \A i \in DOMAIN o :
          /\ o[i] = "written" /\ l[i].filename \in Filenames
          /\ \A j \in DOMAIN o : l[j].filename = l[i].filename => j <= i
          => a[l[i].filename] = l[i].data

\* It is a directory.
LEMMA AppliedIsDirectory ==
    ASSUME TypeOK, NEW s \in Servers, NEW ids \in SUBSET (DOMAIN log[s]), NEW o \in [ids -> Outcomes]
    PROVE  Applies(Applied(log[s], disk[s], o), log[s], disk[s], o)
<1> DEFINE l == log[s]  a == Applied(l, disk[s], o)
           opened(f) == {i \in DOMAIN o : l[i].filename = f /\ o[i] # "unopened"}
<1>1. l \in Seq(Rows) /\ disk[s] \in [Filenames -> Data]
  BY DEF TypeOK
<1>2. DOMAIN o = ids /\ ids \subseteq DOMAIN l /\ DOMAIN l = 1..Len(l) /\ Len(l) \in Nat
  BY <1>1
<1>3. \A i \in DOMAIN o : l[i].data \in Data
  BY <1>1, <1>2, RowTypes
<1>4. \A f \in Filenames :
         a[f] = IF opened(f) = {} THEN disk[s][f]
                ELSE IF o[Max(opened(f))] = "written" THEN l[Max(opened(f))].data ELSE Empty
  BY DEF Applied
<1>5. ASSUME NEW f, opened(f) # {}
      PROVE  Max(opened(f)) \in opened(f) /\ \A j \in opened(f) : j <= Max(opened(f))
  <2>1. opened(f) \subseteq 1..Len(l) /\ Len(l) \in Nat
    BY <1>2
  <2> HIDE DEF opened
  <2> QED BY <1>5, <2>1, MaxOfIds
<1>6. \A f : f \in Touched(l, o) <=> opened(f) # {}
  BY DEF Touched
<1> HIDE DEF a
<1>7. ASSUME NEW f \in Filenames
      PROVE  \/ f \notin Touched(l, o) /\ a[f] = disk[s][f]
             \/ f \in Touched(l, o) /\ a[f] = Empty
             \/ f \in Touched(l, o) /\ \E i \in DOMAIN o : l[i].filename = f /\ a[f] = l[i].data
  <2>1. CASE opened(f) = {}
    BY <1>4, <1>6, <2>1
  <2>2. CASE opened(f) # {}
    <3>1. Max(opened(f)) \in DOMAIN o /\ l[Max(opened(f))].filename = f
      BY <1>5, <2>2
    <3> HIDE DEF opened
    <3> QED BY <1>4, <1>6, <2>2, <3>1
  <2> QED BY <2>1, <2>2
<1>8. ASSUME NEW i \in DOMAIN o, o[i] = "written", l[i].filename \in Filenames,
             \A j \in DOMAIN o : l[j].filename = l[i].filename => j <= i
      PROVE  a[l[i].filename] = l[i].data
  <2> DEFINE f == l[i].filename  k == Max(opened(f))
  <2>1. i \in opened(f)
    BY <1>8
  <2>2. k \in opened(f) /\ i <= k
    BY <1>5, <2>1
  <2>3. k \in DOMAIN o /\ k <= i
    BY <1>8, <2>2
  <2>4. k \in 1..Len(l) /\ i \in 1..Len(l)
    BY <1>2, <2>3
  <2>5. k = i
    <3> HIDE DEF k
    <3> QED BY <2>2, <2>3, <2>4
  <2> QED BY <1>4, <1>8, <2>1, <2>5
<1>9. \A f \in Filenames : a[f] \in Data
  BY <1>1, <1>3, <1>7, EmptyIsData
<1>10. a = [f \in Filenames |-> a[f]]
  BY DEF Applied, a
<1>11. a \in [Filenames -> Data]
  BY <1>9, <1>10
<1>12. Applies(a, l, disk[s], o)
  BY <1>7, <1>8, <1>11 DEF Applies
<1>13. QED
  BY <1>12 DEF a

(* A commit goes through the writes of its transaction, all of them, with  *)
(* outcomes.                                                               *)
LEMMA PendingIsLogged ==
    ASSUME NEW m
    PROVE  /\ Pending(m) \in SUBSET (DOMAIN log[m.server])
           /\ AllWritten(m) \in [Pending(m) -> Outcomes]
           /\ Installations(m) \subseteq [Pending(m) -> Outcomes]
           /\ Pending(m) = Ids(log[m.server], m.txn, "write")
           /\ \A f : OwnWrites(log[m.server], m.txn, f) =
                        {i \in Pending(m) : log[m.server][i].filename = f}
           /\ \A f : f \in PathsWritten(m) <=> OwnWrites(log[m.server], m.txn, f) # {}
BY DEF Pending, AllWritten, Installations, Outcomes, PendingWrites, PathsWritten, OwnWrites, Ids

\* The handler of m has inserted row.
Inserted(m, row) == log' = [log EXCEPT ![m.server] = InsertOperation(@, row)]

(* What handling a request does to the logs: one row more in one of them.  *)
LEMMA RowIsAdded ==
    ASSUME TypeOK, Sent, NEW m \in net, NEW row \in RowsFor(m), Inserted(m, row)
    PROVE  LET new == Len(log[m.server]) + 1 IN
           /\ log' \in [Servers -> Seq(Rows)]
           /\ \A s \in Servers :
                 /\ DOMAIN log'[s] = IF s = m.server THEN DOMAIN log[s] \cup {new} ELSE DOMAIN log[s]
                 /\ \A i \in DOMAIN log[s] : i \in Nat /\ log'[s][i] = log[s][i]
           /\ new \in Nat /\ new \notin DOMAIN log[m.server]
           /\ log'[m.server][new] = row
           /\ \A i \in DOMAIN log[m.server] : i < new
<1> DEFINE new == Len(log[m.server]) + 1
<1>1. /\ m.server \in Servers /\ row \in Rows
      /\ log \in [Servers -> Seq(Rows)]
  BY RowOfRequest DEF TypeOK
<1>2. log' = [log EXCEPT ![m.server] = Append(@, row)]
  BY DEF Inserted, InsertOperation
<1>3. /\ log'[m.server] = Append(log[m.server], row)
      /\ \A s \in Servers : s # m.server => log'[s] = log[s]
  BY <1>1, <1>2
<1>4. /\ Append(log[m.server], row) \in Seq(Rows)
      /\ DOMAIN log'[m.server] = DOMAIN log[m.server] \cup {new}
      /\ new \in Nat /\ new \notin DOMAIN log[m.server]
      /\ log'[m.server][new] = row
      /\ \A i \in DOMAIN log[m.server] : i < new /\ log'[m.server][i] = log[m.server][i]
  BY <1>1, <1>3, AppendRow
<1>5. \A s \in Servers : \A i \in DOMAIN log[s] : i \in Nat
  BY <1>1
<1>6. log' \in [Servers -> Seq(Rows)]
  BY <1>1, <1>2, <1>4
<1> HIDE DEF new
<1>7. QED
  BY <1>1, <1>3, <1>4, <1>5, <1>6 DEF new

(* The same for the ids of a transaction.                                  *)
LEMMA IdsAreAdded ==
    ASSUME TypeOK, Sent, NEW m \in net, NEW row \in RowsFor(m), Inserted(m, row),
           NEW s \in Servers, NEW t
    PROVE  LET new == Len(log[m.server]) + 1
               here == s = m.server /\ m.txn = t
           IN
           /\ \A name :
                 /\ Ids(log[s], t, name) \subseteq Ids(log'[s], t, name)
                 /\ here /\ row.name = name => new \in Ids(log'[s], t, name)
                 /\ ~(here /\ row.name = name) => Ids(log'[s], t, name) = Ids(log[s], t, name)
           /\ \A f :
                 /\ \A i \in OwnWrites(log'[s], t, f) : i \in OwnWrites(log[s], t, f) \/ i = new
                 /\ OwnWrites(log[s], t, f) \subseteq OwnWrites(log'[s], t, f)
                 /\ here /\ row.name = "write" /\ row.filename = f
                       => new \in OwnWrites(log'[s], t, f)
                 /\ ~(here /\ row.name = "write" /\ row.filename = f)
                       => OwnWrites(log'[s], t, f) = OwnWrites(log[s], t, f)
<1>1. /\ row \in Rows /\ row.transaction_id = m.txn
      /\ log \in [Servers -> Seq(Rows)]
  BY RowOfRequest DEF TypeOK
<1>2. log'[s] = IF s = m.server THEN Append(log[s], row) ELSE log[s]
  BY <1>1 DEF Inserted, InsertOperation
<1>3. CASE s = m.server
  <2>1. log[s] \in Seq(Rows) /\ log'[s] = Append(log[s], row)
    BY <1>1, <1>2, <1>3
  <2>2. \A name : Ids(log'[s], t, name) =
           IF row.transaction_id = t /\ row.name = name
           THEN Ids(log[s], t, name) \cup {Len(log[s]) + 1} ELSE Ids(log[s], t, name)
    BY <1>1, <2>1, AppendIds
  <2>3. \A f : OwnWrites(log'[s], t, f) =
           IF row.transaction_id = t /\ row.name = "write" /\ row.filename = f
           THEN OwnWrites(log[s], t, f) \cup {Len(log[s]) + 1} ELSE OwnWrites(log[s], t, f)
    BY <1>1, <2>1, AppendOwnWrites
  <2> QED BY <1>1, <1>3, <2>2, <2>3
<1>4. QED
  BY <1>2, <1>3

-----------------------------------------------------------------------------
(* Types, and what is on its way.                                          *)
LEMMA TypesInit == Init => TypeOK /\ Sent
<1> SUFFICES ASSUME Init PROVE TypeOK /\ Sent
  OBVIOUS
<1>1. \A t \in Transactions :
         /\ Program[t] \in Seq(Operations) /\ Program[t] # << >>
         /\ 1 \in DOMAIN Program[t]
  BY ProgramOK
<1>2. \A t \in Transactions : Program[t][1].server \in Participants(t)
  BY <1>1 DEF Participants
<1>3. << >> \in Seq(Rows)
  OBVIOUS
<1>4. TypeOK
  BY <1>2, <1>3, ProgramOK DEF Init, TypeOK, Request, Phases
<1>5. Sent
  <2>1. \A t \in Transactions : phase[t] = "working" /\ number[t] = 1
    BY DEF Init
  <2>2. ASSUME NEW m \in net
        PROVE  /\ m = Request(m.txn, m.server, m.kind, m.number)
               /\ m.txn \in Transactions /\ m.number = 1 /\ m.kind = "working"
               /\ m.server = Program[m.txn][1].server
    BY DEF Init, Request
  <2>3. ASSUME NEW m \in net PROVE Awaited(m)
    <3>1. m.server \in Servers
      BY <1>2, <2>2, ParticipantsAreServers
    <3> QED BY <2>1, <2>2, <3>1 DEF Init, Awaited
  <2> QED BY <1>1, <2>1, <2>2, <2>3 DEF Sent
<1>6. QED
  BY <1>4, <1>5

\* Requests of one kind that are sent together.
LEMMA EnterKeepsTypes ==
    ASSUME TypeOK, NEW t \in Transactions,
           NEW p \in {"working", "prepare"} \cup Decisions, NEW n \in Nat,
           NEW S \in SUBSET Participants(t), Enter(t, p, n, S)
    PROVE  /\ phase' \in [Transactions -> Phases] /\ number' \in [Transactions -> Nat]
           /\ phase'[t] = p /\ number'[t] = n
           /\ \A u \in Transactions : u # t => phase'[u] = phase[u] /\ number'[u] = number[u]
           /\ \A m \in net' : /\ m.txn \in Transactions
                               /\ m.server \in Participants(m.txn)
                               /\ m.kind \in {"working", "prepare"} \cup Decisions
                               /\ m.number \in Nat
           /\ \A m \in net' : \/ m \in net
                               \/ \E s \in S : m = Request(t, s, p, n)
<1>1. p \in Phases
  BY DEF Phases, Decisions
<1>2. \A m \in net' : m \in net \/ \E s \in S : m = Request(t, s, p, n)
  BY DEF Enter
<1>3. \A s \in S : /\ Request(t, s, p, n).txn = t /\ Request(t, s, p, n).server = s
                   /\ Request(t, s, p, n).kind = p /\ Request(t, s, p, n).number = n
  BY DEF Request
<1>4. \A m \in net' : /\ m.txn \in Transactions
                      /\ m.server \in Participants(m.txn)
                      /\ m.kind \in {"working", "prepare"} \cup Decisions
                      /\ m.number \in Nat
  BY <1>2, <1>3 DEF TypeOK
<1>5. QED
  BY <1>1, <1>2, <1>4 DEF TypeOK, Enter

\* A coordinator that sends requests, whatever they are, keeps the types.
LEMMA SendingKeepsTypes ==
    ASSUME TypeOK, NEW t \in Transactions,
           \E p \in {"working", "prepare"} \cup Decisions, n \in Nat, S \in SUBSET Participants(t) :
              Enter(t, p, n, S),
           Forget(t) \/ UNCHANGED heard,
           UNCHANGED <<log, disk, torn, missed, losses>>, timeouts' \in 0..MaxTimeouts
    PROVE  TypeOK'
<1>1. PICK p \in {"working", "prepare"} \cup Decisions, n \in Nat, S \in SUBSET Participants(t) :
         Enter(t, p, n, S)
  OBVIOUS
<1>2. /\ phase' \in [Transactions -> Phases] /\ number' \in [Transactions -> Nat]
      /\ \A m \in net' : /\ m.txn \in Transactions
                          /\ m.server \in Participants(m.txn)
                          /\ m.kind \in {"working", "prepare"} \cup Decisions
                          /\ m.number \in Nat
  BY <1>1, EnterKeepsTypes
<1>3. /\ heard' \in [Transactions -> [Servers -> {"nothing", "done", "vote_commit", "vote_abort"}]]
      /\ \A u \in Transactions, s \in Servers : heard'[u][s] # "nothing" => s \in Participants(u)
  BY DEF Forget, TypeOK
<1>4. QED
  BY <1>2, <1>3 DEF TypeOK

(* The coordinator hears the answer it was waiting for.                    *)
LEMMA AnswerIsHeard ==
    ASSUME TypeOK, Sent, NEW m \in net, NEW row \in RowsFor(m), NEW o \in Installations(m),
           NEW d \in BOOLEAN, Handle(m, row, o, d)
    PROVE  /\ heard' \in [Transactions -> [Servers -> {"nothing", "done", "vote_commit", "vote_abort"}]]
           /\ d /\ Awaited(m) => heard'[m.txn][m.server] = AnswerName(row)
           /\ \A t \in Transactions, s \in Servers :
                 heard'[t][s] = heard[t][s] \/ (Awaited(m) /\ t = m.txn /\ s = m.server)
           /\ AnswerName(row) # "nothing"
<1> DEFINE a == AnswerName(row)
<1>1. m.server \in Servers /\ m.txn \in Transactions
  BY RowOfRequest
<1>2. heard \in [Transactions -> [Servers -> {"nothing", "done", "vote_commit", "vote_abort"}]]
  BY DEF TypeOK
<1>3. a \in {"done", "vote_commit", "vote_abort"}
  BY DEF AnswerName
<1>4. IF d /\ Awaited(m) THEN heard' = [heard EXCEPT ![m.txn] = [@ EXCEPT ![m.server] = a]]
                         ELSE heard' = heard
  BY DEF Handle
<1> HIDE DEF a
<1>5. CASE d /\ Awaited(m)
  <2>1. heard' = [heard EXCEPT ![m.txn] = [@ EXCEPT ![m.server] = a]]
    BY <1>4, <1>5
  <2>2. heard'[m.txn] = [heard[m.txn] EXCEPT ![m.server] = a]
    BY <1>1, <1>2, <2>1
  <2>3. \A t \in Transactions : t # m.txn => heard'[t] = heard[t]
    BY <1>1, <1>2, <2>1
  <2>4. heard[m.txn] \in [Servers -> {"nothing", "done", "vote_commit", "vote_abort"}]
    BY <1>1, <1>2
  <2>5. \A s \in Servers : heard'[m.txn][s] = IF s = m.server THEN a ELSE heard[m.txn][s]
    BY <1>1, <2>2, <2>4
  <2>6. heard' \in [Transactions -> [Servers -> {"nothing", "done", "vote_commit", "vote_abort"}]]
    BY <1>1, <1>2, <1>3, <2>1, <2>4
  <2>7. \A t \in Transactions, s \in Servers :
           heard'[t][s] = heard[t][s] \/ (t = m.txn /\ s = m.server)
    BY <2>3, <2>5
  <2> QED BY <1>1, <1>3, <1>5, <2>5, <2>6, <2>7 DEF a
<1>6. CASE ~(d /\ Awaited(m))
  BY <1>2, <1>3, <1>4, <1>6 DEF a
<1>7. QED
  BY <1>5, <1>6

\* One step per action: handlers, losses, and what the coordinators do.
LEMMA TypesStep == TypeOK /\ Sent /\ [Next]_vars => TypeOK'
<1> SUFFICES ASSUME TypeOK, Sent, [Next]_vars PROVE TypeOK'
  OBVIOUS
<1>1. ASSUME NEW m \in net, NEW row \in RowsFor(m), NEW o \in Installations(m),
             NEW d \in BOOLEAN, Handle(m, row, o, d) PROVE TypeOK'
  <2>0. Inserted(m, row)
    BY <1>1 DEF Handle, Inserted
  <2>1. log' \in [Servers -> Seq(Rows)]
    BY <1>1, <2>0, RowIsAdded
  <2>2. m.server \in Servers /\ m.txn \in Transactions /\ m.server \in Participants(m.txn)
    BY RowOfRequest
  <2>3. disk' \in [Servers -> [Filenames -> Data]]
    <3>1. CASE Installs(m)
      <4> DEFINE a == Applied(log[m.server], disk[m.server], o)
      <4>1. disk' = [disk EXCEPT ![m.server] = a]
        BY <1>1, <3>1 DEF Handle
      <4>2. Pending(m) \in SUBSET (DOMAIN log[m.server]) /\ o \in [Pending(m) -> Outcomes]
        BY PendingIsLogged
      <4>3. a \in [Filenames -> Data]
        BY <2>2, <4>2, AppliedIsDirectory DEF Applies
      <4> HIDE DEF a
      <4> QED BY <4>1, <4>3 DEF TypeOK
    <3>2. CASE ~Installs(m)
      BY <1>1, <3>2 DEF Handle, TypeOK
    <3> QED BY <3>1, <3>2
  <2>4. torn' \in [Servers -> SUBSET Filenames]
    <3>1. \/ torn' = torn
          \/ torn' = [torn EXCEPT ![m.server] = @ \ PathsWritten(m)]
      BY <1>1 DEF Handle
    <3> DEFINE rest == torn[m.server] \ PathsWritten(m)
    <3>2. rest \in SUBSET Filenames
      BY <2>2 DEF TypeOK
    <3>3. torn' = torn \/ torn' = [torn EXCEPT ![m.server] = rest]
      BY <3>1
    <3> HIDE DEF rest
    <3> QED BY <3>2, <3>3 DEF TypeOK
  <2>5. Missing(log[m.server], o) \subseteq Filenames
    <3>1. DOMAIN o = Pending(m)
      BY PendingIsLogged
    <3>2. Missing(log[m.server], o) \subseteq PathsWritten(m)
      BY <3>1 DEF Missing, PathsWritten
    <3> QED BY <2>2, <3>2, PathsAreFilenames
  <2>6. missed' \in [Servers -> SUBSET Filenames]
    <3>1. \/ missed' = missed
          \/ missed' = [missed EXCEPT ![m.server] =
                           (@ \ PathsWritten(m)) \cup Missing(log[m.server], o)]
      BY <1>1 DEF Handle
    <3> DEFINE now == (missed[m.server] \ PathsWritten(m)) \cup Missing(log[m.server], o)
    <3>2. now \in SUBSET Filenames
      BY <2>2, <2>5 DEF TypeOK
    <3>3. missed' = missed \/ missed' = [missed EXCEPT ![m.server] = now]
      BY <3>1
    <3> HIDE DEF now
    <3> QED BY <3>2, <3>3 DEF TypeOK
  <2>7. /\ heard' \in [Transactions -> [Servers -> {"nothing", "done", "vote_commit", "vote_abort"}]]
        /\ \A t \in Transactions, s \in Servers : heard'[t][s] # "nothing" => s \in Participants(t)
    <3>1. /\ heard' \in [Transactions -> [Servers -> {"nothing", "done", "vote_commit", "vote_abort"}]]
          /\ \A t \in Transactions, s \in Servers :
                heard'[t][s] = heard[t][s] \/ (t = m.txn /\ s = m.server)
      BY <1>1, AnswerIsHeard
    <3> QED BY <2>2, <3>1 DEF TypeOK
  <2> QED BY <1>1, <2>1, <2>3, <2>4, <2>6, <2>7, ProgramOK DEF Handle, TypeOK
<1>2. ASSUME NEW m \in net, HandleCutShort(m) PROVE TypeOK'
  <2>1. m.server \in Servers
    BY WhereRequested
  <2>0. PICK ids \in Prefixes(Pending(m)) : \E o \in [ids -> Outcomes] :
           /\ disk' = [disk EXCEPT ![m.server] = Applied(log[m.server], disk[m.server], o)]
           /\ torn' = [torn EXCEPT ![m.server] = @ \cup Touched(log[m.server], o)]
    BY <1>2 DEF HandleCutShort
  <2>2. PICK o \in [ids -> Outcomes] :
           /\ disk' = [disk EXCEPT ![m.server] = Applied(log[m.server], disk[m.server], o)]
           /\ torn' = [torn EXCEPT ![m.server] = @ \cup Touched(log[m.server], o)]
    BY <2>0
  <2>3. ids \subseteq Pending(m) /\ DOMAIN o = ids
    BY DEF Prefixes
  <2>4. disk' \in [Servers -> [Filenames -> Data]]
    <3> DEFINE a == Applied(log[m.server], disk[m.server], o)
    <3>1. ids \in SUBSET (DOMAIN log[m.server])
      BY <2>3, PendingIsLogged
    <3>2. a \in [Filenames -> Data]
      BY <2>1, <3>1, AppliedIsDirectory DEF Applies
    <3> HIDE DEF a
    <3>3. disk' = [disk EXCEPT ![m.server] = a]
      BY <2>2 DEF a
    <3> QED BY <3>2, <3>3 DEF TypeOK
  <2>5. Touched(log[m.server], o) \subseteq PathsWritten(m)
    BY <2>3 DEF Touched, PathsWritten
  <2>6. torn' \in [Servers -> SUBSET Filenames]
    BY <2>1, <2>2, <2>5, PathsAreFilenames DEF TypeOK
  <2> QED BY <1>2, <2>4, <2>6, ProgramOK DEF HandleCutShort, TypeOK
<1>3. ASSUME NEW m \in net, Lose(m) PROVE TypeOK'
  BY <1>3, ProgramOK DEF Lose, TypeOK
<1>4. ASSUME NEW t \in Transactions, Advance(t) PROVE TypeOK'
  <2>1. Program[t] \in Seq(Operations) /\ number[t] \in DOMAIN Program[t]
    BY <1>4, ProgramOK DEF Advance, Sent
  <2>2. number[t] < Len(Program[t]) =>
           /\ number[t] + 1 \in Nat
           /\ {Program[t][number[t] + 1].server} \in SUBSET Participants(t)
    BY <2>1 DEF Participants
  <2>3. Forget(t) /\ UNCHANGED <<log, disk, torn, missed, losses, timeouts>>
    BY <1>4 DEF Advance
  <2>4. \E p \in {"working", "prepare"} \cup Decisions, n \in Nat, S \in SUBSET Participants(t) :
           Enter(t, p, n, S)
    <3>1. CASE number[t] < Len(Program[t])
      <4>1. Enter(t, "working", number[t] + 1, {Program[t][number[t] + 1].server})
        BY <1>4, <3>1 DEF Advance
      <4> QED BY <2>2, <3>1, <4>1
    <3>2. CASE ~(number[t] < Len(Program[t]))
      <4>1. Enter(t, "prepare", 1, Participants(t))
        BY <1>4, <3>2 DEF Advance
      <4> QED BY <4>1
    <3> QED BY <3>1, <3>2
  <2>5. timeouts' \in 0..MaxTimeouts
    BY <2>3 DEF TypeOK
  <2> QED BY <2>3, <2>4, <2>5, SendingKeepsTypes
<1>5. ASSUME NEW t \in Transactions, Decide(t) PROVE TypeOK'
  <2>1. Forget(t) /\ UNCHANGED <<log, disk, torn, missed, losses, timeouts>>
    BY <1>5 DEF Decide
  <2>2. \E p \in {"working", "prepare"} \cup Decisions, n \in Nat, S \in SUBSET Participants(t) :
           Enter(t, p, n, S)
    <3>1. Enter(t, "global_commit", 1, Participants(t)) \/ Enter(t, "global_abort", 1, Participants(t))
      BY <1>5 DEF Decide
    <3> QED BY <3>1 DEF Decisions
  <2>3. timeouts' \in 0..MaxTimeouts
    BY <2>1 DEF TypeOK
  <2> QED BY <2>1, <2>2, <2>3, SendingKeepsTypes
<1>6. ASSUME NEW t \in Transactions, GiveUp(t) PROVE TypeOK'
  <2>1. Forget(t) /\ UNCHANGED <<log, disk, torn, missed, losses>> /\ timeouts' \in 0..MaxTimeouts
    BY <1>6, ProgramOK DEF GiveUp, TimedOut, TypeOK
  <2>2. \E p \in {"working", "prepare"} \cup Decisions, n \in Nat, S \in SUBSET Participants(t) :
           Enter(t, p, n, S)
    BY <1>6 DEF GiveUp, Decisions
  <2> QED BY <2>1, <2>2, SendingKeepsTypes
<1>7. ASSUME NEW t \in Transactions, Resend(t) PROVE TypeOK'
  <2>1. UNCHANGED <<log, disk, heard, torn, missed, losses>> /\ timeouts' \in 0..MaxTimeouts
    BY <1>7, ProgramOK DEF Resend, TimedOut, TypeOK
  <2>2. number[t] + 1 \in Nat
    BY DEF TypeOK
  <2>3. \E p \in {"working", "prepare"} \cup Decisions, n \in Nat, S \in SUBSET Participants(t) :
           Enter(t, p, n, S)
    BY <1>7, <2>2 DEF Resend, Unheard
  <2> QED BY <2>1, <2>3, SendingKeepsTypes
<1>8. ASSUME NEW t \in Transactions, Finish(t) PROVE TypeOK'
  BY <1>8 DEF Finish, TypeOK, Phases
<1>9. CASE UNCHANGED vars
  BY <1>9 DEF vars, TypeOK, Participants
<1>10. QED
  BY <1>1, <1>2, <1>3, <1>4, <1>5, <1>6, <1>7, <1>8, <1>9 DEF Next, Coordinate

(* Sending keeps the requests apart, if those that are not to arrive any more are *)
(* not on their way.                                                         *)
LEMMA EnterKeepsSent ==
    ASSUME TypeOK, Sent, NEW t \in Transactions,
           NEW p \in {"working", "prepare"} \cup Decisions, NEW n \in Nat,
           NEW S \in SUBSET Participants(t), Enter(t, p, n, S),
           \A u \in Transactions : u # t => heard'[u] = heard[u],
           \A m \in net : m.txn = t /\ m.kind = "working" => p = "global_abort",
           \A m \in net : m.txn = t /\ m.kind = "global_commit" => p = "global_commit",
           p = "working" => /\ n \in DOMAIN Program[t] /\ S = {Program[t][n].server}
                            /\ heard'[t][Program[t][n].server] = "nothing"
    PROVE  Sent'
<1>1. /\ phase'[t] = p /\ number'[t] = n
      /\ \A u \in Transactions : u # t => phase'[u] = phase[u] /\ number'[u] = number[u]
      /\ \A m \in net' : m.txn \in Transactions
      /\ \A m \in net' : m \in net \/ \E s \in S : m = Request(t, s, p, n)
  BY EnterKeepsTypes
<1>2. \A u \in Transactions : phase'[u] = "working" => number'[u] \in DOMAIN Program[u]
  BY <1>1 DEF Sent
<1>3. ASSUME NEW m \in net', m.txn # t
      PROVE  /\ m = Request(m.txn, m.server, m.kind, m.number)
             /\ m.kind = "working" => /\ m.number \in DOMAIN Program[m.txn]
                                      /\ Program[m.txn][m.number].server = m.server
                                      /\ (ToAbort(m.txn) \/ Awaited(m))'
             /\ m.kind = "global_commit" => ToCommit(m.txn)'
  <2>1. m \in net /\ m.txn \in Transactions
    BY <1>1, <1>3 DEF Request
  <2>2. /\ phase'[m.txn] = phase[m.txn] /\ number'[m.txn] = number[m.txn]
        /\ heard'[m.txn] = heard[m.txn]
    BY <1>1, <1>3, <2>1
  <2> QED BY <2>1, <2>2 DEF Sent, ToAbort, ToCommit, Awaited
<1>4. ASSUME NEW m \in net', m.txn = t, m \in net
      PROVE  /\ m = Request(m.txn, m.server, m.kind, m.number)
             /\ m.kind = "working" => /\ m.number \in DOMAIN Program[m.txn]
                                      /\ Program[m.txn][m.number].server = m.server
                                      /\ (ToAbort(m.txn) \/ Awaited(m))'
             /\ m.kind = "global_commit" => ToCommit(m.txn)'
  BY <1>1, <1>4 DEF Sent, ToAbort, ToCommit
<1>5. ASSUME NEW s \in S
      PROVE  LET m == Request(t, s, p, n) IN
             /\ m = Request(m.txn, m.server, m.kind, m.number)
             /\ m.kind = "working" => /\ m.number \in DOMAIN Program[m.txn]
                                      /\ Program[m.txn][m.number].server = m.server
                                      /\ (ToAbort(m.txn) \/ Awaited(m))'
             /\ m.kind = "global_commit" => ToCommit(m.txn)'
  <2> DEFINE m == Request(t, s, p, n)
  <2>1. m.txn = t /\ m.server = s /\ m.kind = p /\ m.number = n
    BY DEF Request
  <2> HIDE DEF m
  <2>2. p = "working" => (Awaited(m))'
    BY <1>1, <2>1 DEF Awaited
  <2>3. p = "global_commit" => (ToCommit(t))'
    BY <1>1 DEF ToCommit
  <2>4. m = Request(m.txn, m.server, m.kind, m.number)
    BY <2>1 DEF m
  <2> QED BY <2>1, <2>2, <2>3, <2>4 DEF m
<1>6. QED
  BY <1>1, <1>2, <1>3, <1>4, <1>5 DEF Sent

\* A request that is handled or lost is gone; a coordinator goes on only when the
\* operation it asked for has been answered, so that its request is gone too.
LEMMA SentStep == TypeOK /\ Sent /\ [Next]_vars => Sent'
<1> SUFFICES ASSUME TypeOK, Sent, [Next]_vars PROVE Sent'
  OBVIOUS
<1>1. ASSUME NEW m \in net, NEW row \in RowsFor(m), NEW o \in Installations(m),
             NEW d \in BOOLEAN, Handle(m, row, o, d) PROVE Sent'
  <2>1. net' = net \ {m} /\ UNCHANGED <<phase, number>>
    BY <1>1 DEF Handle
  <2>2. ASSUME NEW n \in net', n.kind = "working", ~ToAbort(n.txn) PROVE Awaited(n)'
    <3>1. n \in net /\ n # m /\ Awaited(n)
      BY <2>1, <2>2 DEF Sent
    <3>2. n = Request(n.txn, n.server, n.kind, n.number) /\ m = Request(m.txn, m.server, m.kind, m.number)
      BY <3>1 DEF Sent
    <3>3. ~(Awaited(m) /\ n.txn = m.txn /\ n.server = m.server)
      BY <3>1, <3>2 DEF Awaited
    <3>4. n.txn \in Transactions /\ n.server \in Servers
      BY <3>1, WhereRequested
    <3>5. heard'[n.txn][n.server] = heard[n.txn][n.server]
      BY <1>1, <3>3, <3>4, AnswerIsHeard
    <3> QED BY <2>1, <3>1, <3>5 DEF Awaited
  <2> QED BY <2>1, <2>2 DEF Sent, ToAbort, ToCommit
<1>2. ASSUME NEW m \in net, HandleCutShort(m) \/ Lose(m) PROVE Sent'
  BY <1>2 DEF HandleCutShort, Lose, Sent, ToAbort, ToCommit, Awaited
<1>3. ASSUME NEW t \in Transactions, Advance(t) PROVE Sent'
  <2>1. /\ phase[t] = "working" /\ number[t] \in DOMAIN Program[t]
        /\ heard[t][Current(t)] # "nothing"
    BY <1>3 DEF Advance, Sent, Current
  <2>2. Program[t] \in Seq(Operations) /\ DOMAIN Program[t] = 1..Len(Program[t]) /\ Len(Program[t]) \in Nat
    BY ProgramOK
  <2>3. \A m \in net : m.txn = t => m.kind # "working" /\ m.kind # "global_commit"
    BY <2>1 DEF Sent, Awaited, ToAbort, ToCommit, Current
  <2>4. heard' = [heard EXCEPT ![t] = [s \in Servers |-> "nothing"]]
    BY <1>3 DEF Advance, Forget
  <2>5. /\ \A u \in Transactions : u # t => heard'[u] = heard[u]
        /\ \A s \in Servers : heard'[t][s] = "nothing"
    BY <2>4 DEF TypeOK
  <2>6. CASE number[t] < Len(Program[t])
    <3> DEFINE n == number[t] + 1  s == Program[t][n].server
    <3>1. Enter(t, "working", n, {s})
      BY <1>3, <2>6 DEF Advance
    <3>2. n \in DOMAIN Program[t] /\ n \in Nat
      BY <2>1, <2>2, <2>6
    <3>3. s \in Participants(t) /\ s \in Servers
      BY <3>2, ParticipantsAreServers DEF Participants
    <3> HIDE DEF n
    <3> QED BY <2>3, <2>5, <3>1, <3>2, <3>3, EnterKeepsSent
  <2>7. CASE ~(number[t] < Len(Program[t]))
    <3>1. Enter(t, "prepare", 1, Participants(t))
      BY <1>3, <2>7 DEF Advance
    <3> QED BY <2>3, <2>5, <3>1, EnterKeepsSent
  <2> QED BY <2>6, <2>7
<1>4. ASSUME NEW t \in Transactions, Decide(t) \/ GiveUp(t) PROVE Sent'
  <2>1. phase[t] \in {"working", "prepare"}
    BY <1>4 DEF Decide, GiveUp
  <2>2. \A m \in net : m.txn = t => m.kind # "global_commit"
    BY <2>1 DEF Sent, ToCommit
  <2>3. Decide(t) => \A m \in net : m.txn = t => m.kind # "working"
    BY DEF Decide, Sent, Awaited, ToAbort
  <2>4. heard' = [heard EXCEPT ![t] = [s \in Servers |-> "nothing"]]
    BY <1>4 DEF Decide, GiveUp, Forget
  <2>5. \A u \in Transactions : u # t => heard'[u] = heard[u]
    BY <2>4 DEF TypeOK
  <2>6. \/ Decide(t) /\ Enter(t, "global_commit", 1, Participants(t))
        \/ Enter(t, "global_abort", 1, Participants(t))
    BY <1>4 DEF Decide, GiveUp
  <2>7. "global_commit" \in Decisions /\ "global_abort" \in Decisions
    BY DEF Decisions
  <2> QED BY <2>2, <2>3, <2>5, <2>6, <2>7, EnterKeepsSent
<1>5. ASSUME NEW t \in Transactions, Resend(t) PROVE Sent'
  <2>1. /\ phase[t] \in Decisions /\ UNCHANGED heard
        /\ Enter(t, phase[t], number[t] + 1, Unheard(t))
    BY <1>5 DEF Resend
  <2>2. number[t] + 1 \in Nat /\ Unheard(t) \in SUBSET Participants(t)
    BY DEF TypeOK, Unheard
  <2>3. \A m \in net : m.txn = t /\ m.kind = "working" => phase[t] = "global_abort"
    BY <2>1 DEF Sent, Awaited, ToAbort, Decisions
  <2>4. \A m \in net : m.txn = t /\ m.kind = "global_commit" => phase[t] = "global_commit"
    BY <2>1 DEF Sent, ToCommit, Decisions
  <2>5. phase[t] # "working"
    BY <2>1 DEF Decisions
  <2> QED BY <2>1, <2>2, <2>3, <2>4, <2>5, EnterKeepsSent
<1>6. ASSUME NEW t \in Transactions, Finish(t) PROVE Sent'
  BY <1>6 DEF Finish, Sent, ToAbort, ToCommit, Awaited, Decisions, TypeOK
<1>7. CASE UNCHANGED vars
  BY <1>7 DEF vars, Sent, ToAbort, ToCommit, Awaited
<1>8. QED
  BY <1>1, <1>2, <1>3, <1>4, <1>5, <1>6, <1>7 DEF Next, Coordinate

-----------------------------------------------------------------------------
(* Rows are planned, and what the coordinators heard is in the logs.       *)

(* Only handling a request changes a log.                                  *)
LEMMA OnlyHandlingLogs ==
    [Next]_vars => \/ UNCHANGED log
                   \/ \E m \in net : \E row \in RowsFor(m), o \in Installations(m), d \in BOOLEAN :
                         Handle(m, row, o, d)
BY DEF Next, vars, HandleCutShort, Lose, Coordinate, Advance, Decide, GiveUp, Resend, Finish

\* A row is inserted for a request, and requests are for what the program says.
LEMMA PlannedStep == TypeOK /\ Sent /\ Planned /\ [Next]_vars => Planned'
<1> SUFFICES ASSUME TypeOK, Sent, Planned, [Next]_vars PROVE Planned'
  OBVIOUS
<1>1. CASE UNCHANGED log
  BY <1>1 DEF Planned, Row, Participants, ProgramWrites
<1>2. ASSUME NEW m \in net, NEW row \in RowsFor(m), NEW o \in Installations(m),
             NEW d \in BOOLEAN, Handle(m, row, o, d) PROVE Planned'
  <2> DEFINE new == Len(log[m.server]) + 1
  <2>0. Inserted(m, row)
    BY <1>2 DEF Handle, Inserted
  <2>1. /\ \A s \in Servers :
              /\ DOMAIN log'[s] = IF s = m.server THEN DOMAIN log[s] \cup {new} ELSE DOMAIN log[s]
              /\ \A i \in DOMAIN log[s] : log'[s][i] = log[s][i]
        /\ log'[m.server][new] = row
    BY <1>2, <2>0, RowIsAdded
  <2>2. /\ m.server \in Participants(m.txn) /\ m.txn \in Transactions
        /\ row.transaction_id = m.txn
    BY RowOfRequest
  <2>3. ASSUME row.name = "write"
        PROVE  \E k \in ProgramWrites(m.txn, m.server, row.filename) :
                  row.data = Program[m.txn][k].data
    <3>1. m.kind = "working"
      BY <2>3, RowOfRequest DEF FileOperations
    <3>2. /\ Program[m.txn][m.number].name = "write"
          /\ row.filename = Program[m.txn][m.number].filename
          /\ row.data = Program[m.txn][m.number].data
      BY <2>3, <3>1, RowOfRequest
    <3>3. m.number \in DOMAIN Program[m.txn] /\ Program[m.txn][m.number].server = m.server
      BY <3>1 DEF Sent
    <3> QED BY <3>2, <3>3 DEF ProgramWrites
  <2> HIDE DEF new
  <2>4. ASSUME NEW s \in Servers, NEW i \in DOMAIN log[s]
        PROVE  /\ s \in Participants(log'[s][i].transaction_id)
               /\ log'[s][i].name = "write" =>
                     \E k \in ProgramWrites(log'[s][i].transaction_id, s, log'[s][i].filename) :
                        log'[s][i].data = Program[log'[s][i].transaction_id][k].data
    <3>1. log'[s][i] = log[s][i]
      BY <2>1
    <3>2. /\ s \in Participants(log[s][i].transaction_id)
          /\ log[s][i].name = "write" =>
                \E k \in ProgramWrites(log[s][i].transaction_id, s, log[s][i].filename) :
                   log[s][i].data = Program[log[s][i].transaction_id][k].data
      BY DEF Planned, Row
    <3> QED BY <3>1, <3>2
  <2>5. ASSUME NEW s \in Servers, NEW i \in DOMAIN log'[s], i \notin DOMAIN log[s]
        PROVE  /\ s \in Participants(log'[s][i].transaction_id)
               /\ log'[s][i].name = "write" =>
                     \E k \in ProgramWrites(log'[s][i].transaction_id, s, log'[s][i].filename) :
                        log'[s][i].data = Program[log'[s][i].transaction_id][k].data
    <3>1. s = m.server /\ i = new /\ log'[s][i] = row
      BY <2>1, <2>5
    <3> QED BY <2>2, <2>3, <3>1
  <2> QED BY <2>4, <2>5 DEF Planned, Row, Participants, ProgramWrites
<1>3. QED
  BY <1>1, <1>2, OnlyHandlingLogs

\* What is heard of a handler is what it has just inserted; the phases change
\* only when the answers they depend on are there.
LEMMA AnsweredStep == TypeOK /\ Sent /\ Answered /\ [Next]_vars => Answered'
<1> SUFFICES ASSUME TypeOK, Sent, Answered, [Next]_vars,
                    NEW t \in Transactions, NEW s \in Participants(t)
             PROVE  (/\ phase[t] = "prepare" /\ heard[t][s] = "vote_commit"
                           => Ids(log[s], t, "vote_commit") # {}
                     /\ ToCommit(t) => Ids(log[s], t, "vote_commit") # {}
                     /\ ToCommit(t) /\ heard[t][s] # "nothing" => Commits(s, t) # {}
                     /\ phase[t] = "committed" => heard[t][s] # "nothing"
                     /\ Commits(s, t) # {} => ToCommit(t))'
  BY DEF Answered, Participants
<1> DEFINE Goal == /\ phase[t] = "prepare" /\ heard[t][s] = "vote_commit"
                         => Ids(log[s], t, "vote_commit") # {}
                   /\ ToCommit(t) => Ids(log[s], t, "vote_commit") # {}
                   /\ ToCommit(t) /\ heard[t][s] # "nothing" => Commits(s, t) # {}
                   /\ phase[t] = "committed" => heard[t][s] # "nothing"
                   /\ Commits(s, t) # {} => ToCommit(t)
<1>1. s \in Servers
  BY ParticipantsAreServers
<1>2. Goal
  BY DEF Answered
<1>3. ASSUME NEW m \in net, NEW row \in RowsFor(m), NEW o \in Installations(m),
             NEW d \in BOOLEAN, Handle(m, row, o, d) PROVE Goal'
  <2>0. Inserted(m, row)
    BY <1>3 DEF Handle, Inserted
  <2>1. UNCHANGED phase
    BY <1>3 DEF Handle
  <2>2. ASSUME NEW name
        PROVE  /\ Ids(log[s], t, name) \subseteq Ids(log'[s], t, name)
               /\ Ids(log'[s], t, name) # Ids(log[s], t, name) => m.txn = t /\ row.name = name
               /\ s = m.server /\ m.txn = t /\ row.name = name => Ids(log'[s], t, name) # {}
    <3>1. /\ Ids(log[s], t, name) \subseteq Ids(log'[s], t, name)
          /\ s = m.server /\ m.txn = t /\ row.name = name
                => Len(log[m.server]) + 1 \in Ids(log'[s], t, name)
          /\ ~(s = m.server /\ m.txn = t /\ row.name = name)
                => Ids(log'[s], t, name) = Ids(log[s], t, name)
      BY <1>1, <2>0, IdsAreAdded
    <3> QED BY <3>1
  <2>3. /\ heard'[t][s] = heard[t][s] \/ (Awaited(m) /\ t = m.txn /\ s = m.server)
        /\ d /\ Awaited(m) => heard'[m.txn][m.server] = AnswerName(row)
        /\ AnswerName(row) # "nothing"
    BY <1>1, <1>3, AnswerIsHeard
  <2>4. ~d => heard' = heard
    BY <1>3 DEF Handle
  <2>5. Commits(s, t) # {} \/ Commits(s, t)' = {} \/ ToCommit(t)
    <3>1. row.name = "global_commit" => ToCommit(m.txn)
      BY RowOfRequest DEF Sent, Installs
    <3> QED BY <2>2, <3>1 DEF Commits
  <2>6. CASE heard'[t][s] = heard[t][s]
    BY <1>2, <2>1, <2>2, <2>5, <2>6 DEF Commits, ToCommit
  <2>7. CASE heard'[t][s] # heard[t][s]
    <3>1. /\ m.kind = phase[t] /\ t = m.txn /\ s = m.server
          /\ heard'[t][s] = AnswerName(row)
      BY <2>3, <2>4, <2>7 DEF Awaited
    <3>2. phase[t] = "prepare" /\ heard'[t][s] = "vote_commit" => row.name = "vote_commit"
      BY <3>1, RowOfRequest DEF AnswerName
    <3>3. m.kind \in {"working", "prepare"} \cup Decisions
      BY DEF TypeOK
    <3>4. ToCommit(t) => row.name = "global_commit"
      BY <3>1, <3>3, RowOfRequest DEF ToCommit, Decisions
    <3> QED BY <1>2, <2>1, <2>2, <2>3, <2>5, <3>1, <3>2, <3>4 DEF Commits, ToCommit
  <2> QED BY <2>6, <2>7
<1>4. ASSUME UNCHANGED <<log, phase, heard>> PROVE Goal'
  BY <1>2, <1>4 DEF Commits, ToCommit
<1>5. ASSUME NEW u \in Transactions, u # t, UNCHANGED log,
             \/ Advance(u) \/ Decide(u) \/ GiveUp(u) \/ Resend(u) \/ Finish(u)
      PROVE  Goal'
  <2>1. phase'[t] = phase[t] /\ heard'[t] = heard[t]
    BY <1>5 DEF Advance, Decide, GiveUp, Resend, Finish, Enter, Forget, TypeOK
  <2> QED BY <1>2, <1>5, <2>1 DEF Commits, ToCommit
<1>6. ASSUME Advance(t) \/ GiveUp(t) PROVE Goal'
  <2>1. /\ phase[t] \in {"working", "prepare"} /\ UNCHANGED log
        /\ phase'[t] \in {"working", "prepare", "global_abort"}
        /\ heard'[t][s] = "nothing"
    BY <1>1, <1>6 DEF Advance, GiveUp, Enter, Forget, TypeOK
  <2>2. Commits(s, t) = {}
    BY <1>2, <2>1 DEF ToCommit
  <2> QED BY <2>1, <2>2 DEF Commits, ToCommit
<1>7. ASSUME Decide(t) PROVE Goal'
  <2>1. /\ phase[t] = "prepare" /\ UNCHANGED log
        /\ phase'[t] = "global_commit" => heard[t][s] = "vote_commit"
        /\ phase'[t] \in {"global_commit", "global_abort"}
        /\ heard'[t][s] = "nothing"
    BY <1>1, <1>7 DEF Decide, Enter, Forget, TypeOK
  <2>2. Commits(s, t) = {}
    BY <1>2, <2>1 DEF ToCommit
  <2> QED BY <1>2, <2>1, <2>2 DEF Commits, ToCommit
<1>8. ASSUME Resend(t) PROVE Goal'
  <2>1. phase'[t] = phase[t] /\ UNCHANGED <<log, heard>>
    BY <1>8 DEF Resend, Enter, TypeOK
  <2> QED BY <1>2, <2>1 DEF Commits, ToCommit
<1>9. ASSUME Finish(t) PROVE Goal'
  <2>1. /\ UNCHANGED <<log, heard>> /\ heard[t][s] # "nothing"
        /\ \/ phase[t] = "global_commit" /\ phase'[t] = "committed"
           \/ phase[t] = "global_abort" /\ phase'[t] = "aborted"
    BY <1>9 DEF Finish, TypeOK, Unheard, Decisions
  <2> QED BY <1>2, <2>1 DEF Commits, ToCommit
<1>10. QED
  <2>1. \/ \E m \in net : \E row \in RowsFor(m), o \in Installations(m), d \in BOOLEAN :
                         Handle(m, row, o, d)
        \/ UNCHANGED <<log, phase, heard>>
        \/ \E u \in Transactions : /\ Coordinate(u) /\ UNCHANGED log
    BY DEF Next, vars, HandleCutShort, Lose, Coordinate, Advance, Decide, GiveUp, Resend, Finish
  <2> QED BY <1>3, <1>4, <1>5, <1>6, <1>7, <1>8, <1>9, <2>1 DEF Coordinate

-----------------------------------------------------------------------------
(* The last write that was answered is the last one in the log.            *)

(* The same for one transaction and file.                                  *)
LoggedFor(t, s, f) ==
    \A i \in DOMAIN Program[t] :
       Unharmed(t) /\ LastDone(t, s, f, i) =>
          \E r \in DOMAIN log[s] : /\ IsLast(log[s], t, f, r)
                                   /\ Row(s, r).data = Program[t][i].data

\* Nothing changes for t if it has no more writes in the log, and no more are done.
LEMMA LoggedFrame ==
    ASSUME NEW t \in Transactions, NEW s \in Servers, NEW f \in Filenames, LoggedFor(t, s, f),
           Unharmed(t)' => Unharmed(t),
           Unharmed(t)' => Done(t)' = Done(t),
           OwnWrites(log'[s], t, f) = OwnWrites(log[s], t, f),
           \A i \in DOMAIN log[s] : i \in DOMAIN log'[s] /\ log'[s][i] = log[s][i]
    PROVE  LoggedFor(t, s, f)'
<1> SUFFICES ASSUME NEW i \in DOMAIN Program[t], Unharmed(t)', LastDone(t, s, f, i)'
             PROVE  (\E r \in DOMAIN log[s] : /\ IsLast(log[s], t, f, r)
                                              /\ Row(s, r).data = Program[t][i].data)'
  BY DEF LoggedFor
<1>1. LastDone(t, s, f, i)
  <2>1. Done(t)' = Done(t)
    OBVIOUS
  <2> QED BY <2>1 DEF LastDone, ProgramWrites
<1>2. PICK r \in DOMAIN log[s] : IsLast(log[s], t, f, r) /\ Row(s, r).data = Program[t][i].data
  BY <1>1 DEF LoggedFor
<1>3. QED
  BY <1>2 DEF IsLast, Row

\* Only the handler of the operation that is waited for inserts a write.
LEMMA LoggedStep == TypeOK /\ Sent /\ Logged /\ [Next]_vars => Logged'
<1> SUFFICES ASSUME TypeOK, Sent, Logged, [Next]_vars,
                    NEW t \in Transactions, NEW s \in Servers, NEW f \in Filenames
             PROVE  LoggedFor(t, s, f)'
  BY DEF Logged, LoggedFor, ProgramWrites
<1>1. LoggedFor(t, s, f)
  BY DEF Logged, LoggedFor
<1>2. Program[t] \in Seq(Operations) /\ DOMAIN Program[t] = 1..Len(Program[t]) /\ Len(Program[t]) \in Nat
  BY ProgramOK
<1>3. phase[t] = "working" => number[t] \in 1..Len(Program[t]) /\ Current(t) \in Servers
  <2>1. phase[t] = "working" => number[t] \in 1..Len(Program[t])
    BY <1>2 DEF Sent
  <2>2. phase[t] = "working" => Current(t) \in Participants(t)
    BY <1>2, <2>1 DEF Current, Participants
  <2> QED BY <2>1, <2>2, ParticipantsAreServers
<1>4. ASSUME NEW m \in net, NEW row \in RowsFor(m), NEW o \in Installations(m),
             NEW d \in BOOLEAN, Handle(m, row, o, d), m.txn # t \/ m.kind # "working"
      PROVE  LoggedFor(t, s, f)'
  <2>0. Inserted(m, row)
    BY <1>4 DEF Handle, Inserted
  <2>1. /\ UNCHANGED <<phase, number>> /\ net' \subseteq net
    BY <1>4 DEF Handle
  <2>2. phase[t] = "working" => heard'[t][Current(t)] = heard[t][Current(t)]
    BY <1>3, <1>4, AnswerIsHeard DEF Awaited
  <2>3. ~(m.txn = t /\ row.name = "write")
    BY <1>4, RowOfRequest DEF FileOperations
  <2>4. OwnWrites(log'[s], t, f) = OwnWrites(log[s], t, f)
    BY <1>4, <2>0, <2>3, IdsAreAdded
  <2>5. \A i \in DOMAIN log[s] : i \in DOMAIN log'[s] /\ log'[s][i] = log[s][i]
    BY <1>4, <2>0, RowIsAdded
  <2>6. (Unharmed(t)' => Unharmed(t)) /\ Done(t)' = Done(t)
    BY <2>1, <2>2 DEF Unharmed, Done, ToAbort, Current
  <2> QED BY <1>1, <2>4, <2>5, <2>6, LoggedFrame
<1>5. ASSUME NEW m \in net, NEW row \in RowsFor(m), NEW o \in Installations(m),
             NEW d \in BOOLEAN, Handle(m, row, o, d), m.txn = t, m.kind = "working"
      PROVE  LoggedFor(t, s, f)'
  <2> DEFINE new == Len(log[m.server]) + 1
  <2> SUFFICES ASSUME NEW i \in DOMAIN Program[t], Unharmed(t)', LastDone(t, s, f, i)'
               PROVE  (\E r \in DOMAIN log[s] : /\ IsLast(log[s], t, f, r)
                                                /\ Row(s, r).data = Program[t][i].data)'
    BY DEF LoggedFor
  <2>0. Inserted(m, row)
    BY <1>5 DEF Handle, Inserted
  <2>1. UNCHANGED <<phase, number>> /\ net' = net \ {m}
    BY <1>5 DEF Handle
  <2>2. /\ phase[t] = "working" /\ number[t] = m.number /\ Current(t) = m.server
        /\ heard[t][Current(t)] = "nothing" /\ m = Request(t, Current(t), "working", number[t])
    <3>1. ~ToAbort(t)
      BY <2>1 DEF Unharmed, ToAbort
    <3> QED BY <1>5, <3>1 DEF Sent, Awaited, Current
  <2>3. heard'[t][Current(t)] # "nothing"
    BY <2>1, <2>2 DEF Unharmed, Current
  <2>4. Unharmed(t) /\ Done(t) = m.number - 1 /\ Done(t)' = m.number
    BY <2>1, <2>2, <2>3 DEF Unharmed, Done, ToAbort, Current
  <2>5. m.number \in 1..Len(Program[t])
    BY <1>3, <2>2
  <2>6. \A j \in ProgramWrites(t, s, f) : j \in 1..Len(Program[t])
    BY <1>2 DEF ProgramWrites
  <2>7. /\ i \in ProgramWrites(t, s, f) /\ i <= m.number
        /\ \A j \in ProgramWrites(t, s, f) : j <= m.number => j <= i
    BY <2>4 DEF LastDone, ProgramWrites
  <2>8. /\ DOMAIN log'[s] = IF s = m.server THEN DOMAIN log[s] \cup {new} ELSE DOMAIN log[s]
        /\ \A j \in DOMAIN log[s] : log'[s][j] = log[s][j]
        /\ log'[m.server][new] = row /\ new \in Nat
        /\ \A j \in DOMAIN log[m.server] : j < new /\ j \in Nat
    <3>1. /\ \A u \in Servers :
               /\ DOMAIN log'[u] = IF u = m.server THEN DOMAIN log[u] \cup {new} ELSE DOMAIN log[u]
               /\ \A j \in DOMAIN log[u] : j \in Nat /\ log'[u][j] = log[u][j]
          /\ log'[m.server][new] = row /\ new \in Nat
          /\ \A j \in DOMAIN log[m.server] : j < new
      BY <2>0, RowIsAdded
    <3>2. m.server \in Servers
      BY WhereRequested
    <3> HIDE DEF new
    <3> QED BY <3>1, <3>2
  <2>9. /\ row.name = Program[t][m.number].name
        /\ row.filename = Program[t][m.number].filename
        /\ row.name = "write" => row.data = Program[t][m.number].data
        /\ Program[t][m.number].server = m.server
    BY <1>5, RowOfRequest DEF Sent
  <2> HIDE DEF new
  <2>10. CASE i = m.number
    <3>1. s = m.server /\ row.name = "write" /\ row.filename = f
      BY <2>7, <2>9, <2>10 DEF ProgramWrites
    <3>2. /\ new \in OwnWrites(log'[s], t, f)
          /\ \A j \in OwnWrites(log'[s], t, f) : j \in OwnWrites(log[s], t, f) \/ j = new
      BY <1>5, <2>0, <3>1, IdsAreAdded DEF new
    <3>3. \A j \in OwnWrites(log[s], t, f) : j < new /\ j \in Nat
      BY <2>8, <3>1 DEF OwnWrites, Ids
    <3>4. \A j \in OwnWrites(log'[s], t, f) : j <= new
      BY <2>8, <3>2, <3>3
    <3>5. new \in DOMAIN log'[s] /\ log'[s][new].data = Program[t][i].data
      BY <2>8, <2>9, <2>10, <3>1
    <3> QED BY <3>2, <3>4, <3>5 DEF IsLast, Row
  <2>11. CASE i # m.number
    <3>1. m.number \notin ProgramWrites(t, s, f)
      BY <2>5, <2>6, <2>7, <2>11
    <3>2. ~(s = m.server /\ row.name = "write" /\ row.filename = f)
      BY <1>2, <2>5, <2>9, <3>1 DEF ProgramWrites
    <3>3. OwnWrites(log'[s], t, f) = OwnWrites(log[s], t, f)
      BY <1>5, <2>0, <3>2, IdsAreAdded
    <3>4. i <= m.number - 1
      BY <2>5, <2>6, <2>7, <2>11
    <3>5. \A j \in ProgramWrites(t, s, f) : j <= m.number - 1 => j <= m.number
      BY <2>5, <2>6
    <3>6. LastDone(t, s, f, i)
      BY <2>4, <2>7, <3>4, <3>5 DEF LastDone
    <3>7. PICK r \in DOMAIN log[s] : IsLast(log[s], t, f, r) /\ Row(s, r).data = Program[t][i].data
      BY <1>1, <2>4, <3>6 DEF LoggedFor
    <3> QED BY <2>8, <3>3, <3>7 DEF IsLast, Row
  <2> QED BY <2>10, <2>11
<1>6. ASSUME UNCHANGED <<log, phase, number, heard>>, net' \subseteq net PROVE LoggedFor(t, s, f)'
  <2>1. (Unharmed(t)' => Unharmed(t)) /\ Done(t)' = Done(t)
    BY <1>6 DEF Unharmed, Done, ToAbort, Current
  <2> QED BY <1>1, <1>6, <2>1, LoggedFrame
<1>7. ASSUME NEW u \in Transactions, u # t, Coordinate(u) PROVE LoggedFor(t, s, f)'
  <2>1. /\ phase'[t] = phase[t] /\ number'[t] = number[t] /\ heard'[t] = heard[t] /\ UNCHANGED log
    BY <1>7 DEF Coordinate, Advance, Decide, GiveUp, Resend, Finish, Enter, Forget, TypeOK
  <2>2. \A m \in net' : m \in net \/ m.txn = u
    BY <1>7 DEF Coordinate, Advance, Decide, GiveUp, Resend, Finish, Enter, Request
  <2>3. Request(t, Current(t), "working", number[t]) \in net'
           => Request(t, Current(t), "working", number[t]) \in net
    <3>1. Request(t, Current(t), "working", number[t]).txn = t
      BY DEF Request
    <3> QED BY <1>7, <2>2, <3>1
  <2>4. (Unharmed(t)' => Unharmed(t)) /\ Done(t)' = Done(t)
    BY <2>1, <2>3 DEF Unharmed, Done, ToAbort, Current
  <2> QED BY <1>1, <2>1, <2>4, LoggedFrame
<1>8. ASSUME Coordinate(t) PROVE LoggedFor(t, s, f)'
  <2>1. UNCHANGED log
    BY <1>8 DEF Coordinate, Advance, Decide, GiveUp, Resend, Finish
  <2>2. CASE Advance(t)
    <3>1. /\ phase[t] = "working" /\ heard[t][Current(t)] # "nothing"
      BY <2>2 DEF Advance, Current
    <3>2. Unharmed(t) /\ Done(t) = number[t]
      BY <3>1 DEF Unharmed, Done, ToAbort
    <3>3. CASE number[t] < Len(Program[t])
      <4>1. /\ phase'[t] = "working" /\ number'[t] = number[t] + 1
        BY <2>2, <3>3 DEF Advance, Enter, TypeOK
      <4>2. number'[t] \in DOMAIN Program[t]
        BY <1>2, <1>3, <3>1, <3>3, <4>1
      <4>3. Program[t][number'[t]].server \in Servers
        BY <4>2, ParticipantsAreServers DEF Participants
      <4>4. heard'[t][Program[t][number'[t]].server] = "nothing"
        BY <2>2, <4>3 DEF Advance, Forget, TypeOK
      <4>5. Done(t)' = number'[t] - 1
        BY <4>1, <4>4 DEF Done, Current
      <4>6. Done(t)' = Done(t)
        BY <1>2, <1>3, <3>1, <3>2, <4>1, <4>5
      <4> QED BY <1>1, <2>1, <3>2, <4>6, LoggedFrame
    <3>4. CASE ~(number[t] < Len(Program[t]))
      <4>1. phase'[t] = "prepare"
        BY <2>2, <3>4 DEF Advance, Enter, TypeOK
      <4>2. Done(t)' = Done(t)
        BY <1>2, <1>3, <3>1, <3>2, <3>4, <4>1 DEF Done
      <4> QED BY <1>1, <2>1, <3>2, <4>2, LoggedFrame
    <3> QED BY <3>3, <3>4
  <2>3. CASE GiveUp(t)
    <3>1. phase'[t] = "global_abort"
      BY <2>3 DEF GiveUp, Enter, TypeOK
    <3> QED BY <3>1 DEF LoggedFor, Unharmed, ToAbort
  <2>4. CASE Decide(t) \/ Resend(t) \/ Finish(t)
    <3>1. /\ phase[t] # "working" /\ phase'[t] # "working"
          /\ ~ToAbort(t)' => ~ToAbort(t)
      BY <2>4 DEF Decide, Resend, Finish, Enter, ToAbort, Decisions, TypeOK
    <3>2. (Unharmed(t)' => Unharmed(t)) /\ Done(t)' = Done(t)
      BY <3>1 DEF Unharmed, Done
    <3> QED BY <1>1, <2>1, <3>2, LoggedFrame
  <2> QED BY <1>8, <2>2, <2>3, <2>4 DEF Coordinate
<1>9. QED
  <2>1. \/ \E m \in net : \E row \in RowsFor(m), o \in Installations(m), d \in BOOLEAN :
                         Handle(m, row, o, d)
        \/ UNCHANGED <<log, phase, number, heard>> /\ net' \subseteq net
        \/ \E u \in Transactions : Coordinate(u)
    BY DEF Next, vars, HandleCutShort, Lose
  <2> QED BY <1>4, <1>5, <1>6, <1>7, <1>8, <2>1

-----------------------------------------------------------------------------
(* A file holds what the last commit to it installed.                      *)

(* Only handling a request to commit changes a file, to its end or not.    *)
LEMMA OnlyCommitsTouchFiles ==
    [Next]_vars => \/ UNCHANGED <<log, disk, torn, missed>>
                   \/ \E m \in net : \E row \in RowsFor(m), o \in Installations(m), d \in BOOLEAN :
                         Handle(m, row, o, d)
                   \/ \E m \in net : HandleCutShort(m)
BY DEF Next, vars, Lose, Coordinate, Advance, Decide, GiveUp, Resend, Finish

(* What a commit that was cut short has done to the files of its server:   *)
(* nothing to those that it had not opened yet.                            *)
LEMMA CutShortFiles ==
    ASSUME TypeOK, Sent, NEW m \in net, HandleCutShort(m)
    PROVE  /\ UNCHANGED <<log, missed>>
           /\ \A s \in Servers : s # m.server => disk'[s] = disk[s] /\ torn'[s] = torn[s]
           /\ torn[m.server] \subseteq torn'[m.server]
           /\ \A f \in torn'[m.server] : f \in torn[m.server] \/ f \in PathsWritten(m)
           /\ \A f \in Filenames :
                 \/ disk'[m.server][f] = disk[m.server][f]
                 \/ f \in torn'[m.server] /\ disk'[m.server][f] = Empty
                 \/ /\ f \in torn'[m.server]
                    /\ \E i \in OwnWrites(log[m.server], m.txn, f) :
                          disk'[m.server][f] = log[m.server][i].data
<1> DEFINE s == m.server
           l == log[m.server]
<1>1. s \in Servers
  BY WhereRequested
<1>0. PICK ids \in Prefixes(Pending(m)) : \E o \in [ids -> Outcomes] :
         /\ disk' = [disk EXCEPT ![s] = Applied(l, disk[s], o)]
         /\ torn' = [torn EXCEPT ![s] = @ \cup Touched(l, o)]
  BY DEF HandleCutShort
<1>2. PICK o \in [ids -> Outcomes] :
         /\ disk' = [disk EXCEPT ![s] = Applied(l, disk[s], o)]
         /\ torn' = [torn EXCEPT ![s] = @ \cup Touched(l, o)]
  BY <1>0
<1>3. ids \subseteq Pending(m) /\ DOMAIN o = ids
  BY DEF Prefixes
<1> DEFINE a == Applied(l, disk[s], o)
<1>4. /\ \A u \in Servers : u # s => disk'[u] = disk[u] /\ torn'[u] = torn[u]
      /\ disk'[s] = a /\ torn'[s] = torn[s] \cup Touched(l, o)
  <2> HIDE DEF a
  <2>1. disk' = [disk EXCEPT ![s] = a]
    BY <1>2 DEF a
  <2> QED BY <1>1, <1>2, <2>1 DEF TypeOK
<1>5. \A f \in Filenames :
         \/ f \notin Touched(l, o) /\ a[f] = disk[s][f]
         \/ f \in Touched(l, o) /\ a[f] = Empty
         \/ f \in Touched(l, o) /\ \E i \in DOMAIN o : l[i].filename = f /\ a[f] = l[i].data
  <2>1. ids \in SUBSET (DOMAIN l)
    BY <1>3, PendingIsLogged
  <2>2. Applies(a, l, disk[s], o)
    BY <1>1, <2>1, AppliedIsDirectory
  <2> HIDE DEF a
  <2> QED BY <2>2 DEF Applies
<1> HIDE DEF a
<1>6. \A f : f \in Touched(l, o) => f \in PathsWritten(m)
  BY <1>3 DEF Touched, PathsWritten
<1>7. \A f : \A i \in DOMAIN o : l[i].filename = f => i \in OwnWrites(l, m.txn, f)
  BY <1>3 DEF OwnWrites, Pending, PendingWrites
<1>8. UNCHANGED <<log, missed>>
  BY DEF HandleCutShort
<1>9. QED
  BY <1>4, <1>5, <1>6, <1>7, <1>8

(* What a commit that is recorded has done to them.                        *)
LEMMA CommitFiles ==
    ASSUME TypeOK, Sent, NEW m \in net, NEW row \in RowsFor(m), NEW o \in Installations(m),
           NEW d \in BOOLEAN, Handle(m, row, o, d)
    PROVE  /\ ~Installs(m) => UNCHANGED <<disk, torn, missed>>
           /\ \A s \in Servers : s # m.server =>
                 disk'[s] = disk[s] /\ torn'[s] = torn[s] /\ missed'[s] = missed[s]
           /\ Installs(m) =>
                 /\ torn'[m.server] = torn[m.server] \ PathsWritten(m)
                 /\ \A f \in Filenames : OwnWrites(log[m.server], m.txn, f) = {} =>
                       /\ f \notin PathsWritten(m)
                       /\ disk'[m.server][f] = disk[m.server][f]
                       /\ f \in missed[m.server] => f \in missed'[m.server]
                 /\ \A f \in Filenames :
                       OwnWrites(log[m.server], m.txn, f) # {} /\ f \notin missed'[m.server] =>
                          \E i \in DOMAIN log[m.server] :
                             /\ IsLast(log[m.server], m.txn, f, i)
                             /\ disk'[m.server][f] = log[m.server][i].data
                 /\ \A f \in Filenames :
                       \/ disk'[m.server][f] \in {disk[m.server][f], Empty}
                       \/ \E i \in OwnWrites(log[m.server], m.txn, f) :
                             disk'[m.server][f] = log[m.server][i].data
<1> DEFINE s == m.server
           l == log[m.server]
           a == Applied(l, disk[m.server], o)
<1>1. s \in Servers
  BY WhereRequested
<1>2. CASE ~Installs(m)
  BY <1>2 DEF Handle
<1>3. CASE Installs(m)
  <2>1. /\ disk' = [disk EXCEPT ![s] = a]
        /\ torn' = [torn EXCEPT ![s] = @ \ PathsWritten(m)]
        /\ missed' = [missed EXCEPT ![s] = (@ \ PathsWritten(m)) \cup Missing(l, o)]
    BY <1>3 DEF Handle
  <2>2. DOMAIN o = Pending(m) /\ o \in [Pending(m) -> Outcomes] /\ Pending(m) \in SUBSET (DOMAIN l)
    BY PendingIsLogged
  <2>3. Applies(a, l, disk[s], o)
    BY <1>1, <2>2, AppliedIsDirectory
  <2> HIDE DEF a
  <2>4. /\ \A u \in Servers : u # s =>
              disk'[u] = disk[u] /\ torn'[u] = torn[u] /\ missed'[u] = missed[u]
        /\ disk'[s] = a /\ torn'[s] = torn[s] \ PathsWritten(m)
        /\ missed'[s] = (missed[s] \ PathsWritten(m)) \cup Missing(l, o)
    BY <1>1, <2>1 DEF TypeOK
  <2>5. \A f : OwnWrites(l, m.txn, f) = {i \in DOMAIN o : l[i].filename = f}
    BY <2>2 DEF OwnWrites, Pending, PendingWrites
  <2>6. \A f : f \in PathsWritten(m) <=> OwnWrites(l, m.txn, f) # {}
    BY PendingIsLogged
  <2>7. \A f : f \in Touched(l, o) => OwnWrites(l, m.txn, f) # {}
    BY <2>5 DEF Touched
  <2>8. ASSUME NEW f \in Filenames
        PROVE  \/ a[f] \in {disk[s][f], Empty}
               \/ \E i \in OwnWrites(l, m.txn, f) : a[f] = l[i].data
    BY <2>3, <2>5 DEF Applies
  <2>9. ASSUME NEW f \in Filenames, OwnWrites(l, m.txn, f) = {}
        PROVE  f \notin PathsWritten(m) /\ a[f] = disk[s][f]
    BY <2>3, <2>6, <2>7, <2>9 DEF Applies
  <2>10. ASSUME NEW f \in Filenames, OwnWrites(l, m.txn, f) # {}, f \notin Missing(l, o)
         PROVE  \E i \in DOMAIN l : IsLast(l, m.txn, f, i) /\ a[f] = l[i].data
    <3> DEFINE own == OwnWrites(l, m.txn, f)  i == Max(own)
    <3>1. own \subseteq 1..Len(l) /\ Len(l) \in Nat
      BY <1>1 DEF TypeOK, OwnWrites, Ids
    <3>2. i \in own /\ \A j \in own : j <= i
      BY <2>10, <3>1, MaxOfIds
    <3> HIDE DEF i
    <3>3. /\ i \in DOMAIN o /\ l[i].filename = f
          /\ \A j \in DOMAIN o : l[j].filename = f => j <= i
      BY <2>5, <3>2
    <3>4. o[i] = "written"
      BY <2>10, <3>3 DEF Missing
    <3>5. a[f] = l[i].data
      BY <2>3, <3>3, <3>4 DEF Applies
    <3> QED BY <2>2, <3>2, <3>3, <3>5 DEF IsLast
  <2> QED BY <1>3, <2>4, <2>8, <2>9, <2>10
<1>4. QED
  BY <1>2, <1>3

\* A commit installs the last write to each file; nothing is written after it.
LEMMA InstalledStep == TypeOK /\ Sent /\ Answered /\ Installed /\ [Next]_vars => Installed'
<1> SUFFICES ASSUME TypeOK, Sent, Answered, Installed, [Next]_vars,
                    NEW t \in Transactions, NEW s \in Servers, NEW f \in Filenames,
                    NEW r \in DOMAIN log'[s],
                    IsLast(log'[s], t, f, r), Commits(s, t)' # {},
                    f \notin torn'[s], f \notin missed'[s]
             PROVE  disk'[s][f] = log'[s][r].data \/ CommittedLater(t, s, f)'
  BY DEF Installed, Row
<1>1. ASSUME r \in DOMAIN log[s], IsLast(log[s], t, f, r), Commits(s, t) # {},
             f \notin torn[s], f \notin missed[s]
      PROVE  disk[s][f] = log[s][r].data \/ CommittedLater(t, s, f)
  BY <1>1 DEF Installed, Row
<1>2. CASE /\ log'[s] = log[s] /\ disk'[s] = disk[s]
            /\ torn'[s] = torn[s] /\ missed'[s] = missed[s]
  BY <1>1, <1>2 DEF Commits, CommittedLater, Row
<1>3. ASSUME NEW m \in net, HandleCutShort(m), m.server = s
      PROVE  disk'[s][f] = log'[s][r].data \/ CommittedLater(t, s, f)'
  <2>1. UNCHANGED <<log, missed>> /\ f \notin torn[s]
    BY <1>3, CutShortFiles
  <2>2. disk'[s][f] = disk[s][f]
    BY <1>3, <2>1, CutShortFiles
  <2> QED BY <1>1, <2>1, <2>2 DEF Commits, CommittedLater, Row
<1>4. ASSUME NEW m \in net, NEW row \in RowsFor(m), NEW o \in Installations(m),
             NEW d \in BOOLEAN, Handle(m, row, o, d), m.server = s
      PROVE  disk'[s][f] = log'[s][r].data \/ CommittedLater(t, s, f)'
  <2> DEFINE new == Len(log[s]) + 1
  <2>0. Inserted(m, row)
    BY <1>4 DEF Handle, Inserted
  <2>1. /\ DOMAIN log'[s] = DOMAIN log[s] \cup {new}
        /\ \A j \in DOMAIN log[s] : log'[s][j] = log[s][j] /\ j \in Nat /\ j < new
        /\ log'[s][new] = row /\ new \in Nat
    BY <1>4, <2>0, RowIsAdded
  <2>2. \A u : OwnWrites(log[s], u, f) \subseteq OwnWrites(log'[s], u, f)
    BY <1>4, <2>0, IdsAreAdded
  <2>3. row.transaction_id = m.txn /\ (row.name = "global_commit" <=> Installs(m))
    BY RowOfRequest
  <2> HIDE DEF new
  <2>4. ASSUME CommittedLater(t, s, f), Commits(s, t)' = Commits(s, t) PROVE CommittedLater(t, s, f)'
    <3>1. PICK cu \in DOMAIN log[s] :
             /\ \A c \in Commits(s, t) : c < cu
             /\ log[s][cu].name = "global_commit"
             /\ OwnWrites(log[s], log[s][cu].transaction_id, f) # {}
      BY <2>4 DEF CommittedLater, Row
    <3>2. OwnWrites(log'[s], log'[s][cu].transaction_id, f) # {}
      BY <2>1, <2>2, <3>1
    <3> QED BY <2>1, <2>4, <3>1, <3>2 DEF CommittedLater, Row
  <2>5. CASE ~Installs(m)
    <3>1. UNCHANGED <<disk, torn, missed>>
      BY <1>4, <2>5, CommitFiles
    <3>2. Commits(s, t)' = Commits(s, t)
      BY <1>4, <2>0, <2>3, <2>5, IdsAreAdded DEF Commits
    <3>3. OwnWrites(log'[s], t, f) = OwnWrites(log[s], t, f)
      <4>1. SUFFICES ASSUME m.txn = t, row.name = "write" PROVE FALSE
        BY <1>4, <2>0, IdsAreAdded
      <4>2. m.kind = "working" /\ s \in Participants(t)
        BY <1>4, <4>1, RowOfRequest DEF FileOperations
      <4>3. ToCommit(t)
        BY <3>2, <4>2 DEF Answered
      <4>4. ToAbort(t) \/ phase[t] = "working"
        BY <4>1, <4>2 DEF Sent, Awaited
      <4> QED BY <4>3, <4>4 DEF ToCommit, ToAbort
    <3>4. r \in DOMAIN log[s] /\ IsLast(log[s], t, f, r)
      BY <3>3 DEF IsLast, OwnWrites, Ids
    <3>5. disk[s][f] = log[s][r].data \/ CommittedLater(t, s, f)
      BY <1>1, <3>1, <3>2, <3>4
    <3> QED BY <2>1, <2>4, <3>1, <3>2, <3>4, <3>5
  <2>6. CASE Installs(m)
    <3>1. row.name = "global_commit" /\ row.name # "write"
      BY <2>3, <2>6
    <3>2. \A u : OwnWrites(log'[s], u, f) = OwnWrites(log[s], u, f)
      BY <1>4, <2>0, <3>1, IdsAreAdded
    <3>3. r \in DOMAIN log[s] /\ IsLast(log[s], t, f, r)
      BY <3>2 DEF IsLast, OwnWrites, Ids
    <3>4. CASE OwnWrites(log[s], m.txn, f) = {}
      <4>1. disk'[s][f] = disk[s][f] /\ f \notin torn[s] /\ f \notin missed[s]
        BY <1>4, <2>6, <3>4, CommitFiles DEF IsLast
      <4>2. m.txn # t
        BY <3>3, <3>4 DEF IsLast
      <4>3. Commits(s, t)' = Commits(s, t)
        BY <1>4, <2>0, <4>2, IdsAreAdded DEF Commits
      <4>4. disk[s][f] = log[s][r].data \/ CommittedLater(t, s, f)
        BY <1>1, <3>3, <4>1, <4>3
      <4> QED BY <2>1, <2>4, <3>3, <4>1, <4>3, <4>4
    <3>5. CASE OwnWrites(log[s], m.txn, f) # {} /\ m.txn # t
      <4>1. Commits(s, t)' = Commits(s, t)
        BY <1>4, <2>0, <3>5, IdsAreAdded DEF Commits
      <4>2. \A c \in Commits(s, t)' : c < new
        BY <2>1, <4>1 DEF Commits, Ids
      <4>3. new \in DOMAIN log'[s] /\ log'[s][new].name = "global_commit"
            /\ log'[s][new].transaction_id = m.txn
        BY <2>1, <2>3, <3>1
      <4> QED BY <3>2, <3>5, <4>2, <4>3 DEF CommittedLater, Row
    <3>6. CASE OwnWrites(log[s], m.txn, f) # {} /\ m.txn = t
      <4>1. PICK i \in DOMAIN log[s] : /\ IsLast(log[s], t, f, i)
                                       /\ disk'[s][f] = log[s][i].data
        BY <1>4, <2>6, <3>6, CommitFiles
      <4>2. i <= r /\ r <= i
        BY <3>3, <4>1 DEF IsLast
      <4>3. i = r
        BY <2>1, <3>3, <4>2
      <4> QED BY <2>1, <3>3, <4>1, <4>3
    <3> QED BY <3>4, <3>5, <3>6
  <2> QED BY <2>5, <2>6
<1>5. ASSUME NEW m \in net, NEW row \in RowsFor(m), NEW o \in Installations(m),
             NEW d \in BOOLEAN, Handle(m, row, o, d), m.server # s
      PROVE  /\ log'[s] = log[s] /\ disk'[s] = disk[s]
             /\ torn'[s] = torn[s] /\ missed'[s] = missed[s]
  <2>1. log'[s] = log[s]
    BY <1>5 DEF Handle, TypeOK
  <2> QED BY <1>5, <2>1, CommitFiles
<1>6. ASSUME NEW m \in net, HandleCutShort(m), m.server # s
      PROVE  /\ log'[s] = log[s] /\ disk'[s] = disk[s]
             /\ torn'[s] = torn[s] /\ missed'[s] = missed[s]
  BY <1>6, CutShortFiles
<1>7. QED
  BY <1>2, <1>3, <1>4, <1>5, <1>6, OnlyCommitsTouchFiles

-----------------------------------------------------------------------------
(* Commit requests, and the files they may leave torn, are waited for.     *)
LEMMA CommitsAwaitedStep ==
    TypeOK /\ Sent /\ CommitsAwaited /\ [Next]_vars => CommitsAwaited'
<1> SUFFICES ASSUME TypeOK, Sent, CommitsAwaited, [Next]_vars, timeouts' = 0,
                    NEW n \in net', n.kind = "global_commit"
             PROVE  Awaited(n)'
  BY DEF CommitsAwaited
<1>1. ASSUME NEW m \in net, NEW row \in RowsFor(m), NEW o \in Installations(m),
             NEW d \in BOOLEAN, Handle(m, row, o, d) PROVE Awaited(n)'
  <2>1. net' = net \ {m} /\ UNCHANGED <<phase, number, timeouts>>
    BY <1>1 DEF Handle
  <2>2. n \in net /\ n # m /\ Awaited(n)
    BY <2>1 DEF CommitsAwaited
  <2>3. n = Request(n.txn, n.server, n.kind, n.number) /\ m = Request(m.txn, m.server, m.kind, m.number)
    BY <2>2 DEF Sent
  <2>4. ~(Awaited(m) /\ n.txn = m.txn /\ n.server = m.server)
    BY <2>2, <2>3 DEF Awaited
  <2>5. n.txn \in Transactions /\ n.server \in Servers
    BY <2>2, WhereRequested
  <2>6. heard'[n.txn][n.server] = heard[n.txn][n.server]
    BY <1>1, <2>4, <2>5, AnswerIsHeard
  <2> QED BY <2>1, <2>2, <2>6 DEF Awaited
<1>2. ASSUME net' \subseteq net, UNCHANGED <<phase, number, heard, timeouts>> PROVE Awaited(n)'
  BY <1>2 DEF CommitsAwaited, Awaited
<1>3. ASSUME NEW t \in Transactions, Coordinate(t), n.txn # t PROVE Awaited(n)'
  <2>1. n \in net
    BY <1>3 DEF Coordinate, Advance, Decide, GiveUp, Resend, Finish, Enter, Request
  <2>2. n.txn \in Transactions
    BY <2>1 DEF TypeOK
  <2>3. /\ phase'[n.txn] = phase[n.txn] /\ number'[n.txn] = number[n.txn]
        /\ heard'[n.txn] = heard[n.txn]
    BY <1>3, <2>2 DEF Coordinate, Advance, Decide, GiveUp, Resend, Finish, Enter, Forget, TypeOK
  <2>4. timeouts = 0
    BY <1>3 DEF Coordinate, Advance, Decide, GiveUp, Resend, Finish, TimedOut, TypeOK
  <2> QED BY <2>1, <2>3, <2>4 DEF CommitsAwaited, Awaited
<1>4. ASSUME NEW t \in Transactions, Advance(t) \/ GiveUp(t), n.txn = t PROVE Awaited(n)'
  <2>1. phase[t] \in {"working", "prepare"}
    BY <1>4 DEF Advance, GiveUp
  <2>2. n \notin net
    BY <1>4, <2>1 DEF Sent, ToCommit
  <2>3. n.kind # "global_commit"
    BY <1>4, <2>2 DEF Advance, GiveUp, Enter, Request
  <2> QED BY <2>3
<1>5. ASSUME NEW t \in Transactions, Decide(t), n.txn = t PROVE Awaited(n)'
  <2>1. n \notin net
    BY <1>5 DEF Sent, ToCommit, Decide
  <2>2. Enter(t, "global_commit", 1, Participants(t))
    BY <1>5, <2>1 DEF Decide, Enter, Request
  <2>3. /\ n.server \in Participants(t) /\ n.number = 1
        /\ phase'[t] = "global_commit" /\ number'[t] = 1
    BY <2>1, <2>2 DEF Enter, Request, TypeOK
  <2>4. heard'[t][n.server] = "nothing"
    BY <1>5, <2>3, ParticipantsAreServers DEF Decide, Forget, TypeOK
  <2> QED BY <1>5, <2>3, <2>4 DEF Awaited
<1>6. ASSUME NEW t \in Transactions, Resend(t), n.txn = t PROVE Awaited(n)'
  <2>1. timeouts = 0 /\ Outstanding(t) = {}
    BY <1>6 DEF Resend, TimedOut, TypeOK
  <2>2. n \notin net
    BY <1>6, <2>1 DEF CommitsAwaited, Outstanding
  <2>3. Enter(t, phase[t], number[t] + 1, Unheard(t)) /\ UNCHANGED heard
    BY <1>6 DEF Resend
  <2>4. /\ n.server \in Unheard(t) /\ n.number = number[t] + 1 /\ n.kind = phase[t]
    BY <2>2, <2>3 DEF Enter, Request
  <2>5. phase'[t] = phase[t] /\ number'[t] = number[t] + 1
    BY <2>3 DEF Enter, TypeOK
  <2> QED BY <1>6, <2>3, <2>4, <2>5 DEF Awaited, Unheard
<1>7. ASSUME NEW t \in Transactions, Finish(t), n.txn = t PROVE Awaited(n)'
  <2>1. n \in net /\ timeouts = 0
    BY <1>7 DEF Finish
  <2>2. Awaited(n) /\ n.server \in Participants(t)
    BY <1>7, <2>1 DEF CommitsAwaited, TypeOK
  <2>3. n.server \in Unheard(t)
    BY <1>7, <2>2 DEF Awaited, Unheard
  <2> QED BY <1>7, <2>3 DEF Finish
<1>8. QED
  <2>1. \/ \E m \in net : \E row \in RowsFor(m), o \in Installations(m), d \in BOOLEAN :
                         Handle(m, row, o, d)
        \/ net' \subseteq net /\ UNCHANGED <<phase, number, heard, timeouts>>
        \/ \E t \in Transactions : Coordinate(t)
    BY DEF Next, vars, HandleCutShort, Lose
  <2> QED BY <1>1, <1>2, <1>3, <1>4, <1>5, <1>6, <1>7, <2>1 DEF Coordinate

\* The last of the writes of a program to a file.
LEMMA LastOfProgram ==
    ASSUME NEW t \in Transactions, NEW s, NEW f, ProgramWrites(t, s, f) # {}
    PROVE  LET i == Max(ProgramWrites(t, s, f)) IN
           /\ i \in ProgramWrites(t, s, f) /\ i \in 1..Len(Program[t])
           /\ \A j \in ProgramWrites(t, s, f) : j <= i
<1>1. DOMAIN Program[t] = 1..Len(Program[t]) /\ Len(Program[t]) \in Nat
  BY ProgramOK
<1>2. ProgramWrites(t, s, f) \subseteq 1..Len(Program[t])
  BY <1>1 DEF ProgramWrites
<1>3. QED
  BY <1>1, <1>2, MaxOfIds

(* When all operations of a transaction are done, the last write of its    *)
(* program is its last write in the log.                                   *)
LEMMA LastWriteIsLogged ==
    ASSUME TypeOK, Logged, NEW t \in Transactions, NEW s \in Servers, NEW f \in Filenames,
           ToCommit(t), ProgramWrites(t, s, f) # {}
    PROVE  \E r \in DOMAIN log[s] :
              /\ IsLast(log[s], t, f, r)
              /\ Row(s, r).data = Program[t][Max(ProgramWrites(t, s, f))].data
<1> DEFINE i == Max(ProgramWrites(t, s, f))
<1>1. /\ i \in ProgramWrites(t, s, f) /\ i \in 1..Len(Program[t])
      /\ \A j \in ProgramWrites(t, s, f) : j <= i
  BY LastOfProgram
<1> HIDE DEF i
<1>2. Unharmed(t) /\ Done(t) = Len(Program[t])
  BY DEF ToCommit, Unharmed, ToAbort, Done
<1>3. Len(Program[t]) \in Nat /\ DOMAIN Program[t] = 1..Len(Program[t])
  BY ProgramOK
<1>4. LastDone(t, s, f, i)
  BY <1>1, <1>2, <1>3 DEF LastDone
<1>5. QED
  BY <1>1, <1>2, <1>3, <1>4 DEF Logged, i

\* A commit that is cut short was waited for; one that is answered has written
\* all its files again.
LEMMA TornStep ==
    /\ TypeOK /\ Sent /\ Planned /\ Logged /\ CommitsAwaited /\ TornFilesAreWaitedFor
    /\ [Next]_vars
    => TornFilesAreWaitedFor'
<1> SUFFICES ASSUME TypeOK, Sent, Planned, Logged, CommitsAwaited, TornFilesAreWaitedFor, [Next]_vars,
                    NEW s \in Servers, NEW f \in torn'[s], timeouts' = 0
             PROVE  \E t \in Transactions :
                       /\ phase'[t] = "global_commit" /\ heard'[t][s] = "nothing"
                       /\ ProgramWrites(t, s, f) # {}
  BY DEF TornFilesAreWaitedFor, ProgramWrites
<1>1. timeouts = 0
  <2>1. ASSUME NEW t \in Transactions, TimedOut(t) PROVE timeouts = 0
    BY <2>1 DEF TimedOut, TypeOK
  <2>2. ASSUME NEW t \in Transactions, Coordinate(t) PROVE timeouts = 0
    BY <2>1, <2>2 DEF Coordinate, Advance, Decide, GiveUp, Resend, Finish
  <2>3. UNCHANGED timeouts \/ \E t \in Transactions : Coordinate(t)
    BY DEF Next, vars, Handle, HandleCutShort, Lose
  <2> QED BY <2>2, <2>3
<1>2. ASSUME f \in torn[s]
      PROVE  \E t \in Transactions :
                /\ phase[t] = "global_commit" /\ heard[t][s] = "nothing"
                /\ ProgramWrites(t, s, f) # {}
  BY <1>1, <1>2 DEF TornFilesAreWaitedFor
<1>3. ASSUME NEW m \in net, NEW row \in RowsFor(m), NEW o \in Installations(m),
             NEW d \in BOOLEAN, Handle(m, row, o, d)
      PROVE  \E t \in Transactions :
                /\ phase'[t] = "global_commit" /\ heard'[t][s] = "nothing"
                /\ ProgramWrites(t, s, f) # {}
  <2>0. /\ ~Installs(m) => torn' = torn
        /\ s # m.server => torn'[s] = torn[s]
        /\ Installs(m) => torn'[m.server] = torn[m.server] \ PathsWritten(m)
    BY <1>3, CommitFiles
  <2>1. f \in torn[s] /\ UNCHANGED phase
    <3>1. UNCHANGED phase
      BY <1>3 DEF Handle
    <3> QED BY <2>0, <3>1
  <2>2. PICK t \in Transactions : /\ phase[t] = "global_commit" /\ heard[t][s] = "nothing"
                                  /\ ProgramWrites(t, s, f) # {}
    BY <1>2, <2>1
  <2>3. SUFFICES ASSUME heard'[t][s] # "nothing" PROVE FALSE
    BY <2>1, <2>2
  <2>4. Awaited(m) /\ t = m.txn /\ s = m.server
    BY <1>3, <2>2, <2>3, AnswerIsHeard
  <2>5. Installs(m)
    BY <2>2, <2>4 DEF Awaited, Installs
  <2>6. f \in Filenames
    BY <2>1 DEF TypeOK
  <2>7. \E r \in DOMAIN log[s] : IsLast(log[s], t, f, r)
    BY <2>2, <2>6, LastWriteIsLogged DEF ToCommit
  <2>8. f \in PathsWritten(m)
    BY <2>4, <2>7, PendingIsLogged DEF IsLast
  <2> QED BY <2>0, <2>4, <2>5, <2>8
<1>4. ASSUME NEW m \in net, HandleCutShort(m)
      PROVE  \E t \in Transactions :
                /\ phase'[t] = "global_commit" /\ heard'[t][s] = "nothing"
                /\ ProgramWrites(t, s, f) # {}
  <2>1. UNCHANGED <<phase, heard>>
    BY <1>4 DEF HandleCutShort
  <2>2. CASE f \in torn[s]
    BY <1>2, <2>1, <2>2
  <2>3. CASE f \notin torn[s]
    <3>1. s = m.server /\ f \in PathsWritten(m)
      BY <1>4, <2>3, CutShortFiles
    <3>2. PICK i \in Ids(log[s], m.txn, "write") : log[s][i].filename = f
      BY <3>1 DEF PathsWritten, Pending, PendingWrites
    <3>3. ProgramWrites(m.txn, s, f) # {}
      BY <3>2 DEF Planned, Row, Ids
    <3>4. Awaited(m) /\ m.kind = "global_commit" /\ m.txn \in Transactions
      BY <1>1, <1>4 DEF CommitsAwaited, HandleCutShort, Installs, TypeOK
    <3> QED BY <2>1, <3>1, <3>3, <3>4 DEF Awaited
  <2> QED BY <2>2, <2>3
<1>5. ASSUME UNCHANGED <<phase, heard, torn>>
      PROVE  \E t \in Transactions :
                /\ phase'[t] = "global_commit" /\ heard'[t][s] = "nothing"
                /\ ProgramWrites(t, s, f) # {}
  BY <1>2, <1>5
<1>6. ASSUME NEW u \in Transactions, Coordinate(u)
      PROVE  \E t \in Transactions :
                /\ phase'[t] = "global_commit" /\ heard'[t][s] = "nothing"
                /\ ProgramWrites(t, s, f) # {}
  <2>1. UNCHANGED torn
    BY <1>6 DEF Coordinate, Advance, Decide, GiveUp, Resend, Finish
  <2>2. PICK t \in Transactions : /\ phase[t] = "global_commit" /\ heard[t][s] = "nothing"
                                  /\ ProgramWrites(t, s, f) # {}
    BY <1>2, <2>1
  <2>3. CASE u # t
    BY <1>6, <2>2, <2>3
       DEF Coordinate, Advance, Decide, GiveUp, Resend, Finish, Enter, Forget, TypeOK
  <2>4. CASE u = t
    <3>1. ~Finish(t)
      BY <2>2 DEF Finish, Unheard, ProgramWrites, Participants
    <3>2. Resend(t)
      BY <1>6, <2>2, <2>4, <3>1 DEF Coordinate, Advance, Decide, GiveUp
    <3>3. phase'[t] = phase[t] /\ UNCHANGED heard
      BY <3>2 DEF Resend, Enter, TypeOK
    <3> QED BY <2>2, <3>3
  <2> QED BY <2>3, <2>4
<1>7. QED
  BY <1>3, <1>4, <1>5, <1>6 DEF Next, vars, Lose

-----------------------------------------------------------------------------
(* Votes, and what may be seen.                                            *)
LEMMA VotesStep == TypeOK /\ Sent /\ VotesWereChecked /\ [Next]_vars => VotesWereChecked'
<1> SUFFICES ASSUME TypeOK, Sent, VotesWereChecked, [Next]_vars,
                    NEW s \in Servers,
                    NEW v \in DOMAIN log'[s], NEW i \in DOMAIN log'[s], NEW o \in DOMAIN log'[s],
                    NEW cu \in DOMAIN log'[s], NEW k \in DOMAIN log'[s],
                    log'[s][v].name = "vote_commit", i < v, o < v, cu < v,
                    IsFirst(log'[s], log'[s][v].transaction_id, "read", i),
                    log'[s][o].name = "write", log'[s][o].filename = log'[s][i].filename,
                    log'[s][o].transaction_id # log'[s][v].transaction_id,
                    k < o, log'[s][k].transaction_id = log'[s][v].transaction_id,
                    log'[s][cu].name = "global_commit"
             PROVE  log'[s][cu].transaction_id # log'[s][o].transaction_id
  BY DEF VotesWereChecked, Row
<1>1. CASE log'[s] = log[s]
  BY <1>1 DEF VotesWereChecked, Row
<1>2. ASSUME NEW m \in net, NEW row \in RowsFor(m), NEW out \in Installations(m),
             NEW d \in BOOLEAN, Handle(m, row, out, d), m.server = s
      PROVE  log'[s][cu].transaction_id # log'[s][o].transaction_id
  <2> DEFINE new == Len(log[s]) + 1  t == log'[s][v].transaction_id
  <2>0. Inserted(m, row)
    BY <1>2 DEF Handle, Inserted
  <2>1. /\ DOMAIN log'[s] = DOMAIN log[s] \cup {new}
        /\ \A j \in DOMAIN log[s] : log'[s][j] = log[s][j] /\ j \in Nat /\ j < new
        /\ log'[s][new] = row /\ new \in Nat
    BY <1>2, <2>0, RowIsAdded
  <2> HIDE DEF new, t
  <2>2. /\ i \in DOMAIN log[s] /\ o \in DOMAIN log[s] /\ cu \in DOMAIN log[s] /\ k \in DOMAIN log[s]
    BY <2>1
  <2>3. \A j : j \in Ids(log[s], t, "read") => j \in Ids(log'[s], t, "read")
    BY <1>2, <2>0, IdsAreAdded
  <2>4. IsFirst(log[s], t, "read", i)
    <3>1. i \in Ids(log[s], t, "read")
      BY <2>1, <2>2 DEF IsFirst, Ids, t
    <3> QED BY <2>3, <3>1 DEF IsFirst, t
  <2>5. CASE v \in DOMAIN log[s]
    <3>1. /\ log[s][v] = log'[s][v] /\ log[s][i] = log'[s][i] /\ log[s][o] = log'[s][o]
          /\ log[s][cu] = log'[s][cu] /\ log[s][k] = log'[s][k]
      BY <2>1, <2>2, <2>5
    <3> QED BY <2>2, <2>4, <2>5, <3>1 DEF VotesWereChecked, Row, t
  <2>6. CASE v = new
    <3>1. /\ row.name = "vote_commit" /\ t = m.txn
          /\ Server(m.server)!CanAutoCommitTransaction(t)
      BY <2>1, <2>6, RowOfRequest DEF t
    <3>2. /\ log[s][i] = log'[s][i] /\ log[s][o] = log'[s][o]
          /\ log[s][cu] = log'[s][cu] /\ log[s][k] = log'[s][k]
      BY <2>1, <2>2
    <3>3. ~ReadIntercepted(log[s], t)
      BY <1>2, <3>1
         DEF Server!CanAutoCommitTransaction, Server!ReadIntercepted, Server!Intercepts, Server!IsFirst,
             Server!AfterStartOf, Server!Committed, Server!Ids,
             ReadIntercepted, Intercepts, IsFirst, AfterStartOf, Committed, Ids
    <3>4. ~Intercepts(log[s], t, "read", o)
      BY <2>2, <3>2, <3>3 DEF ReadIntercepted
    <3>5. AfterStartOf(log[s], t, o)
      BY <2>2, <3>2 DEF AfterStartOf, t
    <3>6. ~Committed(log[s], log[s][o].transaction_id)
      BY <2>2, <2>4, <3>2, <3>4, <3>5 DEF Intercepts, t
    <3> QED BY <2>2, <3>2, <3>6 DEF Committed, Ids
  <2> QED BY <2>1, <2>5, <2>6
<1>3. ASSUME NEW m \in net, NEW row \in RowsFor(m), NEW out \in Installations(m),
             NEW d \in BOOLEAN, Handle(m, row, out, d), m.server # s PROVE log'[s] = log[s]
  BY <1>3 DEF Handle, TypeOK
<1>4. QED
  BY <1>1, <1>2, <1>3, OnlyHandlingLogs

(* Once the coordinator has decided to commit it stays decided.            *)
LEMMA DecidedStays ==
    ASSUME TypeOK, [Next]_vars, NEW t \in Transactions, ToCommit(t)
    PROVE  ToCommit(t)'
<1>1. ASSUME NEW u \in Transactions, Coordinate(u) PROVE ToCommit(t)'
  <2>1. CASE u # t
    <3>1. phase'[t] = phase[t]
      BY <1>1, <2>1 DEF Coordinate, Advance, Decide, GiveUp, Resend, Finish, Enter, TypeOK
    <3> QED BY <3>1 DEF ToCommit
  <2>2. CASE u = t
    <3>1. Resend(t) \/ Finish(t)
      BY <1>1, <2>2 DEF Coordinate, Advance, Decide, GiveUp, ToCommit
    <3>2. phase \in [Transactions -> Phases] /\ phase[t] \in {"global_commit", "committed"}
      BY DEF TypeOK, ToCommit
    <3>3. Resend(t) => phase'[t] = phase[t]
      BY <3>2 DEF Resend, Enter
    <3>4. Finish(t) => phase'[t] = "committed"
      BY <3>2 DEF Finish, Decisions
    <3> QED BY <3>1, <3>2, <3>3, <3>4 DEF ToCommit
  <2> QED BY <2>1, <2>2
<1>2. UNCHANGED phase \/ \E u \in Transactions : Coordinate(u)
  BY DEF Next, vars, Handle, HandleCutShort, Lose
<1>3. QED
  BY <1>1, <1>2 DEF ToCommit

\* Contents come from the program, from a file, or from the own rows; only what
\* is to be committed gets into a file.
LEMMA ProvenanceStep == TypeOK /\ Sent /\ Provenance /\ [Next]_vars => Provenance'
<1> SUFFICES ASSUME TypeOK, Sent, Provenance, [Next]_vars PROVE Provenance'
  OBVIOUS
<1>1. Public \subseteq Public'
  BY DecidedStays DEF Public, DataOf
<1>2. Empty \in Public
  BY DEF Public
<1>3. ASSUME NEW m \in net, Installs(m), NEW i \in Ids(log[m.server], m.txn, "write")
      PROVE  log[m.server][i].data \in Public
  <2>1. ToCommit(m.txn) /\ m.txn \in Transactions /\ m.server \in Servers
    BY <1>3, WhereRequested DEF Sent, Installs
  <2>2. log[m.server] \in Seq(Rows) /\ i \in DOMAIN log[m.server]
    BY <2>1 DEF TypeOK, Ids
  <2>3. log[m.server][i].data \in Data
    BY <2>2, RowTypes
  <2>4. log[m.server][i].data \in Public \cup DataOf(m.txn)
    BY <2>1 DEF Provenance, Row, Ids
  <2> QED BY <2>1, <2>3, <2>4 DEF Public
<1>4. ASSUME NEW m \in net, NEW row \in RowsFor(m), NEW o \in Installations(m),
             NEW d \in BOOLEAN, Handle(m, row, o, d) PROVE Provenance'
  <2> DEFINE s == m.server  t == m.txn  new == Len(log[s]) + 1
  <2>0. Inserted(m, row)
    BY <1>4 DEF Handle, Inserted
  <2>1. s \in Servers /\ t \in Transactions /\ row.transaction_id = t /\ row \in Rows
    BY RowOfRequest
  <2>2. row.data \in Public \cup DataOf(t)
    <3>1. row.name \in FileOperations \cup DecisionOperations
      BY <2>1, RowTypes
    <3>2. CASE row.name = "read"
      <4> DEFINE f == row.filename
      <4>1. f \in Filenames
        BY <2>1, <3>2, RowTypes DEF FileOperations
      <4>2. \/ row.data \in {disk[s][f], Empty}
            \/ \E i \in OwnWrites(log[s], t, f) : row.data = log[s][i].data
        <5>1. row.data \in {Empty, Server(s)!FileContent(t, f)}
          BY <3>2, RowOfRequest
        <5> QED BY <2>1, <4>1, <5>1, ContentComesFrom
      <4>3. disk[s][f] \in Public
        BY <2>1, <4>1 DEF Provenance
      <4>4. \A i \in OwnWrites(log[s], t, f) : log[s][i].data \in Public \cup DataOf(t)
        BY <2>1 DEF OwnWrites, Ids, Provenance, Row
      <4> QED BY <1>2, <4>2, <4>3, <4>4
    <3>3. CASE row.name = "write"
      <4>1. m.kind = "working"
        BY <3>3, RowOfRequest DEF FileOperations
      <4>2. /\ m.number \in DOMAIN Program[t] /\ Program[t][m.number].name = "write"
            /\ row.data = Program[t][m.number].data
        BY <3>3, <4>1, RowOfRequest DEF Sent
      <4> QED BY <4>2 DEF DataOf
    <3>4. CASE row.name \in DecisionOperations
      BY <1>2, <2>1, <3>4, RowTypes
    <3> QED BY <3>1, <3>2, <3>3, <3>4 DEF FileOperations
  <2>3. ASSUME NEW u \in Servers, NEW i \in DOMAIN log'[u]
        PROVE  log'[u][i].data \in Public \cup DataOf(log'[u][i].transaction_id)
    <3>1. /\ log'[s][new] = row
          /\ \/ i \in DOMAIN log[u] /\ log'[u][i] = log[u][i]
             \/ u = s /\ i = new
      BY <1>4, <2>0, RowIsAdded
    <3> HIDE DEF new
    <3>2. CASE i \in DOMAIN log[u] /\ log'[u][i] = log[u][i]
      <4>1. log[u][i].data \in Public \cup DataOf(log[u][i].transaction_id)
        BY <3>2 DEF Provenance, Row
      <4> QED BY <3>2, <4>1
    <3>3. CASE u = s /\ i = new
      BY <2>1, <2>2, <3>1, <3>3
    <3> QED BY <3>1, <3>2, <3>3
  <2>4. ASSUME NEW u \in Servers, NEW f \in Filenames PROVE disk'[u][f] \in Public
    <3>1. disk[u][f] \in Public
      BY DEF Provenance
    <3>2. CASE u # s \/ ~Installs(m)
      BY <1>4, <3>1, <3>2, CommitFiles
    <3>3. CASE u = s /\ Installs(m)
      <4>1. \/ disk'[s][f] \in {disk[s][f], Empty}
            \/ \E i \in OwnWrites(log[s], t, f) : disk'[s][f] = log[s][i].data
        BY <1>4, <3>3, CommitFiles
      <4>2. OwnWrites(log[s], t, f) \subseteq Ids(log[s], t, "write")
        BY DEF OwnWrites
      <4> QED BY <1>2, <1>3, <3>1, <3>3, <4>1, <4>2
    <3> QED BY <3>2, <3>3
  <2> QED BY <1>1, <2>3, <2>4 DEF Provenance, Row, DataOf
<1>5. ASSUME NEW m \in net, HandleCutShort(m) PROVE Provenance'
  <2>1. Installs(m) /\ UNCHANGED log /\ m.server \in Servers
    BY <1>5, WhereRequested DEF HandleCutShort
  <2>2. ASSUME NEW u \in Servers, NEW f \in Filenames PROVE disk'[u][f] \in Public
    <3>1. disk[u][f] \in Public
      BY DEF Provenance
    <3>2. CASE u # m.server
      BY <1>5, <3>1, <3>2, CutShortFiles
    <3>3. CASE u = m.server
      <4>1. \/ disk'[u][f] \in {disk[u][f], Empty}
            \/ \E i \in OwnWrites(log[u], m.txn, f) : disk'[u][f] = log[u][i].data
        BY <1>5, <3>3, CutShortFiles
      <4>2. OwnWrites(log[u], m.txn, f) \subseteq Ids(log[u], m.txn, "write")
        BY DEF OwnWrites
      <4> QED BY <1>2, <1>3, <2>1, <3>1, <3>3, <4>1, <4>2
    <3> QED BY <3>2, <3>3
  <2> QED BY <1>1, <2>1, <2>2 DEF Provenance, Row, DataOf
<1>6. ASSUME UNCHANGED <<log, disk>> PROVE Provenance'
  BY <1>1, <1>6 DEF Provenance, Row, DataOf
<1>7. QED
  BY <1>4, <1>5, <1>6, OnlyCommitsTouchFiles

-----------------------------------------------------------------------------
(* The theorems.                                                           *)
LEMMA IInvInit == Init => IInv
<1> SUFFICES ASSUME Init PROVE IInv
  OBVIOUS
<1>1. TypeOK /\ Sent
  BY TypesInit
<1>2. \A s \in Servers : log[s] = << >> /\ DOMAIN log[s] = {} /\ torn[s] = {} /\ missed[s] = {}
  BY DEF Init
<1>3. \A s \in Servers : \A t, name : Ids(log[s], t, name) = {}
  BY <1>2 DEF Ids
<1>4. Planned /\ VotesWereChecked
  BY <1>2 DEF Planned, VotesWereChecked
<1>5. \A t \in Transactions : phase[t] = "working" /\ number[t] = 1 /\ ~ToCommit(t)
  BY DEF Init, ToCommit
<1>6. Answered
  BY <1>3, <1>5, ParticipantsAreServers DEF Answered, Commits
<1>7. Installed
  BY <1>2 DEF Installed
<1>8. Logged
  <2> SUFFICES ASSUME NEW t \in Transactions, NEW s, NEW f, NEW i \in DOMAIN Program[t],
                      LastDone(t, s, f, i)
               PROVE  FALSE
    BY DEF Logged
  <2>1. 1 \in DOMAIN Program[t] /\ i \in Nat /\ i > 0
    BY ProgramOK
  <2>2. Current(t) \in Servers
    BY <1>5, <2>1, ParticipantsAreServers DEF Current, Participants
  <2>3. heard[t][Current(t)] = "nothing"
    BY <2>2 DEF Init
  <2>4. Done(t) = 0
    BY <1>5, <2>3 DEF Done
  <2> QED BY <2>1, <2>4 DEF LastDone
<1>9. CommitsAwaited
  BY DEF Init, CommitsAwaited, Request
<1>10. TornFilesAreWaitedFor
  BY <1>2 DEF TornFilesAreWaitedFor
<1>11. Provenance
  BY <1>2 DEF Provenance, Public, Init
<1>12. QED
  BY <1>1, <1>4, <1>6, <1>7, <1>8, <1>9, <1>10, <1>11 DEF IInv

\* The parts together.
LEMMA IInvStep == IInv /\ [Next]_vars => IInv'
BY TypesStep, SentStep, PlannedStep, AnsweredStep, LoggedStep, InstalledStep, CommitsAwaitedStep,
   TornStep, VotesStep, ProvenanceStep DEF IInv

\* The invariant holds in every behaviour.
LEMMA IInvAlways == Spec => []IInv
<1>1. QED
  BY IInvInit, IInvStep, PTL DEF Spec

(* The variables have the values the code and the coordinators give them;  *)
(* a server that has answered was asked.                                   *)
THEOREM TwoPhaseTypes == Spec => []TypeOK
<1>1. IInv => TypeOK
  BY DEF IInv
<1>2. QED
  BY <1>1, IInvAlways, PTL

(* The decision is the same everywhere: a transaction that its coordinator *)
(* holds for committed has the row of it on every server it used, and one  *)
(* that is given up, or not decided, on none.  It is what AllOrNothing     *)
(* says of the end, at every moment, whatever is lost or late.             *)
OutcomesAgree ==
    \A t \in Transactions :
       /\ phase[t] = "committed" => \A s \in Participants(t) : Commits(s, t) # {}
       /\ phase[t] \notin {"global_commit", "committed"} => \A s \in Servers : Commits(s, t) = {}

THEOREM NobodyCommitsAlone == Spec => []OutcomesAgree
<1>1. ASSUME IInv PROVE OutcomesAgree
  <2> USE <1>1 DEF IInv
  <2>1. ASSUME NEW t \in Transactions, phase[t] = "committed", NEW s \in Participants(t)
        PROVE  Commits(s, t) # {}
    BY <2>1 DEF Answered, ToCommit
  <2>2. ASSUME NEW t \in Transactions, ~ToCommit(t), NEW s \in Servers PROVE Commits(s, t) = {}
    <3>1. \A i \in Commits(s, t) : s \in Participants(t)
      BY DEF Planned, Commits, Ids, Row
    <3> QED BY <2>2, <3>1 DEF Answered
  <2> QED BY <2>1, <2>2 DEF OutcomesAgree, ToCommit
<1>2. QED
  BY <1>1, IInvAlways, PTL

(* What a commit leaves behind is what the client was told: the last write *)
(* of the program to a file is in the file until another commit writes to  *)
(* it or is cut short while it does, unless the last recorded commit to    *)
(* this file failed to write it.  Nothing that is lost, late or repeated,  *)
(* and no failure in another file or in an earlier attempt, makes the      *)
(* exception larger.                                                       *)
THEOREM CommitsLeaveTheirWrites == Spec => []CommittedAsAnswered
<1>1. ASSUME IInv PROVE CommittedAsAnswered
  <2> USE <1>1 DEF IInv
  <2> SUFFICES ASSUME NEW t \in Transactions, NEW s \in Servers, NEW f \in Filenames,
                      phase[t] = "committed", ProgramWrites(t, s, f) # {},
                      f \notin torn[s], f \notin missed[s]
               PROVE  /\ Commits(s, t) # {}
                      /\ \/ disk[s][f] = Program[t][Max(ProgramWrites(t, s, f))].data
                         \/ CommittedLater(t, s, f)
    BY DEF CommittedAsAnswered, CommittedLater
  <2>1. s \in Participants(t) /\ ToCommit(t)
    BY DEF ProgramWrites, Participants, ToCommit
  <2>2. Commits(s, t) # {}
    BY <2>1 DEF Answered
  <2>3. PICK r \in DOMAIN log[s] :
           /\ IsLast(log[s], t, f, r)
           /\ Row(s, r).data = Program[t][Max(ProgramWrites(t, s, f))].data
    BY <2>1, LastWriteIsLogged
  <2> QED BY <2>2, <2>3 DEF Installed
<1>2. QED
  BY <1>1, IInvAlways, PTL

(* As long as no coordinator repeats a decision too early, every file that *)
(* a commit was touching when it was cut short is one that a transaction   *)
(* to be committed will write again.  Files that a recorded commit failed  *)
(* to write are not among them: nobody repeats such a commit.              *)
THEOREM RetriesMendTornFiles == Spec => []TornFilesAreWaitedFor
<1>1. IInv => TornFilesAreWaitedFor
  BY DEF IInv
<1>2. QED
  BY <1>1, IInvAlways, PTL

(* The stale reads that the votes let through are of the three kinds that  *)
(* StaleReadsAreExplained lists, and no other: a vote that came after the  *)
(* other commit has looked at the first file that was read.                *)
THEOREM VotesStopStaleReads == Spec => []StaleReadsAreExplained
<1>1. ASSUME IInv PROVE StaleReadsAreExplained
  <2> USE <1>1 DEF IInv
  <2> SUFFICES ASSUME NEW s \in Servers, NEW t \in Transactions,
                      NEW r \in Ids(log[s], t, "read"), NEW c \in Commits(s, t),
                      NEW cu \in DOMAIN log[s], NEW w \in DOMAIN log[s],
                      Overwritten(s, t, r, c, cu, w),
                      AfterStartOf(log[s], t, w),
                      NEW i \in Ids(log[s], t, "read"), IsFirst(log[s], t, "read", i),
                      Row(s, i).filename = Row(s, r).filename
               PROVE  \E v \in Ids(log[s], t, "vote_commit") : v < cu
    BY DEF StaleReadsAreExplained
  <2>1. s \in Participants(t) /\ ToCommit(t)
    <3>1. s \in Participants(t)
      BY DEF Planned, Commits, Ids, Row
    <3> QED BY <3>1 DEF Answered
  <2>2. PICK v \in Ids(log[s], t, "vote_commit") : TRUE
    BY <2>1 DEF Answered
  <2>3. \A j \in DOMAIN log[s] : j \in Nat
    BY DEF TypeOK
  <2>4. /\ v \in DOMAIN log[s] /\ Row(s, v).name = "vote_commit" /\ Row(s, v).transaction_id = t
        /\ i \in DOMAIN log[s] /\ r \in DOMAIN log[s] /\ i <= r
    BY DEF Ids, Row, IsFirst
  <2>5. /\ r < cu /\ w < cu
        /\ Row(s, cu).name = "global_commit" /\ Row(s, cu).transaction_id # t
        /\ Row(s, w).name = "write" /\ Row(s, w).transaction_id = Row(s, cu).transaction_id
        /\ Row(s, w).filename = Row(s, i).filename
    BY DEF Overwritten
  <2>6. PICK k \in DOMAIN log[s] : k < w /\ Row(s, k).transaction_id = t
    BY DEF AfterStartOf, Row
  <2>7. ~(cu < v)
    <3>1. SUFFICES ASSUME cu < v PROVE FALSE
      OBVIOUS
    <3>2. i < v /\ w < v
      BY <2>3, <2>4, <2>5, <3>1
    <3> QED BY <2>4, <2>5, <2>6, <3>1, <3>2 DEF VotesWereChecked
  <2>8. v # cu
    BY <2>4, <2>5
  <2> QED BY <2>3, <2>4, <2>7, <2>8
<1>2. QED
  BY <1>1, IInvAlways, PTL

(* Whose content it is can be told from the content.                       *)
DataTellsWriter ==
    \A t \in Transactions :
       /\ InitialContent \notin DataOf(t) /\ Empty \notin DataOf(t)
       /\ \A u \in Transactions : u # t => DataOf(u) \cap DataOf(t) = {}

(* Nothing that a transaction wrote is seen by others before its           *)
(* coordinator decides to commit.  The property speaks of contents, so it  *)
(* needs contents that tell who wrote them; what the servers do does not   *)
(* depend on that (Provenance holds without).                              *)
THEOREM UndecidedIsPrivate == Spec /\ DataTellsWriter => []UndecidedStaysPrivate
<1>1. ASSUME IInv, DataTellsWriter PROVE UndecidedStaysPrivate
  <2> USE <1>1 DEF IInv
  <2> SUFFICES ASSUME NEW t \in Transactions, ~ToCommit(t), NEW s \in Servers
               PROVE  /\ \A f \in Filenames : disk[s][f] \notin DataOf(t)
                      /\ \A i \in DOMAIN log[s] :
                            Row(s, i).data \in DataOf(t) => Row(s, i).transaction_id = t
    BY DEF UndecidedStaysPrivate, ToCommit
  <2>1. \A d \in Public : d \notin DataOf(t)
    BY DEF Public, DataTellsWriter
  <2>2. ASSUME NEW i \in DOMAIN log[s], Row(s, i).data \in DataOf(t) PROVE Row(s, i).transaction_id = t
    <3>1. Row(s, i).data \in Public \cup DataOf(Row(s, i).transaction_id)
      BY DEF Provenance
    <3>2. Row(s, i).transaction_id \in Transactions
      BY RowTypes DEF TypeOK, Row
    <3> QED BY <2>1, <2>2, <3>1, <3>2 DEF DataTellsWriter
  <2> QED BY <2>1, <2>2 DEF Provenance
<1>2. DataTellsWriter => []DataTellsWriter
  <2>1. DataTellsWriter => DataTellsWriter'
    BY DEF DataTellsWriter, DataOf
  <2> QED BY <2>1, PTL
<1>3. QED
  BY <1>1, <1>2, IInvAlways, PTL

=============================================================================
