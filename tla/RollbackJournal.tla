--------------------------- MODULE RollbackJournal ---------------------------
(***************************************************************************)
(* The pager of SQLite (sqlite3.c) as dao.cpp uses it: every call is a     *)
(* connection of its own that runs one autocommitted statement, in journal *)
(* mode DELETE with synchronous FULL, through the Windows file layer, and  *)
(* without a busy handler.  The calls may run in one process or several.   *)
(* Files are seen through the operating system; a power loss leaves what   *)
(* has been synced and some of the rest.  The page cache is not modelled:  *)
(* a connection starts with an empty one and a row does not overflow it.   *)
(***************************************************************************)
EXTENDS Integers, FiniteSets

CONSTANTS
    Calls, Writers,     \* the calls; those that insert a row, the others query
    PageCount,          \* bound: pages of the database
    None,
    MaxFaults           \* bound: ends of processes, power losses, failing calls

ASSUME JournalConstants ==
    /\ Writers \subseteq Calls /\ None \notin Calls
    /\ PageCount \in Nat \ {0} /\ MaxFaults \in Nat
    /\ Calls \cap {"absent", "torn", "no_record"} = {}    \* the marks below are no calls

Pages == 1..PageCount

\* A page holds the rows of some inserts, or does not exist, or was written in part.
Absent == {"absent"}
Torn == {"torn"}
NoRecord == {"no_record"}

VARIABLES
    at,         \* what each call is about to do
    dirty,      \* the pages that its insert changes
    todo,       \* the pages it still has to journal, write or restore
    seen,       \* what its query has read
    pending, reserved,  \* who holds the PENDING and the RESERVED byte
    readers, writer,    \* who shares the SHARED range, who has locked all of it
    db,         \* the database file
    kept,       \* of each page, what a power loss may leave
    journal,    \* the journal file
    safe,       \* the journal file that surely survives a power loss
    faults

work == <<dirty, todo, seen>>
locks == <<pending, reserved, readers, writer>>
files == <<db, kept, journal, safe>>
vars == <<at, work, locks, files, faults>>

NoRecords == [p \in Pages |-> NoRecord]
NoJournal == [exists |-> FALSE, by |-> None, magic |-> FALSE, orig |-> 0, records |-> NoRecords]

Size(d) == Cardinality({p \in Pages : \E q \in Pages : q >= p /\ d[q] # Absent})

InitialDatabases == {[p \in Pages |-> IF p <= n THEN {} ELSE Absent] : n \in 0..PageCount}

Init ==
    /\ at = [c \in Calls |-> "idle"]
    /\ dirty = [c \in Calls |-> {}]
    /\ todo = [c \in Calls |-> {}]
    /\ seen = [c \in Calls |-> NoRecords]
    /\ pending = None /\ reserved = None /\ readers = {} /\ writer = None
    /\ db \in InitialDatabases
    /\ kept = [p \in Pages |-> {db[p]}]
    /\ journal = NoJournal /\ safe = NoJournal
    /\ faults = 0

Ended == {"done", "failed", "gone"}
Running(c) == at[c] \notin Ended \cup {"idle"}

Goto(c, step) == at' = [at EXCEPT ![c] = step]
From(c, step, next) == at[c] = step /\ Goto(c, next)
Remaining(c, pages) == todo' = [todo EXCEPT ![c] = pages]

----------------------------------------------------------------------------
\* Locks (winLock, winUnlock).  A lock that is taken is refused at once.

CanShare == pending = None /\ writer = None
CanLockRange_OverReaders == writer = None

CanLockRange == readers = {} /\ writer = None

Leave_Reserved(c, outcome) ==
    /\ Goto(c, outcome)
    /\ pending' = IF pending = c THEN None ELSE pending
    /\ UNCHANGED reserved
    /\ writer' = IF writer = c THEN None ELSE writer
    /\ readers' = readers \ {c}

\* winUnlock(NO_LOCK), with the end of the call.
Leave(c, outcome) ==
    /\ Goto(c, outcome)
    /\ pending' = IF pending = c THEN None ELSE pending
    /\ reserved' = IF reserved = c THEN None ELSE reserved
    /\ writer' = IF writer = c THEN None ELSE writer
    /\ readers' = readers \ {c}

\* winUnlock(SHARED_LOCK).
ToShared(c) ==
    /\ pending' = IF pending = c THEN None ELSE pending
    /\ reserved' = IF reserved = c THEN None ELSE reserved
    /\ writer' = IF writer = c THEN None ELSE writer
    /\ readers' = readers \cup {c}

DropReadLock(c) == readers' = readers \ {c} /\ UNCHANGED <<reserved, writer>>

LockRange(c) == writer' = c /\ UNCHANGED <<pending, reserved, readers>>

----------------------------------------------------------------------------
\* Files.

\* A call has the journal open from its creation, or for the playback of a hot one.
Opens(c) ==
    at[c] \in {"journal", "pending", "sync", "count", "resync", "write", "finish",
               "header", "restore", "finalize"}

CanDelete_Open(c) == TRUE

\* Windows does not delete a file that somebody else has open.
CanDelete(c) == \A o \in Calls \ {c} : ~Opens(o)

\* winDelete: nothing makes the removal of the name durable.
DeleteJournal == journal' = NoJournal /\ UNCHANGED <<db, kept, safe>>

\* A sync makes one file durable, and the names before it.
SyncJournalFile == safe' = journal /\ UNCHANGED <<db, kept, journal>>
SyncDatabaseFile == kept' = [p \in Pages |-> {db[p]}] /\ safe' = journal /\ UNCHANGED <<db, journal>>

ChangeJournal(j) == journal' = j /\ UNCHANGED <<db, kept, safe>>

\* Writes of d may reach the disk in any order and in part.
ChangeDatabase(d) ==
    /\ db' = d
    /\ kept' = [p \in Pages |-> IF d[p] = db[p] THEN kept[p] ELSE kept[p] \cup {d[p], Torn}]
    /\ UNCHANGED <<journal, safe>>

----------------------------------------------------------------------------
\* sqlite3PagerSharedLock: a read lock, and no hot journal.

Open(c) ==
    /\ From(c, "idle", "lock")
    /\ UNCHANGED <<work, locks, files>>

SharedLock(c) ==
    /\ at[c] = "lock"
    /\ \/ CanShare /\ Goto(c, "exists") /\ readers' = readers \cup {c}
          /\ UNCHANGED <<pending, reserved, writer>>
       \/ ~CanShare /\ Leave(c, "failed")
    /\ UNCHANGED <<work, files>>

JournalExists(c) ==
    /\ at[c] = "exists"
    /\ Goto(c, IF journal.exists THEN "check" ELSE "reader")
    /\ UNCHANGED <<work, locks, files>>

CheckReservedLock(c) ==
    /\ at[c] = "check"
    /\ Goto(c, IF reserved = None THEN "inspect" ELSE "reader")
    /\ UNCHANGED <<work, locks, files>>

(* The journal of an empty database is deleted, under a RESERVED lock that   *)
(* is taken and dropped.  Another is hot if it begins with the magic or has  *)
(* vanished since.                                                           *)
InspectJournal(c) ==
    /\ at[c] = "inspect"
    /\ \/ /\ Size(db) = 0 /\ Goto(c, "reader")
          /\ IF reserved = None /\ CanDelete(c) THEN DeleteJournal ELSE UNCHANGED files
       \/ /\ Size(db) > 0 /\ UNCHANGED files
          /\ Goto(c, IF journal.exists => journal.magic THEN "hot" ELSE "reader")
    /\ UNCHANGED <<work, locks>>

\* EXCLUSIVE from SHARED: the PENDING byte is not asked for.
DropForHot(c) ==
    /\ From(c, "hot", "lock_hot")
    /\ DropReadLock(c)
    /\ UNCHANGED <<pending, work, files>>

LockHot(c) ==
    /\ at[c] = "lock_hot"
    /\ \/ CanLockRange /\ Goto(c, "playback") /\ LockRange(c)
       \/ ~CanLockRange /\ Leave(c, "failed")
    /\ UNCHANGED <<work, files>>

\* If another call was faster there is nothing left to play back.
SyncHotJournal(c) ==
    /\ at[c] = "playback"
    /\ \/ journal.exists /\ Goto(c, "header") /\ SyncJournalFile /\ UNCHANGED locks
       \/ ~journal.exists /\ Goto(c, "reader") /\ ToShared(c) /\ UNCHANGED files
    /\ UNCHANGED work

----------------------------------------------------------------------------
\* pager_playback, of a hot journal or of the call's own.

Truncated_Not(d, n) == d

Truncated(d, n) == [p \in Pages |-> IF p > n THEN Absent ELSE d[p]]

Records(j) == {p \in Pages : j.records[p] # NoRecord}

ReadHeader(c) ==
    /\ From(c, "header", "restore")
    /\ \/ journal.magic /\ ChangeDatabase(Truncated(db, journal.orig)) /\ Remaining(c, Records(journal))
       \/ ~journal.magic /\ UNCHANGED files /\ Remaining(c, {})
    /\ UNCHANGED <<dirty, seen, locks>>

RestorePage(c) ==
    /\ at[c] = "restore" /\ UNCHANGED at
    /\ \E p \in todo[c] :
          /\ ChangeDatabase([db EXCEPT ![p] = journal.records[p]])
          /\ Remaining(c, todo[c] \ {p})
    /\ UNCHANGED <<dirty, seen, locks>>

SyncRestored(c) ==
    /\ From(c, "restore", "finalize") /\ todo[c] = {}
    /\ SyncDatabaseFile
    /\ UNCHANGED <<work, locks>>

\* Who plays back a hot journal goes on as a reader; an insert that was rolled
\* back has failed, and so has any call that cannot delete the journal.
FinalizeJournal(c) ==
    /\ at[c] = "finalize"
    /\ IF CanDelete(c) THEN DeleteJournal ELSE UNCHANGED files
    /\ \/ CanDelete(c) /\ dirty[c] = {} /\ Goto(c, "reader") /\ ToShared(c)
       \/ ~(CanDelete(c) /\ dirty[c] = {}) /\ Leave(c, "failed")
    /\ UNCHANGED work

----------------------------------------------------------------------------
\* A query reads the pages under its read lock.

ReadPage(c) ==
    /\ at[c] = "reader" /\ c \notin Writers /\ UNCHANGED at
    /\ \E p \in Pages : seen[c][p] = NoRecord /\ seen' = [seen EXCEPT ![c] = [@ EXCEPT ![p] = db[p]]]
    /\ UNCHANGED <<dirty, todo, locks, files>>

EndQuery(c) ==
    /\ at[c] = "reader" /\ \A p \in Pages : seen[c][p] # NoRecord
    /\ Leave(c, "done")
    /\ UNCHANGED <<work, files>>

----------------------------------------------------------------------------
\* An insert: journal, database, and the end of the journal is the commit.

\* Page 1 is always among them, for its change counter; new pages follow the last.
Changeable == {W \in SUBSET Pages : 1 \in W /\ \A p \in W : p > Size(db) => (Size(db) + 1)..p \subseteq W}

Begin(c) ==
    /\ at[c] = "reader" /\ c \in Writers
    /\ \/ /\ reserved = None /\ reserved' = c /\ Goto(c, "locked")
          /\ \E W \in Changeable : dirty' = [dirty EXCEPT ![c] = W]
          /\ UNCHANGED <<pending, readers, writer>>
       \/ reserved # None /\ Leave(c, "failed") /\ UNCHANGED dirty
    /\ UNCHANGED <<todo, seen, files>>

\* The header says how many pages there were; its magic stays zero for now.
OpenJournal(c) ==
    /\ From(c, "locked", "journal")
    /\ ChangeJournal([NoJournal EXCEPT !.exists = TRUE, !.by = c, !.orig = Size(db)])
    /\ Remaining(c, {p \in dirty[c] : p <= Size(db)})
    /\ UNCHANGED <<dirty, seen, locks>>

AddPageToJournal(c) ==
    /\ at[c] = "journal" /\ UNCHANGED at
    /\ \E p \in todo[c] :
          /\ ChangeJournal([journal EXCEPT !.records = [@ EXCEPT ![p] = db[p]]])
          /\ Remaining(c, todo[c] \ {p})
    /\ UNCHANGED <<dirty, seen, locks>>

\* EXCLUSIVE from RESERVED: the PENDING byte keeps new readers out ...
LockPending(c) ==
    /\ From(c, "journal", "pending") /\ todo[c] = {}
    /\ pending = None /\ pending' = c /\ DropReadLock(c)
    /\ UNCHANGED <<work, files>>

\* ... and if old ones are left the insert is rolled back.
LockExclusive(c) ==
    /\ at[c] = "pending"
    /\ \/ CanLockRange /\ Goto(c, "sync") /\ LockRange(c)
       \/ /\ ~CanLockRange /\ Goto(c, "finalize")
          /\ readers' = IF writer = None THEN readers \cup {c} ELSE readers
          /\ UNCHANGED <<pending, reserved, writer>>
    /\ UNCHANGED <<work, files>>

\* syncJournal: the records first, then their number with the magic.
SyncJournal(c) ==
    /\ From(c, "sync", "count")
    /\ SyncJournalFile
    /\ UNCHANGED <<work, locks>>

WriteRecordCount(c) ==
    /\ From(c, "count", "resync")
    /\ ChangeJournal([journal EXCEPT !.magic = TRUE])
    /\ UNCHANGED <<work, locks>>

SyncJournalAgain_Omitted(c) ==
    /\ From(c, "resync", "write")
    /\ UNCHANGED files /\ Remaining(c, dirty[c])
    /\ UNCHANGED <<dirty, seen, locks>>

SyncJournalAgain(c) ==
    /\ From(c, "resync", "write")
    /\ SyncJournalFile /\ Remaining(c, dirty[c])
    /\ UNCHANGED <<dirty, seen, locks>>

WritePage(c) ==
    /\ at[c] = "write" /\ UNCHANGED at
    /\ \E p \in todo[c] :
          /\ ChangeDatabase([db EXCEPT ![p] = (@ \ Absent) \cup {c}])
          /\ Remaining(c, todo[c] \ {p})
    /\ UNCHANGED <<dirty, seen, locks>>

SyncDatabase(c) ==
    /\ From(c, "write", "finish") /\ todo[c] = {}
    /\ SyncDatabaseFile
    /\ UNCHANGED <<work, locks>>

\* If the journal cannot be deleted it is left to be played back.
EndTransaction(c) ==
    /\ at[c] = "finish"
    /\ \/ CanDelete(c) /\ DeleteJournal /\ ToShared(c) /\ Goto(c, "committed")
       \/ ~CanDelete(c) /\ UNCHANGED files /\ Leave(c, "failed")
    /\ UNCHANGED work

Unlock(c) ==
    /\ at[c] = "committed" /\ Leave(c, "done")
    /\ UNCHANGED <<work, files>>

----------------------------------------------------------------------------
\* Failures.

Fault == faults < MaxFaults /\ faults' = faults + 1

(* A call to the operating system fails.  Before the database is written the *)
(* journal is deleted; then it is played back; and when that fails, or the   *)
(* deletion of the journal does, it stays where it is.                       *)
Fail(c) ==
    /\ Fault /\ Running(c) /\ at[c] # "committed"
    /\ \/ at[c] \in {"journal", "pending", "sync", "count", "resync"} /\ Goto(c, "finalize") /\ UNCHANGED locks
       \/ at[c] = "write" /\ Goto(c, "header") /\ UNCHANGED locks
       \/ at[c] \notin {"journal", "pending", "sync", "count", "resync", "write"} /\ Leave(c, "failed")
    /\ UNCHANGED <<work, files>>

\* The process of the call ends; its locks go, the files stay as they are.
Crash(c) ==
    /\ Fault /\ Running(c) /\ Leave(c, "gone")
    /\ UNCHANGED <<work, files>>

SameFile(s, j) == s.by = j.by

\* The journal j with some of its records, over what has been synced of the file.
Partly(s, j, K) ==
    [p \in Pages |-> IF p \in K THEN j.records[p] ELSE IF SameFile(s, j) THEN s.records[p] ELSE NoRecord]
Mixtures(s, j, m) == {[j EXCEPT !.magic = m, !.records = Partly(s, j, K)] : K \in SUBSET Pages}

\* What a power loss may leave of the journal j, if s has been synced.
Survivors(s, j) ==
    {s, j} \cup (IF SameFile(s, j) THEN {} ELSE {NoJournal})
      \cup (IF j.exists THEN Mixtures(s, j, SameFile(s, j) /\ s.magic) \cup Mixtures(s, j, j.magic) ELSE {})

PowerLoss ==
    /\ Fault
    /\ at' = [c \in Calls |-> IF Running(c) THEN "gone" ELSE at[c]]
    /\ pending' = None /\ reserved' = None /\ readers' = {} /\ writer' = None
    /\ db' \in [Pages -> UNION {kept[p] : p \in Pages}] /\ \A p \in Pages : db'[p] \in kept[p]
    /\ kept' = [p \in Pages |-> {db'[p]}]
    /\ journal' \in Survivors(safe, journal) /\ safe' = journal'
    /\ UNCHANGED work

----------------------------------------------------------------------------
Pager(c) ==
    \/ Open(c) \/ SharedLock(c) \/ JournalExists(c) \/ CheckReservedLock(c) \/ InspectJournal(c)
    \/ DropForHot(c) \/ LockHot(c) \/ SyncHotJournal(c)
    \/ ReadHeader(c) \/ RestorePage(c) \/ SyncRestored(c) \/ FinalizeJournal(c)
    \/ ReadPage(c) \/ EndQuery(c)
    \/ Begin(c) \/ OpenJournal(c) \/ AddPageToJournal(c) \/ LockPending(c) \/ LockExclusive(c)
    \/ SyncJournal(c) \/ WriteRecordCount(c) \/ SyncJournalAgain(c)
    \/ WritePage(c) \/ SyncDatabase(c) \/ EndTransaction(c) \/ Unlock(c)

AllEnded == (\A c \in Calls : at[c] \in Ended) /\ UNCHANGED vars

Next ==
    \/ \E c \in Calls : (Pager(c) /\ UNCHANGED faults) \/ Fail(c) \/ Crash(c)
    \/ PowerLoss
    \/ AllEnded

Spec == Init /\ [][Next]_vars
=============================================================================
