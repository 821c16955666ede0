-------------------------- MODULE JournalProperties --------------------------
(***************************************************************************)
(* The database that the server's log relies on, implemented by the files, *)
(* the locks and the journal.                                              *)
(***************************************************************************)
EXTENDS RollbackJournal

(* The variables have the values the code can give them, and the locks      *)
(* exclude what they are there to exclude.                                  *)
TypeOK ==
    /\ at \in [Calls -> Ended \cup
          {"idle", "lock", "exists", "check", "inspect", "hot", "lock_hot", "playback",
           "header", "restore", "finalize", "reader", "locked", "journal", "pending",
           "sync", "count", "resync", "write", "finish", "committed"}]
    /\ dirty \in [Calls -> SUBSET Pages] /\ todo \in [Calls -> SUBSET Pages]
    /\ pending \in Calls \cup {None} /\ reserved \in Calls \cup {None}
    /\ readers \subseteq Calls /\ writer \in Calls \cup {None}
    /\ writer # None => readers = {}
    /\ pending # None => reserved = pending
    /\ \A c \in Calls : c \in readers \cup {pending, reserved, writer} => Running(c)
    /\ db \in [Pages -> {Absent, Torn} \cup SUBSET Writers]
    /\ \A p \in Pages : db[p] \in kept[p]
    /\ {journal.by, safe.by} \subseteq Writers \cup {None}
    /\ faults \in 0..MaxFaults

\* What the next reader will make of the files.
Recovered(d, j) ==
    IF j.exists /\ j.magic /\ Size(d) > 0
    THEN [p \in Pages |->
            IF p > j.orig THEN Absent
            ELSE IF j.records[p] # NoRecord THEN j.records[p] ELSE d[p]]
    ELSE d

Outcome ==
    [c \in Calls |->
        IF at[c] = "committed" THEN "inserted"
        ELSE IF Running(c) THEN "running" ELSE at[c]]

Answers == [c \in Calls |-> IF c \notin Writers /\ at[c] = "done" THEN seen[c] ELSE NoRecords]

Image == Recovered(db, journal)

Log == INSTANCE AtomicLog WITH
    InitialImages <- InitialDatabases,
    NoAnswer <- NoRecords,
    image <- Image,
    previous <- Recovered(db, safe),
    outcome <- Outcome,
    answer <- Answers

(* Whatever is interleaved, fails or ends, an insert happens at once or not *)
(* at all, a query sees one moment, and a call that fails has changed       *)
(* nothing; only a power loss takes an answered insert back, and only the   *)
(* last one.                                                                *)
ImplementsAtomicLog == Log!Spec

(* Nothing is retried and nobody waits, so a lock that cannot be had fails  *)
(* the call.  But whatever was left behind by failures, ended processes and *)
(* power losses, a call that is the only one in progress is not refused.  A *)
(* query whose statement was left on a row by an exception is in progress   *)
(* until its process ends, and refuses inserts for that long (DaoSession).  *)
GivesUp(c) ==
    \/ at'[c] = "failed" /\ at[c] # "failed" /\ dirty[c] = {}
    \/ at[c] = "pending" /\ at'[c] = "finalize"

AloneIsNotRefused ==
    [][faults' = faults =>
         \A c \in Calls : GivesUp(c) => \E o \in Calls \ {c} : Running(o)]_vars

(* The comment in hasHotJournal on a database of no pages: "the journal is a *)
(* remnant from a prior database [...], or the initial transaction that      *)
(* populates a new database is being rolled back.  In either case, the       *)
(* journal file can be deleted."  What that transaction has written is gone  *)
(* from the file by then, but perhaps not from the disk.                     *)
FailedInsertsAreGone ==
    ~journal.exists => \A p \in Pages : db[p] # Torn /\ \A c \in db[p] \cap Calls : at[c] # "failed"
=============================================================================
