---------------------------- MODULE JournalProofs ----------------------------
(***************************************************************************)
(* Theorems about the locks of the pager, for any number of calls and      *)
(* pages and every number of faults.                                       *)
(***************************************************************************)
EXTENDS JournalProperties, TLAPS

(* Where a call has the read lock, and where it has the whole range.  In     *)
(* "finalize" it has what it had when it got there.                          *)
Sharing == {"exists", "check", "inspect", "hot", "reader", "locked", "journal", "committed"}
Exclusive == {"sync", "count", "resync", "write", "finish"}
Ranging == Exclusive \cup {"playback", "header", "restore"}

\* An insert is in progress; it has not begun; it is being taken back.
Inserting == Exclusive \cup {"locked", "journal", "pending"}
Before == {"idle", "lock", "exists", "check", "inspect", "hot", "lock_hot", "playback", "reader"}
RollsBack(c) == at[c] \in {"header", "restore", "finalize"} /\ dirty[c] # {}

LockTypes ==
    /\ at \in [Calls -> Before \cup Inserting \cup Ended \cup {"header", "restore", "finalize", "committed"}]
    /\ dirty \in [Calls -> SUBSET Pages] /\ todo \in [Calls -> SUBSET Pages]
    /\ pending \in Calls \cup {None} /\ reserved \in Calls \cup {None}
    /\ readers \subseteq Calls /\ writer \in Calls \cup {None}
    /\ writer # None => readers = {}

Fits(c) ==
    /\ at[c] \in Sharing => c \in readers
    /\ c \in readers => at[c] \in Sharing \cup {"finalize"}
    /\ at[c] \in Ranging \/ (at[c] = "finalize" /\ dirty[c] = {}) => writer = c
    /\ writer = c => at[c] \in Ranging \cup {"finalize"}
    /\ reserved = c <=> at[c] \in Inserting \/ RollsBack(c)
    /\ at[c] \in Exclusive \cup {"pending"} => pending = c
    /\ pending = c => at[c] \in Exclusive \cup {"pending"} \/ RollsBack(c)
    /\ at[c] \in Before => dirty[c] = {}
    /\ at[c] \in Inserting => 1 \in dirty[c]
    /\ dirty[c] # {} => c \in Writers

LInv == LockTypes /\ (\A c \in Calls : Fits(c)) /\ faults \in 0..MaxFaults

(* Nobody holds a lock at first.                                             *)
LEMMA LocksInit == Init => LInv
BY JournalConstants DEF Init, LInv, LockTypes, Fits, Before, Inserting, Exclusive, Ranging, Sharing,
   Ended, RollsBack

\* A step of c leaves the others where they are and with the locks they have.
Undisturbed(o) ==
    /\ at'[o] = at[o] /\ dirty'[o] = dirty[o]
    /\ o \in readers' <=> o \in readers
    /\ writer' = o <=> writer = o
    /\ reserved' = o <=> reserved = o
    /\ pending' = o <=> pending = o

(* What a call has of the locks fits where it is, whatever the others do.    *)
LEMMA OthersFit == ASSUME NEW o \in Calls, Fits(o), Undisturbed(o) PROVE Fits(o)'
BY DEF Fits, Undisturbed, RollsBack

(* A step of one call takes no lock from another and gives it none.          *)
LEMMA LocksFrame ==
    ASSUME LInv, NEW c \in Calls, Pager(c)
    PROVE  LockTypes' /\ \A o \in Calls \ {c} : Undisturbed(o)
<1> USE JournalConstants DEF LInv, LockTypes, Undisturbed, Before, Inserting, Exclusive, Ended, work, locks
<1>0. writer = c \/ at[c] \notin Ranging
  BY DEF Fits
<1>1. CASE Open(c)
  BY <1>1 DEF Open, From, Goto
<1>2. CASE SharedLock(c)
  BY <1>2 DEF SharedLock, CanShare, Goto, Leave
<1>3. CASE JournalExists(c)
  BY <1>3 DEF JournalExists, Goto
<1>4. CASE CheckReservedLock(c)
  BY <1>4 DEF CheckReservedLock, Goto
<1>5. CASE InspectJournal(c)
  BY <1>5 DEF InspectJournal, Goto
<1>6. CASE DropForHot(c)
  BY <1>6 DEF DropForHot, From, Goto, DropReadLock
<1>7. CASE LockHot(c)
  BY <1>7 DEF LockHot, CanLockRange, Goto, LockRange, Leave
<1>8. CASE SyncHotJournal(c)
  <2>0. writer = c
    BY <1>8, <1>0 DEF SyncHotJournal, Ranging, Exclusive
  <2>1. LockTypes'
    BY <1>8, <2>0 DEF SyncHotJournal, Goto, ToShared
  <2>2. \A o \in Calls \ {c} : Undisturbed(o)
    BY <1>8, <2>0 DEF SyncHotJournal, Goto, ToShared
  <2> QED BY <2>1, <2>2
<1>9. CASE ReadHeader(c)
  BY <1>9 DEF ReadHeader, From, Goto, Remaining, Records
<1>10. CASE RestorePage(c)
  BY <1>10 DEF RestorePage, Remaining
<1>11. CASE SyncRestored(c)
  BY <1>11 DEF SyncRestored, From, Goto
<1>12. CASE FinalizeJournal(c)
  <2>0. dirty[c] = {} => writer = c
    BY <1>12 DEF FinalizeJournal, Fits
  <2>1. LockTypes'
    BY <1>12, <2>0 DEF FinalizeJournal, Goto, ToShared, Leave
  <2>2. \A o \in Calls \ {c} : Undisturbed(o)
    BY <1>12, <2>0 DEF FinalizeJournal, Goto, ToShared, Leave
  <2> QED BY <2>1, <2>2
<1>13. CASE ReadPage(c)
  BY <1>13 DEF ReadPage
<1>14. CASE EndQuery(c)
  BY <1>14 DEF EndQuery, Goto, Leave
<1>15. CASE Begin(c)
  BY <1>15 DEF Begin, Goto, Leave, Changeable
<1>16. CASE OpenJournal(c)
  BY <1>16 DEF OpenJournal, From, Goto, Remaining
<1>17. CASE AddPageToJournal(c)
  BY <1>17 DEF AddPageToJournal, Remaining
<1>18. CASE LockPending(c)
  BY <1>18 DEF LockPending, From, Goto, DropReadLock
<1>19. CASE LockExclusive(c)
  BY <1>19 DEF LockExclusive, Goto, CanLockRange, LockRange
<1>20. CASE SyncJournal(c)
  BY <1>20 DEF SyncJournal, From, Goto
<1>21. CASE WriteRecordCount(c)
  BY <1>21 DEF WriteRecordCount, From, Goto
<1>22. CASE SyncJournalAgain(c)
  BY <1>22 DEF SyncJournalAgain, From, Goto, Remaining
<1>23. CASE WritePage(c)
  BY <1>23 DEF WritePage, Remaining
<1>24. CASE SyncDatabase(c)
  BY <1>24 DEF SyncDatabase, From, Goto
<1>25. CASE EndTransaction(c)
  <2>0. writer = c
    BY <1>25, <1>0 DEF EndTransaction, Ranging, Exclusive
  <2>1. LockTypes'
    BY <1>25, <2>0 DEF EndTransaction, Goto, ToShared, Leave
  <2>2. \A o \in Calls \ {c} : Undisturbed(o)
    BY <1>25, <2>0 DEF EndTransaction, Goto, ToShared, Leave
  <2> QED BY <2>1, <2>2
<1>26. CASE Unlock(c)
  BY <1>26 DEF Unlock, Goto, Leave
<1> QED BY <1>1, <1>2, <1>3, <1>4, <1>5, <1>6, <1>7, <1>8, <1>9, <1>10, <1>11, <1>12, <1>13, <1>14, <1>15, <1>16, <1>17, <1>18, <1>19, <1>20, <1>21, <1>22, <1>23, <1>24, <1>25, <1>26 DEF Pager

(* A call has the locks of the place where its own step takes it.            *)
LEMMA LocksOwn ==
    ASSUME LInv, NEW c \in Calls, Pager(c)
    PROVE  Fits(c)'
<1> USE JournalConstants DEF LInv, LockTypes, Fits, RollsBack, Before, Inserting, Exclusive, Sharing, Ranging, Ended, work, locks
<1>1. CASE Open(c)
  BY <1>1 DEF Open, From, Goto
<1>2. CASE SharedLock(c)
  BY <1>2 DEF SharedLock, CanShare, Goto, Leave
<1>3. CASE JournalExists(c)
  BY <1>3 DEF JournalExists, Goto
<1>4. CASE CheckReservedLock(c)
  BY <1>4 DEF CheckReservedLock, Goto
<1>5. CASE InspectJournal(c)
  BY <1>5 DEF InspectJournal, Goto
<1>6. CASE DropForHot(c)
  BY <1>6 DEF DropForHot, From, Goto, DropReadLock
<1>7. CASE LockHot(c)
  BY <1>7 DEF LockHot, CanLockRange, Goto, LockRange, Leave
<1>8. CASE SyncHotJournal(c)
  BY <1>8 DEF SyncHotJournal, Goto, ToShared
<1>9. CASE ReadHeader(c)
  BY <1>9 DEF ReadHeader, From, Goto, Remaining
<1>10. CASE RestorePage(c)
  BY <1>10 DEF RestorePage, Remaining
<1>11. CASE SyncRestored(c)
  BY <1>11 DEF SyncRestored, From, Goto
<1>12. CASE FinalizeJournal(c)
  BY <1>12 DEF FinalizeJournal, Goto, ToShared, Leave
<1>13. CASE ReadPage(c)
  BY <1>13 DEF ReadPage
<1>14. CASE EndQuery(c)
  BY <1>14 DEF EndQuery, Goto, Leave
<1>15. CASE Begin(c)
  BY <1>15 DEF Begin, Goto, Leave, Changeable
<1>16. CASE OpenJournal(c)
  BY <1>16 DEF OpenJournal, From, Goto, Remaining
<1>17. CASE AddPageToJournal(c)
  BY <1>17 DEF AddPageToJournal, Remaining
<1>18. CASE LockPending(c)
  BY <1>18 DEF LockPending, From, Goto, DropReadLock
<1>19. CASE LockExclusive(c)
  BY <1>19 DEF LockExclusive, Goto, CanLockRange, LockRange
<1>20. CASE SyncJournal(c)
  BY <1>20 DEF SyncJournal, From, Goto
<1>21. CASE WriteRecordCount(c)
  BY <1>21 DEF WriteRecordCount, From, Goto
<1>22. CASE SyncJournalAgain(c)
  BY <1>22 DEF SyncJournalAgain, From, Goto, Remaining
<1>23. CASE WritePage(c)
  BY <1>23 DEF WritePage, Remaining
<1>24. CASE SyncDatabase(c)
  BY <1>24 DEF SyncDatabase, From, Goto
<1>25. CASE EndTransaction(c)
  BY <1>25 DEF EndTransaction, Goto, ToShared, Leave
<1>26. CASE Unlock(c)
  BY <1>26 DEF Unlock, Goto, Leave
<1> QED BY <1>1, <1>2, <1>3, <1>4, <1>5, <1>6, <1>7, <1>8, <1>9, <1>10, <1>11, <1>12, <1>13, <1>14, <1>15, <1>16, <1>17, <1>18, <1>19, <1>20, <1>21, <1>22, <1>23, <1>24, <1>25, <1>26 DEF Pager

(* An end of a process and a failing call let go of every lock.              *)
LEMMA LocksFail ==
    ASSUME LInv, NEW c \in Calls, Fail(c) \/ Crash(c)
    PROVE  LInv'
<1> USE JournalConstants DEF Fault, LInv, LockTypes, Before, Inserting, Exclusive, Ended, work, locks, Fail, Crash, Goto,
        Leave, Running
<1>1. LockTypes' /\ \A o \in Calls \ {c} : Undisturbed(o)
  BY DEF Undisturbed
<1>2. Fits(c)'
  BY DEF Fits, RollsBack, Sharing, Ranging
<1> QED BY <1>1, <1>2, OthersFit

(* After a power loss nobody holds a lock, and nobody is in progress.        *)
LEMMA LocksPowerLoss == ASSUME LInv, PowerLoss PROVE LInv'
<1> USE JournalConstants DEF Fault, LInv, LockTypes, PowerLoss, Before, Inserting, Exclusive, Ended, work
<1>1. LockTypes'
  BY DEF Running
<1>2. ASSUME NEW c \in Calls PROVE Fits(c)'
  BY DEF Fits, Running, RollsBack, Sharing, Ranging
<1> QED BY <1>1, <1>2

(* The locks fit the calls after every step.                                 *)
LEMMA LocksNext == LInv /\ [Next]_vars => LInv'
<1> SUFFICES ASSUME LInv, [Next]_vars PROVE LInv'
  OBVIOUS
<1>1. ASSUME NEW c \in Calls, Pager(c), UNCHANGED faults PROVE LInv'
  <2>1. Fits(c)' /\ LockTypes' /\ \A o \in Calls \ {c} : Undisturbed(o)
    BY <1>1, LocksFrame, LocksOwn
  <2>2. \A o \in Calls : Fits(o)'
    BY <2>1, OthersFit DEF LInv
  <2> QED BY <1>1, <2>1, <2>2 DEF LInv
<1>2. CASE UNCHANGED vars
  BY <1>2 DEF vars, work, locks, LInv, LockTypes, Fits, RollsBack
<1> QED BY <1>1, <1>2, LocksFail, LocksPowerLoss DEF Next, AllEnded

(* A call that holds a lock or has the journal open is in progress.          *)
LEMMA HoldersRun ==
    ASSUME LInv, NEW c \in Calls, c \in readers \cup {pending, reserved, writer} \/ Opens(c)
    PROVE  Running(c)
BY DEF LInv, Fits, Opens, Running, Ended, Sharing, Ranging, Exclusive, Inserting, RollsBack

(* Only other calls in progress refuse one; what was left behind by ended    *)
(* processes, failures and power losses never does.                          *)
THEOREM RefusedByOthersOnly == Spec => AloneIsNotRefused
<1> DEFINE Refused(c) == faults' = faults /\ GivesUp(c)
           Accompanied(c) == \E o \in Calls \ {c} : Running(o)
<1>1. ASSUME LInv, Next, NEW c \in Calls, Refused(c) PROVE Accompanied(c)
  <2> USE JournalConstants, <1>1 DEF LInv, LockTypes
  <2>1. PICK d \in Calls : Pager(d)
    BY <1>1 DEF Next, Fail, Crash, PowerLoss, Fault, AllEnded, vars, GivesUp, Ended
  <2>2. d = c
    BY <2>1, <1>1, LocksFrame DEF GivesUp, Undisturbed
  <2>3. ASSUME SharedLock(c) PROVE Accompanied(c)
    <3>1. at[c] = "lock" /\ ~CanShare
      BY <1>1, <2>3 DEF SharedLock, Goto, GivesUp
    <3>2. PICK o \in Calls : o \in {pending, writer}
      BY <3>1 DEF CanShare
    <3>3. o # c
      BY <3>1, <3>2 DEF Fits, Exclusive, Ranging, RollsBack
    <3> QED BY <3>2, <3>3, HoldersRun
  <2>4. ASSUME LockHot(c) PROVE Accompanied(c)
    <3>1. at[c] = "lock_hot" /\ ~CanLockRange
      BY <1>1, <2>4 DEF LockHot, Goto, GivesUp
    <3>2. PICK o \in Calls : o \in readers \cup {writer}
      BY <3>1 DEF CanLockRange
    <3>3. o # c
      BY <3>1, <3>2 DEF Fits, Exclusive, Ranging, Sharing
    <3> QED BY <3>2, <3>3, HoldersRun
  <2>5. ASSUME FinalizeJournal(c) PROVE Accompanied(c)
    <3>1. ~CanDelete(c)
      BY <1>1, <2>5 DEF FinalizeJournal, Goto, GivesUp
    <3>2. PICK o \in Calls \ {c} : Opens(o)
      BY <3>1 DEF CanDelete
    <3> QED BY <3>2, HoldersRun
  <2>6. ASSUME EndTransaction(c) PROVE FALSE
    BY <1>1, <2>6 DEF EndTransaction, Goto, GivesUp, Fits, Inserting, Exclusive
  <2>7. ASSUME Begin(c) PROVE Accompanied(c)
    <3>1. at[c] = "reader" /\ reserved # None
      BY <1>1, <2>7 DEF Begin, Goto, GivesUp
    <3>2. reserved \in Calls \ {c}
      BY <3>1 DEF Fits, Inserting, Exclusive, RollsBack
    <3> QED BY <3>2, HoldersRun
  <2>8. ASSUME LockExclusive(c) PROVE Accompanied(c)
    <3>1. at[c] = "pending" /\ ~CanLockRange
      BY <1>1, <2>8 DEF LockExclusive, Goto, GivesUp
    <3>2. PICK o \in Calls : o \in readers \cup {writer}
      BY <3>1 DEF CanLockRange
    <3>3. o # c
      BY <3>1, <3>2 DEF Fits, Exclusive, Ranging, Sharing
    <3> QED BY <3>2, <3>3, HoldersRun
  <2>9. ASSUME \/ Open(c) \/ JournalExists(c) \/ CheckReservedLock(c) \/ InspectJournal(c) \/ DropForHot(c)
               \/ SyncHotJournal(c) \/ ReadHeader(c) \/ RestorePage(c) \/ SyncRestored(c) \/ ReadPage(c)
               \/ EndQuery(c) \/ OpenJournal(c) \/ AddPageToJournal(c) \/ LockPending(c) \/ SyncJournal(c)
               \/ WriteRecordCount(c) \/ SyncJournalAgain(c) \/ WritePage(c) \/ SyncDatabase(c) \/ Unlock(c)
        PROVE  FALSE
    BY <1>1, <2>9 DEF GivesUp, Goto, From, Leave, Open, JournalExists, CheckReservedLock, InspectJournal,
       DropForHot, SyncHotJournal, ReadHeader, RestorePage, SyncRestored, ReadPage, EndQuery, OpenJournal,
       AddPageToJournal, LockPending, SyncJournal, WriteRecordCount, SyncJournalAgain, WritePage,
       SyncDatabase, Unlock
  <2> QED BY <2>1, <2>2, <2>3, <2>4, <2>5, <2>6, <2>7, <2>8, <2>9 DEF Pager
<1>2. LInv /\ [Next]_vars => [faults' = faults =>
         \A c \in Calls : GivesUp(c) => \E o \in Calls \ {c} : Running(o)]_vars
  BY <1>1 DEF vars
<1> QED BY <1>2, LocksInit, LocksNext, PTL DEF Spec, AloneIsNotRefused
=============================================================================
