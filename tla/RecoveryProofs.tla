---------------------------- MODULE RecoveryProofs ----------------------------
(***************************************************************************)
(* The files, the locks and the journal implement the atomic log, for any  *)
(* number of calls and pages and every number of faults, once the database *)
(* has been created.                                                       *)
(***************************************************************************)
EXTENDS JournalProofs, FiniteSetTheorems, WellFoundedInduction

Contents == {Absent} \cup SUBSET Writers

Journals ==
    [exists : BOOLEAN, by : Writers \cup {None}, magic : BOOLEAN, orig : Int,
     records : [Pages -> {NoRecord, Torn} \cup Contents]]

FileTypes ==
    /\ db \in [Pages -> {Torn} \cup Contents]
    /\ kept \in [Pages -> SUBSET ({Torn} \cup Contents)]
    /\ \A p \in Pages : db[p] \in kept[p]
    /\ journal \in Journals /\ safe \in Journals

\* A database that has been created and shows no part of an insert.
IsDatabase(d) ==
    /\ d \in [Pages -> Contents] /\ d[1] # Absent
    /\ \A p, q \in Pages : q <= p /\ d[p] # Absent => d[q] # Absent

\* The database file is on the disk as it is.
Settled == \A p \in Pages : kept[p] = {db[p]}

\* Whatever a power loss makes of the database file, j leads back to one database.
CanUndo(j) ==
    /\ j.exists /\ j.by # None /\ j.orig >= 1
    /\ \A p \in Pages :
          /\ p <= j.orig => Absent \notin kept[p]
          /\ p <= j.orig /\ j.records[p] = NoRecord => kept[p] = {db[p]} /\ db[p] \in SUBSET Writers
          /\ j.records[p] # NoRecord => p <= j.orig /\ j.records[p] \in SUBSET Writers

(* An insert is undone by its journal from the moment it has the magic, and  *)
(* what has survived of the journal by then leads to the same database.      *)
Recoverable ==
    /\ journal.magic => CanUndo(journal)
    /\ safe.magic => CanUndo(safe)
    /\ ~journal.magic => IsDatabase(db) /\ Settled
    /\ journal.magic => \/ safe = journal
                        \/ safe = [journal EXCEPT !.magic = FALSE] /\ Settled /\ Image = db
    /\ ~journal.magic /\ safe.magic => safe.by # journal.by
    /\ \A c \in Calls : journal.by = c \/ safe.by = c => dirty[c] # {} /\ at[c] # "locked"

(* Who reads or is about to write has found no journal to play back.         *)
FindsNoneHot(c) ==
    at[c] \in {"reader", "locked", "journal", "pending", "sync", "count"} => ~journal.magic

(* The journal of an insert is its own, with the old contents of the pages   *)
(* it changes, and on the disk before they are changed.                      *)
Journalled(c) ==
    /\ at[c] \in Inserting \ {"locked"} \/ RollsBack(c) => journal.exists /\ journal.by = c
    /\ at[c] \in {"journal", "pending", "sync", "count"} =>
          \A p \in Pages : /\ p <= journal.orig <=> db[p] # Absent
                           /\ journal.records[p] \in {NoRecord, db[p]}
                           /\ journal.records[p] # NoRecord => p <= journal.orig
    /\ at[c] = "journal" => \A p \in todo[c] : p <= journal.orig
    /\ at[c] \in Inserting \ {"locked"} =>
          \A p \in dirty[c] :
             p <= journal.orig => journal.records[p] # NoRecord \/ (at[c] = "journal" /\ p \in todo[c])
    /\ at[c] \in {"count", "write", "finish"} => safe = journal
    /\ at[c] \in {"resync", "write", "finish"} => journal.magic
    /\ at[c] = "resync" => Settled /\ Image = db

(* New pages follow the last without a gap.                                  *)
WithoutGap(c) ==
    /\ at[c] = "locked" => \A p \in dirty[c], q \in Pages : q < p /\ db[q] = Absent => q \in dirty[c]
    /\ at[c] \in Inserting \ {"locked"} =>
          \A p \in dirty[c], q \in Pages : q < p /\ q > journal.orig => q \in dirty[c]

\* The pages that the insert of c has changed in the file so far.
Changed(c) == IF at[c] = "write" THEN dirty[c] \ todo[c] ELSE dirty[c]

Written(c) ==
    /\ at[c] \in {"write", "finish"} =>
          \A p \in Pages : db[p] = IF p \in Changed(c) THEN (Image[p] \ Absent) \cup {c} ELSE Image[p]
    /\ at[c] = "write" => todo[c] \subseteq dirty[c]
    /\ at[c] = "finish" => Settled

(* A playback goes on until the file is what it leads to, on the disk too.   *)
PlaysBack(c) ==
    /\ at[c] \in {"header", "restore"} => safe = journal /\ journal.exists
    /\ at[c] = "restore" => /\ ~journal.magic => todo[c] = {}
                            /\ \A p \in todo[c] : journal.records[p] # NoRecord
                            /\ \A p \in Pages \ todo[c] : db[p] = Image[p]
    /\ at[c] = "finalize" /\ journal.magic => writer = c /\ Settled /\ Image = db

\* A query has read nothing but the file as it is.
Queries(c) ==
    /\ c \in Writers \/ at[c] \notin {"reader"} \cup Ended => seen[c] = NoRecords
    /\ at[c] = "reader" => \A p \in Pages : seen[c][p] \in {NoRecord, db[p]}

Holds(c) == FindsNoneHot(c) /\ Journalled(c) /\ WithoutGap(c) /\ Written(c) /\ PlaysBack(c) /\ Queries(c)

FInv ==
    /\ FileTypes /\ Recoverable /\ \A c \in Calls : Holds(c)
    /\ seen \in [Calls -> [Pages -> {NoRecord, Torn} \cup Contents]]

IInv == LInv /\ FInv

-----------------------------------------------------------------------------
(* Values that mark something are no contents of pages.                      *)
LEMMA Marks ==
    /\ Absent # NoRecord /\ Torn # NoRecord /\ Absent # Torn
    /\ \A W \in SUBSET Writers : W # Absent /\ W # NoRecord /\ W # Torn
    /\ \A c \in Calls : \A W : (W \ Absent) \cup {c} # Absent
    /\ \A c \in Writers : \A W \in Contents : (W \ Absent) \cup {c} \in SUBSET Writers
BY JournalConstants DEF Absent, NoRecord, Torn, Contents

(* The least of a set of naturals, without which nothing is counted.         *)
LEMMA LeastOf ==
    ASSUME NEW S, S \subseteq Nat, S # {}
    PROVE  \E n \in S : \A m \in S : n <= m
<1>1. S \subseteq Nat
  OBVIOUS
<1> DEFINE R == OpToRel(<, Nat)
<1>4. IsWellFoundedOn(R, Nat)
  BY NatLessThanWellFounded
<1> HIDE DEF R
<1>2. PICK n \in S : \A m \in S : ~(<<m, n>> \in R)
  BY <1>1, <1>4, WFMin
<1>3. ASSUME NEW m \in S PROVE n <= m
  <2>1. m \in Nat /\ n \in Nat
    BY <1>1
  <2>2. ~(m < n)
    BY <1>2, <2>1 DEF OpToRel, R
  <2> QED BY <2>1, <2>2
<1> QED BY <1>3

(* The size of a database file is the number of its last page.               *)
LEMMA SizeIsLast ==
    ASSUME NEW d
    PROVE  /\ Size(d) \in 0..PageCount
           /\ \A p \in Pages : p <= Size(d) <=> \E q \in Pages : q >= p /\ d[q] # Absent
<1> DEFINE S == {p \in Pages : \E q \in Pages : q >= p /\ d[q] # Absent}
           T == {n \in 0..PageCount : n + 1 \notin S}
<1>1. PageCount \in T
  BY JournalConstants DEF Pages
<1>2. T \subseteq Nat
  BY JournalConstants
<1>3. PICK n \in T : \A m \in T : n <= m
  BY <1>1, <1>2, LeastOf
<1>4. n \in 0..PageCount /\ n + 1 \notin S
  BY <1>3
<1>5. ASSUME NEW i \in S PROVE i <= n
  <2>1. SUFFICES ASSUME i > n PROVE FALSE
    BY <1>4 DEF Pages
  <2>2. n + 1 \in Pages /\ n + 1 <= i
    BY <1>4, <2>1, JournalConstants DEF Pages
  <2>3. PICK q \in Pages : q >= i /\ d[q] # Absent
    OBVIOUS
  <2>4. q >= n + 1
    BY <2>2, <2>3, <1>4 DEF Pages
  <2> QED BY <1>4, <2>2, <2>3, <2>4
<1>6. ASSUME NEW i \in 1..n PROVE i \in S
  <2>1. i - 1 \in 0..PageCount /\ i - 1 < n
    BY <1>4, JournalConstants
  <2>2. (i - 1) + 1 = i
    OBVIOUS
  <2>3. i - 1 \in Nat /\ n \in Nat /\ ~(n <= i - 1)
    BY <1>4, <2>1
  <2>4. i - 1 \notin T
    BY <1>3, <2>3
  <2> QED BY <2>1, <2>2, <2>4
<1>7. S = 1..n
  <2>1. S \subseteq 1..PageCount
    BY DEF Pages
  <2>2. \A i \in 1..PageCount : i <= n => i \in 1..n
    BY <1>4
  <2> HIDE DEF S
  <2> QED BY <1>5, <1>6, <2>1, <2>2
<1>8. Size(d) = n
  <2>1. Size(d) = Cardinality(1..n)
    BY <1>7 DEF Size
  <2>2. Cardinality(1..n) = n
    BY <1>4, FS_Interval
  <2> QED BY <2>1, <2>2
<1>9. \A p \in Pages : p <= n <=> p \in S
  BY <1>7, <1>4 DEF Pages
<1> QED BY <1>4, <1>8, <1>9

(* A database has a first page and no gap before its last one.               *)
LEMMA SizeOfDatabase ==
    ASSUME NEW d, IsDatabase(d)
    PROVE  Size(d) \in Pages /\ \A p \in Pages : p <= Size(d) <=> d[p] # Absent
<1>1. 1 \in Pages
  BY JournalConstants DEF Pages
<1>2. Size(d) \in 0..PageCount /\ \A p \in Pages : p <= Size(d) <=> \E q \in Pages : q >= p /\ d[q] # Absent
  BY SizeIsLast
<1>3. 1 <= Size(d)
  BY <1>1, <1>2 DEF IsDatabase
<1>4. Size(d) \in Pages
  BY <1>2, <1>3 DEF Pages
<1>5. ASSUME NEW p \in Pages PROVE p <= Size(d) <=> d[p] # Absent
  <2>1. ASSUME d[p] # Absent PROVE p <= Size(d)
    <3>1. p >= p
      BY DEF Pages
    <3> QED BY <1>2, <2>1, <3>1
  <2>2. ASSUME p <= Size(d) PROVE d[p] # Absent
    <3>1. PICK q \in Pages : q >= p /\ d[q] # Absent
      BY <1>2, <2>2
    <3>2. p <= q
      BY <3>1 DEF Pages
    <3> QED BY <3>1, <3>2 DEF IsDatabase
  <2> QED BY <2>1, <2>2
<1> QED BY <1>4, <1>5

(* A file that has its first page is recovered page by page.                 *)
LEMMA RecoveredPages ==
    ASSUME NEW d, NEW j, d[1] # Absent
    PROVE  /\ ~(j.exists /\ j.magic) => Recovered(d, j) = d
           /\ j.exists /\ j.magic => Recovered(d, j) = [p \in Pages |->
                IF p > j.orig THEN Absent ELSE IF j.records[p] # NoRecord THEN j.records[p] ELSE d[p]]
<1>1. 1 \in Pages
  BY JournalConstants DEF Pages
<1>2. Size(d) > 0
  BY <1>1, SizeIsLast DEF Pages
<1> QED BY <1>2 DEF Recovered

(* All that a power loss may leave of the database leads to the same.        *)
LEMMA UndoneAlike ==
    ASSUME FileTypes, NEW j \in Journals, j.magic, CanUndo(j),
           NEW d, \A p \in Pages : d[p] \in kept[p]
    PROVE  /\ d[1] # Absent /\ Recovered(d, j) = Recovered(db, j) /\ IsDatabase(Recovered(d, j))
           /\ \A p \in Pages : p <= j.orig <=> Recovered(db, j)[p] # Absent
<1>1. 1 \in Pages
  BY JournalConstants DEF Pages
<1>2. j.exists /\ j.orig \in Int /\ 1 <= j.orig
  BY DEF CanUndo, Journals
<1>3. d[1] # Absent /\ db[1] # Absent
  BY <1>1, <1>2 DEF CanUndo, FileTypes
<1> DEFINE Undone(e) == [p \in Pages |->
                IF p > j.orig THEN Absent ELSE IF j.records[p] # NoRecord THEN j.records[p] ELSE e[p]]
<1>4. Recovered(d, j) = Undone(d) /\ Recovered(db, j) = Undone(db)
  BY <1>2, <1>3, RecoveredPages
<1>5. ASSUME NEW p \in Pages, p <= j.orig
      PROVE  Undone(d)[p] = Undone(db)[p] /\ Undone(d)[p] \in SUBSET Writers
  BY <1>5, <1>2 DEF CanUndo, Pages
<1>6. ASSUME NEW p \in Pages, ~(p <= j.orig)
      PROVE  Undone(d)[p] = Absent /\ Undone(db)[p] = Absent
  BY <1>6, <1>2 DEF Pages
<1>7. Undone(d) = Undone(db)
  BY <1>5, <1>6
<1>8. \A p \in Pages : p <= j.orig <=> Undone(db)[p] # Absent
  BY <1>5, <1>6, Marks
<1>9. IsDatabase(Undone(d))
  <2>1. \A p, q \in Pages : q <= p /\ Undone(d)[p] # Absent => Undone(d)[q] # Absent
    BY <1>7, <1>8, <1>2 DEF Pages
  <2>2. \A p \in Pages : Undone(d)[p] \in Contents
    BY <1>5, <1>6 DEF Contents
  <2>3. Undone(d)[1] # Absent
    BY <1>1, <1>2, <1>7, <1>8
  <2> QED BY <2>1, <2>2, <2>3 DEF IsDatabase
<1> HIDE DEF Undone
<1> QED BY <1>3, <1>4, <1>7, <1>8, <1>9

-----------------------------------------------------------------------------
\* What a power loss may leave instead of the image; it changes by settling only.
Previous == Recovered(db, safe)
Settling == Previous' \in {Previous, Image'}

(* What the next reader will make of the files is a database at any time.    *)
LEMMA ImageFacts ==
    ASSUME FileTypes, Recoverable
    PROVE  /\ db[1] # Absent /\ IsDatabase(Image) /\ Size(db) > 0
           /\ ~journal.magic => Image = db
           /\ journal.magic => /\ \A p \in Pages : p <= journal.orig <=> Image[p] # Absent
                               /\ \A p \in Pages : Image[p] =
                                    IF p > journal.orig THEN Absent
                                    ELSE IF journal.records[p] # NoRecord THEN journal.records[p] ELSE db[p]
<1>0. 1 \in Pages
  BY JournalConstants DEF Pages
<1>1. CASE journal.magic
  <2>1. CanUndo(journal) /\ journal \in Journals /\ \A p \in Pages : db[p] \in kept[p]
    BY <1>1 DEF Recoverable, FileTypes
  <2>2. db[1] # Absent /\ IsDatabase(Image) /\ \A p \in Pages : p <= journal.orig <=> Image[p] # Absent
    BY <1>1, <2>1, UndoneAlike DEF Image
  <2>3. Image = [p \in Pages |-> IF p > journal.orig THEN Absent
                    ELSE IF journal.records[p] # NoRecord THEN journal.records[p] ELSE db[p]]
    BY <1>1, <2>1, <2>2, RecoveredPages DEF Image, CanUndo
  <2>4. Size(db) > 0
    BY <1>0, <2>2, SizeIsLast DEF Pages
  <2> QED BY <1>1, <2>2, <2>3, <2>4
<1>2. CASE ~journal.magic
  <2>1. IsDatabase(db)
    BY <1>2 DEF Recoverable
  <2>2. Image = db
    BY <1>2, <2>1, RecoveredPages DEF Image, IsDatabase
  <2>3. Size(db) > 0
    BY <1>0, <2>1, SizeOfDatabase DEF Pages
  <2> QED BY <1>2, <2>1, <2>2, <2>3 DEF IsDatabase
<1> QED BY <1>1, <1>2

\* The last conjunct of Recoverable is about the calls; the others are about the files.
Authors == \A c \in Calls : journal.by = c \/ safe.by = c => dirty[c] # {} /\ at[c] # "locked"

(* What the operations on the files preserve.                                *)
LEMMA SyncJournalKeeps ==
    ASSUME FileTypes, Recoverable, SyncJournalFile, Authors'
    PROVE  FileTypes' /\ Recoverable' /\ Image' = Image /\ Settling
<1>1. Image' = Image
  BY DEF SyncJournalFile, Image, Recovered, Size
<1>2. FileTypes' /\ Recoverable'
  BY <1>1 DEF FileTypes, Recoverable, SyncJournalFile, CanUndo, Authors, IsDatabase, Settled
<1>3. Settling
  BY DEF SyncJournalFile, Settling, Previous, Image
<1> QED BY <1>1, <1>2, <1>3

(* A sync of the database makes the names durable too.                       *)
LEMMA SyncDatabaseKeeps ==
    ASSUME FileTypes, Recoverable, SyncDatabaseFile, Authors'
    PROVE  FileTypes' /\ Recoverable' /\ Image' = Image /\ Settled' /\ Settling
<1>1. Image' = Image
  BY DEF SyncDatabaseFile, Image, Recovered, Size
<1>2. FileTypes' /\ Settled'
  BY DEF SyncDatabaseFile, FileTypes, Settled
<1>3. journal.magic => CanUndo(journal)'
  BY DEF Recoverable, SyncDatabaseFile, CanUndo, FileTypes
<1>4. Settling
  BY DEF SyncDatabaseFile, Settling, Previous, Image
<1>5. Recoverable'
  BY <1>1, <1>2, <1>3 DEF Recoverable, SyncDatabaseFile, Authors, IsDatabase
<1> QED BY <1>1, <1>2, <1>4, <1>5

(* The journal may be deleted once the database is what it should be.        *)
LEMMA DeleteKeeps ==
    ASSUME FileTypes, Recoverable, DeleteJournal, IsDatabase(db), Settled, Authors'
    PROVE  FileTypes' /\ Recoverable' /\ Image' = db /\ Settling
<1>1. journal' = NoJournal /\ journal'.magic = FALSE /\ journal'.by = None
  BY DEF DeleteJournal, NoJournal
<1>2. FileTypes'
  BY DEF DeleteJournal, FileTypes, NoJournal, Journals, NoRecords
<1>3. IsDatabase(db)' /\ Settled'
  BY DEF DeleteJournal, IsDatabase, Settled
<1>4. safe.magic => CanUndo(safe)' /\ safe.by # None
  BY DEF DeleteJournal, Recoverable, CanUndo
<1>5. Recoverable'
  BY <1>1, <1>3, <1>4 DEF Recoverable, DeleteJournal, Authors
<1>6. Image' = db
  <2>1. ~(NoJournal.exists /\ NoJournal.magic) /\ db[1] # Absent
    BY DEF NoJournal, IsDatabase
  <2>2. Recovered(db, NoJournal) = db
    BY <2>1, RecoveredPages
  <2>3. Image' = Recovered(db', journal')
    BY DEF Image
  <2> QED BY <2>2, <2>3, <1>1 DEF DeleteJournal
<1>7. Settling
  BY DEF DeleteJournal, Settling, Previous
<1> QED BY <1>2, <1>5, <1>6, <1>7

(* A journal without the magic changes nothing for the next reader.          *)
LEMMA JournalKeeps ==
    ASSUME FileTypes, Recoverable, NEW j \in Journals, ChangeJournal(j), ~journal.magic, ~j.magic,
           safe.magic => safe.by # j.by, Authors'
    PROVE  FileTypes' /\ Recoverable' /\ Image' = Image /\ Settled' /\ Settling
<1>1. IsDatabase(db) /\ Settled /\ db[1] # Absent
  BY DEF Recoverable, IsDatabase
<1>2. FileTypes'
  BY DEF ChangeJournal, FileTypes
<1>3. IsDatabase(db)' /\ Settled'
  BY <1>1 DEF ChangeJournal, IsDatabase, Settled
<1>4. safe.magic => CanUndo(safe)'
  BY DEF ChangeJournal, Recoverable, CanUndo
<1>5. Recoverable'
  BY <1>3, <1>4 DEF Recoverable, ChangeJournal, Authors
<1>6. Image' = Recovered(db, j) /\ Image = Recovered(db, journal)
  BY DEF Image, ChangeJournal
<1>7. Recovered(db, j) = db /\ Recovered(db, journal) = db
  BY <1>1, RecoveredPages
<1>8. Settling
  BY DEF ChangeJournal, Settling, Previous
<1> QED BY <1>2, <1>3, <1>5, <1>6, <1>7, <1>8

(* Nor does the magic, as long as the database has not been changed.         *)
LEMMA CountKeeps ==
    ASSUME FileTypes, Recoverable, ChangeJournal([journal EXCEPT !.magic = TRUE]),
           ~journal.magic, safe = journal, journal.exists, journal.by # None, Authors',
           \A p \in Pages : /\ p <= journal.orig <=> db[p] # Absent
                            /\ journal.records[p] \in {NoRecord, db[p]}
                            /\ journal.records[p] # NoRecord => p <= journal.orig
    PROVE  FileTypes' /\ Recoverable' /\ Image' = Image /\ Settled' /\ Image' = db' /\ Settling
<1> DEFINE j == [journal EXCEPT !.magic = TRUE]
<1>0. 1 \in Pages /\ journal \in Journals
  BY JournalConstants DEF Pages, FileTypes
<1>1. IsDatabase(db) /\ Settled /\ db[1] # Absent
  BY DEF Recoverable, IsDatabase
<1>2. /\ j \in Journals /\ j.magic /\ j.exists /\ j.by # None /\ j.by = journal.by
      /\ j.orig = journal.orig /\ j.records = journal.records /\ journal = [j EXCEPT !.magic = FALSE]
  BY <1>0 DEF Journals
<1> HIDE DEF j
<1>3. journal' = j /\ db' = db /\ kept' = kept /\ safe' = safe
  BY DEF ChangeJournal, j
<1>4. FileTypes'
  BY <1>2, <1>3 DEF FileTypes
<1>5. Settled' /\ IsDatabase(db)'
  BY <1>1, <1>3 DEF Settled, IsDatabase
<1>6. Recovered(db, j) = db
  <2> DEFINE Undone == [p \in Pages |->
                IF p > j.orig THEN Absent ELSE IF j.records[p] # NoRecord THEN j.records[p] ELSE db[p]]
  <2>1. Recovered(db, j) = Undone
    BY <1>1, <1>2, RecoveredPages
  <2>2. ASSUME NEW p \in Pages PROVE Undone[p] = db[p]
    <3>1. p \in Int /\ j.orig \in Int /\ (p > j.orig <=> ~(p <= j.orig))
      BY <1>2 DEF Journals, Pages
    <3> QED BY <3>1, <1>2
  <2>3. Undone = [p \in Pages |-> db[p]] /\ db = [p \in Pages |-> db[p]]
    BY <2>2 DEF FileTypes
  <2> QED BY <2>1, <2>3
<1>7. Image' = db /\ Image = db
  <2>1. Recovered(db, journal) = db
    BY <1>1, RecoveredPages
  <2> QED BY <2>1, <1>3, <1>6 DEF Image
<1>8. CanUndo(journal)'
  <2>1. j.orig >= 1
    BY <1>0, <1>1, <1>2 DEF Journals
  <2>2. \A p \in Pages : kept[p] = {db[p]} /\ (db[p] # Absent => db[p] \in SUBSET Writers)
    BY <1>1 DEF Settled, IsDatabase, Contents
  <2> QED BY <1>2, <1>3, <2>1, <2>2 DEF CanUndo
<1>9. Recoverable'
  BY <1>2, <1>3, <1>5, <1>7, <1>8 DEF Recoverable, Authors
<1>10. Settling
  BY <1>3 DEF Settling, Previous
<1> QED BY <1>3, <1>4, <1>5, <1>7, <1>9, <1>10

(* Nor does a change of the pages that the journal on the disk leads back.   *)
LEMMA DatabaseKeeps ==
    ASSUME FileTypes, Recoverable, NEW d \in [Pages -> {Torn} \cup Contents], ChangeDatabase(d),
           journal.magic, safe = journal, Authors',
           \A p \in Pages : p <= journal.orig =>
               d[p] # Absent /\ (journal.records[p] = NoRecord => d[p] = db[p])
    PROVE  FileTypes' /\ Recoverable' /\ Image' = Image /\ Settling
<1>0. 1 \in Pages /\ journal \in Journals /\ CanUndo(journal)
  BY JournalConstants DEF Pages, FileTypes, Recoverable
<1>1. journal.exists /\ journal.orig \in Int /\ 1 <= journal.orig
  BY <1>0 DEF CanUndo, Journals
<1>2. d[1] # Absent /\ db[1] # Absent
  BY <1>0, <1>1 DEF CanUndo, FileTypes
<1>3. /\ journal' = journal /\ safe' = safe /\ db' = d
      /\ \A p \in Pages : kept'[p] = IF d[p] = db[p] THEN kept[p] ELSE kept[p] \cup {d[p], Torn}
  BY DEF ChangeDatabase
<1>4. FileTypes'
  <2>1. kept' \in [Pages -> SUBSET ({Torn} \cup Contents)]
    BY DEF ChangeDatabase, FileTypes
  <2>2. \A p \in Pages : db'[p] \in kept'[p]
    BY <1>3 DEF FileTypes
  <2> QED BY <1>3, <2>1, <2>2 DEF FileTypes
<1>5. CanUndo(journal)'
  <2>1. ASSUME NEW p \in Pages
        PROVE  /\ p <= journal.orig => Absent \notin kept'[p]
               /\ p <= journal.orig /\ journal.records[p] = NoRecord =>
                     kept'[p] = {db'[p]} /\ db'[p] \in SUBSET Writers
               /\ journal.records[p] # NoRecord => p <= journal.orig /\ journal.records[p] \in SUBSET Writers
    <3>1. Absent # Torn
      BY Marks
    <3>2. CASE d[p] = db[p]
      BY <1>0, <1>3, <3>2 DEF CanUndo
    <3>3. CASE d[p] # db[p]
      <4>1. kept'[p] = kept[p] \cup {d[p], Torn}
        BY <1>3, <3>3
      <4>2. /\ p <= journal.orig => Absent \notin kept[p] /\ d[p] # Absent
            /\ ~(p <= journal.orig /\ journal.records[p] = NoRecord)
            /\ journal.records[p] # NoRecord => p <= journal.orig /\ journal.records[p] \in SUBSET Writers
        BY <1>0, <3>3 DEF CanUndo
      <4> QED BY <3>1, <4>1, <4>2
    <3> QED BY <3>2, <3>3
  <2> QED BY <1>0, <1>3, <2>1 DEF CanUndo
<1>6. Image' = Image
  <2> DEFINE Undone(e) == [p \in Pages |->
                IF p > journal.orig THEN Absent ELSE IF journal.records[p] # NoRecord THEN journal.records[p] ELSE e[p]]
  <2>1. Recovered(d, journal) = Undone(d) /\ Recovered(db, journal) = Undone(db)
    BY <1>1, <1>2, RecoveredPages
  <2>2. ASSUME NEW p \in Pages PROVE Undone(d)[p] = Undone(db)[p]
    BY <1>1 DEF Pages
  <2>3. Undone(d) = Undone(db)
    BY <2>2
  <2> HIDE DEF Undone
  <2> QED BY <1>3, <2>1, <2>3 DEF Image
<1>7. Recoverable'
  BY <1>3, <1>5 DEF Recoverable, Authors
<1>8. Settling
  BY <1>3 DEF Settling, Previous, Image
<1> QED BY <1>4, <1>6, <1>7, <1>8
-----------------------------------------------------------------------------
(* What the steps of a call leave of the others.                             *)
Apart(o) == Undisturbed(o) /\ todo'[o] = todo[o] /\ seen'[o] = seen[o]

(* A step of one call leaves the work of the others alone.                   *)
LEMMA OthersApart ==
    ASSUME IInv, NEW c \in Calls, Pager(c), NEW o \in Calls \ {c}
    PROVE  Apart(o)
<1>0. /\ todo \in [Calls -> SUBSET Pages] /\ seen \in [Calls -> [Pages -> {NoRecord, Torn} \cup Contents]]
      /\ Undisturbed(o)
  BY LocksFrame DEF IInv, LInv, LockTypes, FInv
<1> SUFFICES todo'[o] = todo[o] /\ seen'[o] = seen[o]
  BY <1>0 DEF Apart
<1>1. ASSUME \/ Open(c) \/ SharedLock(c) \/ JournalExists(c) \/ CheckReservedLock(c) \/ InspectJournal(c)
             \/ DropForHot(c) \/ LockHot(c) \/ SyncHotJournal(c) \/ SyncRestored(c) \/ FinalizeJournal(c)
             \/ EndQuery(c) \/ LockPending(c) \/ LockExclusive(c) \/ SyncJournal(c) \/ WriteRecordCount(c)
             \/ SyncDatabase(c) \/ EndTransaction(c) \/ Unlock(c)
      PROVE  UNCHANGED work
  BY <1>1 DEF Open, SharedLock, JournalExists, CheckReservedLock, InspectJournal, DropForHot, LockHot,
     SyncHotJournal, SyncRestored, FinalizeJournal, EndQuery, LockPending, LockExclusive, SyncJournal,
     WriteRecordCount, SyncDatabase, EndTransaction, Unlock
<1>2. ASSUME NEW S, Remaining(c, S), UNCHANGED seen PROVE todo'[o] = todo[o] /\ seen'[o] = seen[o]
  BY <1>0, <1>2 DEF Remaining
<1>3. CASE ReadHeader(c)
  BY <1>2, <1>3 DEF ReadHeader
<1>4. CASE RestorePage(c)
  BY <1>2, <1>4 DEF RestorePage
<1>5. CASE OpenJournal(c)
  BY <1>2, <1>5 DEF OpenJournal
<1>6. CASE AddPageToJournal(c)
  BY <1>2, <1>6 DEF AddPageToJournal
<1>7. CASE SyncJournalAgain(c)
  BY <1>2, <1>7 DEF SyncJournalAgain
<1>8. CASE WritePage(c)
  BY <1>2, <1>8 DEF WritePage
<1>9. CASE ReadPage(c)
  BY <1>0, <1>9 DEF ReadPage
<1>10. CASE Begin(c)
  BY <1>10 DEF Begin
<1> QED BY <1>1, <1>3, <1>4, <1>5, <1>6, <1>7, <1>8, <1>9, <1>10 DEF Pager, work

(* Nothing changes for a call whose files and work stay as they are, ...     *)
LEMMA HoldsApart ==
    ASSUME NEW o \in Calls, Holds(o), Apart(o), UNCHANGED files
    PROVE  Holds(o)'
<1>1. Image' = Image
  BY DEF files, Image
<1>2. FindsNoneHot(o)' /\ WithoutGap(o)' /\ Queries(o)'
  BY DEF Holds, FindsNoneHot, WithoutGap, Queries, Apart, Undisturbed, files
<1>3. Journalled(o)' /\ Written(o)' /\ PlaysBack(o)'
  BY <1>1 DEF Holds, Journalled, Written, PlaysBack, Apart, Undisturbed, files, RollsBack, Changed, Settled
<1> QED BY <1>2, <1>3 DEF Holds

(* ... or reach the disk, ...                                                *)
LEMMA HoldsSynced ==
    ASSUME NEW o \in Calls, Holds(o), Apart(o), SyncJournalFile \/ SyncDatabaseFile, Image' = Image
    PROVE  Holds(o)'
<1>1. db' = db /\ journal' = journal /\ safe' = journal /\ (kept' = kept \/ Settled')
  BY DEF SyncJournalFile, SyncDatabaseFile, Settled
<1>2. Settled => Settled'
  BY <1>1 DEF Settled
<1>3. FindsNoneHot(o)' /\ WithoutGap(o)' /\ Queries(o)'
  BY <1>1 DEF Holds, FindsNoneHot, WithoutGap, Queries, Apart, Undisturbed
<1>4. Journalled(o)' /\ Written(o)' /\ PlaysBack(o)'
  BY <1>1, <1>2 DEF Holds, Journalled, Written, PlaysBack, Apart, Undisturbed, RollsBack, Changed
<1> QED BY <1>3, <1>4 DEF Holds

(* ... or a journal that it does not have open, and that is not hot then, ...*)
LEMMA HoldsClosed ==
    ASSUME NEW o \in Calls, Holds(o), Apart(o), ~Opens(o), db' = db, ~journal'.magic
    PROVE  Holds(o)'
<1>1. FindsNoneHot(o)' /\ WithoutGap(o)' /\ Queries(o)'
  BY DEF Holds, FindsNoneHot, WithoutGap, Queries, Apart, Undisturbed, Opens, Inserting, Exclusive
<1>2. Journalled(o)' /\ Written(o)' /\ PlaysBack(o)'
  BY DEF Holds, Journalled, Written, PlaysBack, Apart, Undisturbed, Opens, Inserting, Exclusive, RollsBack
<1> QED BY <1>1, <1>2 DEF Holds

(* ... nor for one that has not come to the files or is through with them.   *)
Away(o) == at[o] \in {"idle", "lock", "lock_hot"} \cup Ended

(* Whoever is away relies on no file.                                        *)
LEMMA HoldsAway ==
    ASSUME NEW o \in Calls, Holds(o), Apart(o), Away(o)
    PROVE  Holds(o)'
<1>1. FindsNoneHot(o)' /\ WithoutGap(o)' /\ Queries(o)'
  BY DEF Holds, FindsNoneHot, WithoutGap, Queries, Apart, Undisturbed, Away, Ended, Inserting, Exclusive
<1>2. Journalled(o)' /\ Written(o)' /\ PlaysBack(o)'
  BY DEF Holds, Journalled, Written, PlaysBack, Apart, Undisturbed, Away, Ended, Inserting, Exclusive, RollsBack
<1> QED BY <1>1, <1>2 DEF Holds

(* The locks keep the others away from a database that changes, ...          *)
LEMMA OthersAway ==
    ASSUME IInv, NEW c \in Calls, writer = c, journal.magic \/ at[c] = "count", NEW o \in Calls \ {c}
    PROVE  Away(o)
<1>1. /\ at[o] \in Before \cup Inserting \cup Ended \cup {"header", "restore", "finalize", "committed"}
      /\ readers = {} /\ writer # o /\ writer # None
  BY JournalConstants DEF IInv, LInv, LockTypes
<1>2. at[o] \notin Sharing \cup Ranging /\ (at[o] = "finalize" => dirty[o] # {})
  BY <1>1 DEF IInv, LInv, Fits
<1>3. at[o] # "pending" /\ at[o] # "finalize"
  <2>1. CASE journal.magic
    BY <1>1, <2>1 DEF IInv, FInv, Holds, FindsNoneHot, PlaysBack
  <2>2. CASE at[c] = "count"
    <3>1. reserved = c
      BY <2>2 DEF IInv, LInv, Fits, Inserting, Exclusive
    <3>2. ~(at[o] \in Inserting \/ RollsBack(o))
      BY <3>1 DEF IInv, LInv, Fits
    <3> QED BY <1>2, <3>2 DEF Inserting, Exclusive, RollsBack
  <2> QED BY <2>1, <2>2
<1> QED BY <1>1, <1>2, <1>3 DEF Away, Before, Inserting, Exclusive, Sharing, Ranging

(* ... and from the journal of an insert.                                    *)
LEMMA OthersClosed ==
    ASSUME IInv, NEW c \in Calls, at[c] \in {"locked", "journal"}, NEW o \in Calls \ {c}
    PROVE  ~Opens(o)
<1>1. reserved = c /\ readers # {}
  BY DEF IInv, LInv, Fits, Inserting, Exclusive, Sharing
<1>2. writer # o
  BY <1>1, JournalConstants DEF IInv, LInv, LockTypes
<1>3. ~(at[o] \in Inserting \/ RollsBack(o))
  BY <1>1 DEF IInv, LInv, Fits
<1>4. at[o] \notin Ranging /\ (at[o] = "finalize" => dirty[o] # {})
  BY <1>2 DEF IInv, LInv, Fits
<1> QED BY <1>3, <1>4 DEF Opens, Inserting, Exclusive, Ranging, RollsBack
-----------------------------------------------------------------------------
(* What the steps of a call do to the files.                                 *)
Deletes(c) == DeleteJournal /\ CanDelete(c) /\ at[c] \in {"finalize", "finish"}

ChangesJournal(c) ==
    /\ at[c] \in {"locked", "journal"}
    /\ \E j \in Journals : ChangeJournal(j) /\ ~j.magic /\ j.by = c

WritesCount(c) == at[c] = "count" /\ ChangeJournal([journal EXCEPT !.magic = TRUE])

ChangesDatabase(c) ==
    /\ journal.magic /\ writer = c /\ safe = journal
    /\ \E d \in [Pages -> {Torn} \cup Contents] :
          /\ ChangeDatabase(d)
          /\ \A p \in Pages : p <= journal.orig =>
                 d[p] # Absent /\ (journal.records[p] = NoRecord => d[p] = db[p])

(* The steps that change the database have its journal on the disk.          *)
LEMMA ReadHeaderChanges ==
    ASSUME IInv, NEW c \in Calls, ReadHeader(c), journal.magic
    PROVE  ChangesDatabase(c)
<1> DEFINE d == Truncated(db, journal.orig)
<1>1. at[c] = "header" /\ ChangeDatabase(d)
  BY DEF ReadHeader, From
<1>2. writer = c /\ safe = journal
  BY <1>1 DEF IInv, LInv, Fits, Ranging, FInv, Holds, PlaysBack
<1>3. /\ db \in [Pages -> {Torn} \cup Contents] /\ journal.orig \in Int
      /\ \A p \in Pages : db[p] \in kept[p] /\ (p <= journal.orig => Absent \notin kept[p])
  BY DEF IInv, FInv, FileTypes, Recoverable, CanUndo, Journals
<1>4. d \in [Pages -> {Torn} \cup Contents]
  BY <1>3 DEF Truncated, Contents
<1>5. ASSUME NEW p \in Pages, p <= journal.orig PROVE d[p] # Absent /\ d[p] = db[p]
  BY <1>3, <1>5 DEF Truncated, Pages
<1> HIDE DEF d
<1> QED BY <1>1, <1>2, <1>4, <1>5 DEF ChangesDatabase

(* A page is restored to what the journal has of it.                         *)
LEMMA RestorePageChanges ==
    ASSUME IInv, NEW c \in Calls, RestorePage(c)
    PROVE  ChangesDatabase(c)
<1>1. PICK p \in todo[c] : ChangeDatabase([db EXCEPT ![p] = journal.records[p]])
  BY DEF RestorePage
<1> DEFINE d == [db EXCEPT ![p] = journal.records[p]]
<1>2. at[c] = "restore" /\ p \in Pages
  BY DEF RestorePage, IInv, LInv, LockTypes
<1>3. writer = c /\ safe = journal /\ journal.magic /\ journal.records[p] # NoRecord
  BY <1>2 DEF IInv, LInv, Fits, Ranging, FInv, Holds, PlaysBack
<1>4. /\ db \in [Pages -> {Torn} \cup Contents]
      /\ journal.records[p] \in SUBSET Writers
      /\ \A q \in Pages : db[q] \in kept[q] /\ (q <= journal.orig => Absent \notin kept[q])
  BY <1>2, <1>3 DEF IInv, FInv, FileTypes, Recoverable, CanUndo
<1>5. journal.records[p] # Absent
  BY <1>4, Marks
<1>6. d \in [Pages -> {Torn} \cup Contents]
  BY <1>2, <1>4 DEF Contents
<1>7. ASSUME NEW q \in Pages, q <= journal.orig
      PROVE  d[q] # Absent /\ (journal.records[q] = NoRecord => d[q] = db[q])
  BY <1>3, <1>4, <1>5, <1>7
<1> HIDE DEF d
<1> QED BY <1>1, <1>3, <1>6, <1>7 DEF ChangesDatabase, d

(* A page is changed only if the journal has it, or it is a new one.         *)
LEMMA WritePageChanges ==
    ASSUME IInv, NEW c \in Calls, WritePage(c)
    PROVE  ChangesDatabase(c)
<1>1. PICK p \in todo[c] : ChangeDatabase([db EXCEPT ![p] = (@ \ Absent) \cup {c}])
  BY DEF WritePage
<1> DEFINE new == (db[p] \ Absent) \cup {c}
           d == [db EXCEPT ![p] = new]
<1>2. at[c] = "write" /\ p \in Pages /\ p \in dirty[c] /\ c \in Writers
  BY DEF WritePage, IInv, LInv, LockTypes, FInv, Holds, Written, Fits
<1>3. writer = c /\ safe = journal /\ journal.magic /\ (p <= journal.orig => journal.records[p] # NoRecord)
  BY <1>2 DEF IInv, LInv, Fits, Ranging, FInv, Holds, Journalled, Inserting, Exclusive
<1>4. /\ db \in [Pages -> {Torn} \cup Contents]
      /\ \A q \in Pages : db[q] \in kept[q] /\ (q <= journal.orig => Absent \notin kept[q])
  BY <1>3 DEF IInv, FInv, FileTypes, Recoverable, CanUndo
<1>5. db[p] = Image[p]
  BY <1>2 DEF IInv, FInv, Holds, Written, Changed
<1>6. db[p] \in Contents
  BY <1>2, <1>5, ImageFacts DEF IInv, FInv, IsDatabase
<1>7. new \in Contents /\ new # Absent
  BY <1>2, <1>6, Marks DEF Contents
<1> HIDE DEF new
<1>8. d \in [Pages -> {Torn} \cup Contents]
  BY <1>2, <1>4, <1>7
<1>9. ASSUME NEW q \in Pages, q <= journal.orig
      PROVE  d[q] # Absent /\ (journal.records[q] = NoRecord => d[q] = db[q])
  BY <1>3, <1>4, <1>7, <1>9
<1>10. ChangeDatabase(d)
  BY <1>1 DEF new
<1> HIDE DEF d
<1> QED BY <1>3, <1>8, <1>9, <1>10 DEF ChangesDatabase

(* There is no other operation on the files.                                 *)
LEMMA FileOperation ==
    ASSUME IInv, NEW c \in Calls, Pager(c)
    PROVE  \/ UNCHANGED files
           \/ SyncJournalFile \/ SyncDatabaseFile
           \/ Deletes(c) \/ ChangesJournal(c) \/ WritesCount(c) \/ ChangesDatabase(c)
<1>1. ASSUME \/ Open(c) \/ SharedLock(c) \/ JournalExists(c) \/ CheckReservedLock(c) \/ InspectJournal(c)
             \/ DropForHot(c) \/ LockHot(c) \/ ReadPage(c) \/ EndQuery(c) \/ Begin(c) \/ LockPending(c)
             \/ LockExclusive(c) \/ Unlock(c) \/ (ReadHeader(c) /\ ~journal.magic)
      PROVE  UNCHANGED files
  <2>1. Size(db) > 0 /\ Size(db) # 0
    BY ImageFacts, SizeIsLast DEF IInv, FInv
  <2>2. CASE InspectJournal(c)
    BY <2>1, <2>2 DEF InspectJournal
  <2>3. CASE ~InspectJournal(c)
    BY <1>1, <2>3 DEF Open, SharedLock, JournalExists, CheckReservedLock, DropForHot, LockHot, ReadPage, EndQuery,
       Begin, LockPending, LockExclusive, Unlock, ReadHeader
  <2> QED BY <2>2, <2>3
<1>2. ASSUME SyncHotJournal(c) \/ SyncJournal(c) \/ SyncJournalAgain(c)
      PROVE  SyncJournalFile \/ UNCHANGED files
  BY <1>2 DEF SyncHotJournal, SyncJournal, SyncJournalAgain
<1>3. ASSUME SyncRestored(c) \/ SyncDatabase(c) PROVE SyncDatabaseFile
  BY <1>3 DEF SyncRestored, SyncDatabase
<1>4. ASSUME FinalizeJournal(c) \/ EndTransaction(c) PROVE Deletes(c) \/ UNCHANGED files
  BY <1>4 DEF FinalizeJournal, EndTransaction, Deletes
<1>5. ASSUME OpenJournal(c) PROVE ChangesJournal(c)
  <2> DEFINE j == [NoJournal EXCEPT !.exists = TRUE, !.by = c, !.orig = Size(db)]
  <2>1. at[c] = "locked" /\ ChangeJournal(j)
    BY <1>5 DEF OpenJournal, From
  <2>2. c \in Writers
    BY <2>1 DEF IInv, LInv, Fits, Inserting
  <2>3. Size(db) \in Int
    BY SizeIsLast
  <2>4. j \in Journals /\ ~j.magic /\ j.by = c
    BY <2>2, <2>3 DEF NoJournal, Journals, NoRecords
  <2> HIDE DEF j
  <2> QED BY <2>1, <2>4 DEF ChangesJournal
<1>6. ASSUME AddPageToJournal(c) PROVE ChangesJournal(c)
  <2>1. PICK p \in todo[c] : ChangeJournal([journal EXCEPT !.records = [@ EXCEPT ![p] = db[p]]])
    BY <1>6 DEF AddPageToJournal
  <2> DEFINE j == [journal EXCEPT !.records = [@ EXCEPT ![p] = db[p]]]
  <2>2. at[c] = "journal" /\ p \in Pages
    BY <1>6 DEF AddPageToJournal, IInv, LInv, LockTypes
  <2>3. journal \in Journals /\ db \in [Pages -> {Torn} \cup Contents]
    BY DEF IInv, FInv, FileTypes
  <2>4. journal.by = c /\ ~journal.magic
    BY <2>2 DEF IInv, FInv, Holds, FindsNoneHot, Journalled, Inserting
  <2>5. j \in Journals /\ j.magic = journal.magic /\ j.by = journal.by
    BY <2>2, <2>3 DEF Journals
  <2>6. ChangeJournal(j)
    BY <2>1
  <2> HIDE DEF j
  <2> QED BY <2>2, <2>4, <2>5, <2>6 DEF ChangesJournal
<1>7. ASSUME WriteRecordCount(c) PROVE WritesCount(c)
  BY <1>7 DEF WriteRecordCount, WritesCount, From
<1> QED BY <1>1, <1>2, <1>3, <1>4, <1>5, <1>6, <1>7, ReadHeaderChanges, RestorePageChanges, WritePageChanges DEF Pager

(* An insert begins with a change of mind about its pages, and no journal.   *)
LEMMA Beginning ==
    ASSUME IInv, NEW c \in Calls, Pager(c), at'[c] = "locked" \/ dirty'[c] # dirty[c]
    PROVE  UNCHANGED files /\ at[c] = "reader"
<1> USE DEF IInv, LInv, LockTypes
<1>1. CASE Begin(c)
  BY <1>1 DEF Begin
<1>2. CASE ~Begin(c)
  <2>1. ASSUME \/ Open(c) \/ SharedLock(c) \/ JournalExists(c) \/ CheckReservedLock(c) \/ InspectJournal(c)
               \/ DropForHot(c) \/ LockHot(c) \/ SyncHotJournal(c) \/ SyncRestored(c) \/ FinalizeJournal(c)
               \/ EndQuery(c) \/ LockPending(c) \/ LockExclusive(c) \/ SyncJournal(c) \/ WriteRecordCount(c)
               \/ SyncDatabase(c) \/ EndTransaction(c) \/ Unlock(c)
        PROVE  FALSE
    BY <2>1 DEF Open, SharedLock, JournalExists, CheckReservedLock, InspectJournal, DropForHot, LockHot,
       SyncHotJournal, SyncRestored, FinalizeJournal, EndQuery, LockPending, LockExclusive, SyncJournal,
       WriteRecordCount, SyncDatabase, EndTransaction, Unlock, work, From, Goto, Leave
  <2>2. ASSUME \/ ReadHeader(c) \/ RestorePage(c) \/ OpenJournal(c) \/ AddPageToJournal(c) \/ SyncJournalAgain(c)
               \/ WritePage(c) \/ ReadPage(c)
        PROVE  FALSE
    BY <2>2 DEF ReadHeader, RestorePage, OpenJournal, AddPageToJournal, SyncJournalAgain, WritePage, ReadPage,
       From, Goto
  <2> QED BY <1>2, <2>1, <2>2 DEF Pager
<1> QED BY <1>1, <1>2

(* The journals are those of inserts that have begun.                        *)
LEMMA AuthorsKeep == ASSUME IInv, NEW c \in Calls, Pager(c) PROVE Authors'
<1>0. Authors /\ \A o \in Calls : at[o] \in Before => dirty[o] = {}
  BY DEF IInv, LInv, Fits, FInv, Recoverable, Authors
<1>1. ASSUME NEW o \in Calls, journal'.by = o \/ safe'.by = o
      PROVE  dirty'[o] # {} /\ at'[o] # "locked"
  <2>1. CASE UNCHANGED files
    <3>1. journal.by = o \/ safe.by = o
      BY <1>1, <2>1 DEF files
    <3>2. dirty[o] # {} /\ at[o] # "locked" /\ at[o] # "reader"
      BY <3>1, <1>0 DEF Authors, Before
    <3> QED BY <3>2, Beginning, OthersApart DEF Apart, Undisturbed
  <2>2. CASE SyncJournalFile \/ SyncDatabaseFile
    <3>1. journal.by = o
      BY <1>1, <2>2 DEF SyncJournalFile, SyncDatabaseFile
    <3>2. dirty[o] # {} /\ at[o] # "locked" /\ at[o] # "reader"
      BY <3>1, <1>0 DEF Authors, Before
    <3> QED BY <3>2, Beginning, OthersApart DEF Apart, Undisturbed
  <2>3. CASE Deletes(c)
    <3>1. safe.by = o
      BY <1>1, <2>3, JournalConstants DEF Deletes, DeleteJournal, NoJournal
    <3>2. dirty[o] # {} /\ at[o] # "locked" /\ at[o] # "reader"
      BY <3>1, <1>0 DEF Authors, Before
    <3> QED BY <3>2, Beginning, OthersApart DEF Apart, Undisturbed
  <2>4. CASE ChangesJournal(c)
    <3>1. o = c \/ safe.by = o
      BY <1>1, <2>4 DEF ChangesJournal, ChangeJournal
    <3>2. at[c] \in {"locked", "journal"} /\ dirty[c] # {}
      BY <2>4 DEF ChangesJournal, IInv, LInv, Fits, Inserting
    <3>3. at'[c] # "locked" /\ dirty'[c] = dirty[c]
      BY <3>2, Beginning
    <3>4. CASE o # c
      BY <3>1, <3>4, <1>0, OthersApart DEF Authors, Apart, Undisturbed
    <3> QED BY <3>2, <3>3, <3>4
  <2>5. CASE WritesCount(c)
    <3>1. journal.by = o \/ safe.by = o
      BY <1>1, <2>5 DEF WritesCount, ChangeJournal, IInv, FInv, FileTypes, Journals
    <3>2. dirty[o] # {} /\ at[o] # "locked" /\ at[o] # "reader"
      BY <3>1, <1>0 DEF Authors, Before
    <3> QED BY <3>2, Beginning, OthersApart DEF Apart, Undisturbed
  <2>6. CASE ChangesDatabase(c)
    <3>1. journal.by = o \/ safe.by = o
      BY <1>1, <2>6 DEF ChangesDatabase, ChangeDatabase
    <3>2. dirty[o] # {} /\ at[o] # "locked" /\ at[o] # "reader"
      BY <3>1, <1>0 DEF Authors, Before
    <3> QED BY <3>2, Beginning, OthersApart DEF Apart, Undisturbed
  <2> QED BY <2>1, <2>2, <2>3, <2>4, <2>5, <2>6, FileOperation
<1> QED BY <1>1 DEF Authors

(* The journal is deleted when the file is a database and on the disk.       *)
LEMMA DeletedInTime ==
    ASSUME IInv, NEW c \in Calls, at[c] \in {"finalize", "finish"}
    PROVE  IsDatabase(db) /\ Settled
<1>0. FileTypes /\ Recoverable /\ IsDatabase(Image)
  BY ImageFacts DEF IInv, FInv
<1>1. CASE at[c] = "finalize"
  <2>1. CASE journal.magic
    BY <1>0, <1>1, <2>1 DEF IInv, FInv, Holds, PlaysBack
  <2>2. CASE ~journal.magic
    BY <1>0, <2>2 DEF Recoverable
  <2> QED BY <2>1, <2>2
<1>2. CASE at[c] = "finish"
  <2>1. Settled /\ \A p \in Pages : db[p] = IF p \in dirty[c] THEN (Image[p] \ Absent) \cup {c} ELSE Image[p]
    BY <1>2 DEF IInv, FInv, Holds, Written, Changed
  <2>2. c \in Writers /\ journal.magic /\ dirty[c] \subseteq Pages
    BY <1>2 DEF IInv, LInv, LockTypes, Fits, Inserting, Exclusive, FInv, Holds, Journalled
  <2>3. ASSUME NEW p \in Pages PROVE db[p] \in Contents /\ (Image[p] # Absent => db[p] # Absent)
    <3>1. Image[p] \in Contents
      BY <1>0 DEF IsDatabase
    <3> QED BY <2>1, <2>2, <3>1, Marks DEF Contents
  <2>4. db \in [Pages -> Contents]
    BY <1>0, <2>3 DEF FileTypes
  <2>5. 1 \in Pages /\ db[1] # Absent
    BY <1>0, <2>3, JournalConstants DEF IsDatabase, Pages
  <2>6. ASSUME NEW p \in Pages, NEW q \in Pages, q <= p, db[p] # Absent
        PROVE  db[q] # Absent
    <3>1. CASE Image[p] # Absent
      BY <1>0, <2>3, <2>6, <3>1 DEF IsDatabase
    <3>2. CASE p \in dirty[c]
      <4>1. CASE p = q
        BY <2>6, <4>1
      <4>2. CASE q < p /\ q > journal.orig
        <5>1. q \in dirty[c]
          BY <1>2, <3>2, <4>2 DEF IInv, FInv, Holds, WithoutGap, Inserting, Exclusive
        <5> QED BY <2>1, <5>1, Marks
      <4>3. CASE q <= journal.orig
        BY <1>0, <2>2, <2>3, <4>3, ImageFacts
      <4> QED BY <4>1, <4>2, <4>3, <2>6, <1>0 DEF Pages, FileTypes, Journals
    <3> QED BY <2>1, <2>6, <3>1, <3>2
  <2> QED BY <2>1, <2>4, <2>5, <2>6 DEF IsDatabase
<1> QED BY <1>1, <1>2

(* Only the end of a transaction changes what the next reader will make of   *)
(* the files.                                                                *)
LEMMA FilesKeep ==
    ASSUME IInv, NEW c \in Calls, Pager(c)
    PROVE  /\ FileTypes' /\ Recoverable' /\ Settling
           /\ (Deletes(c) /\ at[c] = "finish") \/ Image' = Image
           /\ Deletes(c) => Image' = db
           /\ SyncDatabaseFile => Settled'
           /\ WritesCount(c) => Settled' /\ Image' = db'
<1>0. FileTypes /\ Recoverable /\ Authors'
  BY AuthorsKeep DEF IInv, FInv
<1> DEFINE Kept == FileTypes' /\ Recoverable' /\ Settling
<1>1. ASSUME UNCHANGED files PROVE Kept /\ Image' = Image
  <2>1. Image' = Image /\ Previous' = Previous
    BY <1>1 DEF files, Image, Previous
  <2>2. FileTypes' /\ Recoverable'
    BY <1>0, <1>1, <2>1 DEF files, FileTypes, Recoverable, Authors, CanUndo, IsDatabase, Settled
  <2> QED BY <2>1, <2>2 DEF Settling
<1>2. ASSUME Deletes(c) PROVE Kept /\ Image' = db /\ (at[c] = "finish" \/ Image' = Image)
  <2>1. Kept /\ Image' = db
    BY <1>0, <1>2, DeletedInTime, DeleteKeeps DEF Deletes
  <2>2. at[c] = "finalize" => db = Image
    BY <1>0, ImageFacts DEF IInv, FInv, Holds, PlaysBack
  <2> QED BY <1>2, <2>1, <2>2 DEF Deletes
<1>3. ASSUME SyncJournalFile PROVE Kept /\ Image' = Image
  BY <1>0, <1>3, SyncJournalKeeps
<1>4. ASSUME SyncDatabaseFile PROVE Kept /\ Image' = Image /\ Settled'
  BY <1>0, <1>4, SyncDatabaseKeeps
<1>5. ASSUME ChangesJournal(c) PROVE Kept /\ Image' = Image
  <2>1. PICK j \in Journals : ChangeJournal(j) /\ ~j.magic /\ j.by = c
    BY <1>5 DEF ChangesJournal
  <2>2. ~journal.magic /\ at[c] \in {"locked", "journal"}
    BY <1>5 DEF ChangesJournal, IInv, FInv, Holds, FindsNoneHot
  <2>3. safe.magic => safe.by # c
    BY <2>2 DEF IInv, FInv, Recoverable, Holds, Journalled, Inserting
  <2> QED BY <1>0, <2>1, <2>2, <2>3, JournalKeeps
<1>6. ASSUME WritesCount(c) PROVE Kept /\ Image' = Image /\ Settled' /\ Image' = db'
  <2>1. at[c] = "count"
    BY <1>6 DEF WritesCount
  <2>2. ~journal.magic /\ safe = journal /\ journal.exists /\ journal.by # None
    BY <2>1, JournalConstants DEF IInv, FInv, Holds, FindsNoneHot, Journalled, Inserting, Exclusive
  <2>3. \A p \in Pages : /\ p <= journal.orig <=> db[p] # Absent
                         /\ journal.records[p] \in {NoRecord, db[p]}
                         /\ journal.records[p] # NoRecord => p <= journal.orig
    BY <2>1 DEF IInv, FInv, Holds, Journalled
  <2> QED BY <1>0, <1>6, <2>2, <2>3, CountKeeps DEF WritesCount
<1>7. ASSUME ChangesDatabase(c) PROVE Kept /\ Image' = Image
  <2>1. PICK d \in [Pages -> {Torn} \cup Contents] :
          /\ ChangeDatabase(d)
          /\ \A p \in Pages : p <= journal.orig =>
                 d[p] # Absent /\ (journal.records[p] = NoRecord => d[p] = db[p])
    BY <1>7 DEF ChangesDatabase
  <2> QED BY <1>0, <1>7, <2>1, DatabaseKeeps DEF ChangesDatabase
<1> HIDE DEF Kept
<1>8. Kept /\ ((Deletes(c) /\ at[c] = "finish") \/ Image' = Image)
  BY <1>1, <1>2, <1>3, <1>4, <1>5, <1>6, <1>7, FileOperation
<1> QED BY <1>2, <1>4, <1>6, <1>8 DEF Kept

(* No step of a call takes from another what it relies on.                   *)
LEMMA OthersHold ==
    ASSUME IInv, NEW c \in Calls, Pager(c), NEW o \in Calls \ {c}
    PROVE  Holds(o)'
<1>0. Holds(o) /\ Apart(o)
  BY OthersApart DEF IInv, FInv
<1>1. CASE UNCHANGED files
  BY <1>0, <1>1, HoldsApart
<1>2. CASE SyncJournalFile \/ SyncDatabaseFile
  <2>1. Image' = Image
    BY <1>2, AuthorsKeep, SyncJournalKeeps, SyncDatabaseKeeps DEF IInv, FInv
  <2> QED BY <1>0, <1>2, <2>1, HoldsSynced
<1>3. CASE Deletes(c)
  <2>1. ~Opens(o) /\ db' = db /\ ~journal'.magic
    BY <1>3 DEF Deletes, CanDelete, DeleteJournal, NoJournal
  <2> QED BY <1>0, <2>1, HoldsClosed
<1>4. CASE ChangesJournal(c)
  <2>1. db' = db /\ ~journal'.magic
    BY <1>4 DEF ChangesJournal, ChangeJournal
  <2> QED BY <1>0, <1>4, <2>1, OthersClosed, HoldsClosed DEF ChangesJournal
<1>5. CASE WritesCount(c) \/ ChangesDatabase(c)
  <2>1. writer = c /\ (journal.magic \/ at[c] = "count")
    BY <1>5 DEF WritesCount, ChangesDatabase, IInv, LInv, Fits, Ranging, Exclusive
  <2> QED BY <1>0, <2>1, OthersAway, HoldsAway
<1> QED BY <1>1, <1>2, <1>3, <1>4, <1>5, FileOperation

-----------------------------------------------------------------------------
(* What a call relies on after its own steps: before it comes to the files,  *)
(* and when it is through with them.                                         *)
LEMMA OnItsWay ==
    ASSUME IInv, NEW c \in Calls, Pager(c), Image' = Image,
           \/ Open(c) \/ SharedLock(c) \/ JournalExists(c) \/ CheckReservedLock(c) \/ InspectJournal(c)
           \/ DropForHot(c) \/ LockHot(c) \/ SyncHotJournal(c)
    PROVE  Holds(c)'
<1>0. /\ at \in [Calls -> Before \cup Inserting \cup Ended \cup {"header", "restore", "finalize", "committed"}]
      /\ at[c] \in Before \ {"reader"} /\ dirty[c] = {} /\ UNCHANGED work
  BY DEF IInv, LInv, LockTypes, Fits, Open, SharedLock, JournalExists, CheckReservedLock, InspectJournal,
     DropForHot, LockHot, SyncHotJournal, From, Before
<1>1. seen[c] = NoRecords
  BY <1>0 DEF IInv, FInv, Holds, Queries, Before, Ended
<1>2. Queries(c)'
  BY <1>0, <1>1 DEF Queries, work, NoRecords
<1>3. /\ at'[c] \in {"lock", "exists", "check", "inspect", "reader", "hot", "lock_hot", "playback", "header", "failed"}
      /\ at'[c] = "header" => journal'.exists /\ safe' = journal'
  BY <1>0 DEF Open, SharedLock, JournalExists, CheckReservedLock, InspectJournal, DropForHot, LockHot,
     SyncHotJournal, From, Goto, Leave, SyncJournalFile
<1>4. PlaysBack(c)' /\ Written(c)' /\ WithoutGap(c)' /\ Journalled(c)'
  BY <1>0, <1>3 DEF PlaysBack, Written, WithoutGap, Journalled, RollsBack, Inserting, Exclusive, work
<1>5. FindsNoneHot(c)'
  <2>1. SUFFICES ASSUME at'[c] = "reader" PROVE ~journal'.magic
    BY <1>3 DEF FindsNoneHot
  <2>2. journal.magic => journal.exists
    BY DEF IInv, FInv, Recoverable, CanUndo
  <2>3. Size(db) > 0 /\ Size(db) # 0
    BY ImageFacts, SizeIsLast DEF IInv, FInv
  <2>4. CASE JournalExists(c) \/ InspectJournal(c) \/ SyncHotJournal(c)
    BY <1>0, <2>1, <2>2, <2>3, <2>4 DEF JournalExists, InspectJournal, SyncHotJournal, Goto, files
  <2>5. CASE CheckReservedLock(c)
    <3>1. at[c] = "check" /\ reserved # None /\ UNCHANGED files
      BY <1>0, <2>1, <2>5 DEF CheckReservedLock, Goto
    <3>2. reserved \in Calls /\ c \in readers
      BY <3>1 DEF IInv, LInv, LockTypes, Fits, Sharing
    <3>3. writer = None
      BY <3>2 DEF IInv, LInv, LockTypes
    <3>4. at[reserved] \in Inserting \/ RollsBack(reserved)
      BY <3>2 DEF IInv, LInv, Fits
    <3>5. at[reserved] \notin Ranging
      BY <3>2, <3>3, JournalConstants DEF IInv, LInv, Fits
    <3>6. ~journal.magic
      BY <3>2, <3>3, <3>4, <3>5, JournalConstants
         DEF IInv, FInv, Holds, FindsNoneHot, PlaysBack, Inserting, RollsBack, Ranging, Exclusive
    <3> QED BY <3>1, <3>6 DEF files
  <2>6. ASSUME Open(c) \/ SharedLock(c) \/ DropForHot(c) \/ LockHot(c) PROVE FALSE
    BY <1>0, <2>1, <2>6 DEF Open, SharedLock, DropForHot, LockHot, From, Goto, Leave
  <2> QED BY <2>4, <2>5, <2>6
<1> QED BY <1>2, <1>4, <1>5 DEF Holds

(* When it is through with the files.                                        *)
LEMMA WhenThrough ==
    ASSUME IInv, NEW c \in Calls, Pager(c),
           FinalizeJournal(c) \/ EndQuery(c) \/ EndTransaction(c) \/ Unlock(c)
    PROVE  Holds(c)'
<1>0. /\ at \in [Calls -> Before \cup Inserting \cup Ended \cup {"header", "restore", "finalize", "committed"}]
      /\ UNCHANGED work /\ Queries(c)
  BY DEF IInv, LInv, LockTypes, FInv, Holds, FinalizeJournal, EndQuery, EndTransaction, Unlock
<1>1. /\ at'[c] \in {"reader", "committed", "failed", "done"}
      /\ at'[c] = "reader" => ~journal'.magic
  BY <1>0 DEF FinalizeJournal, EndQuery, EndTransaction, Unlock, Goto, Leave, DeleteJournal, NoJournal
<1>4. CASE EndQuery(c)
  <2>1. at'[c] = "done" /\ (c \in Writers => seen[c] = NoRecords)
    BY <1>0, <1>4 DEF EndQuery, Goto, Leave, Queries
  <2> QED BY <1>0, <1>1, <2>1 DEF Queries, work, Holds, FindsNoneHot, Journalled, WithoutGap, Written, PlaysBack,
          RollsBack, Inserting, Exclusive, NoRecords, Ended
<1>5. CASE ~EndQuery(c)
  <2>1. at[c] \in {"finalize", "finish", "committed"}
    BY <1>5 DEF FinalizeJournal, EndTransaction, Unlock
  <2>2. seen[c] = NoRecords
    BY <1>0, <2>1 DEF Queries, Ended
  <2>3. Queries(c)'
    BY <1>0, <2>2 DEF Queries, work, NoRecords
  <2> QED BY <1>1, <2>3 DEF Holds, FindsNoneHot, Journalled, WithoutGap, Written, PlaysBack, RollsBack, Inserting,
          Exclusive
<1> QED BY <1>4, <1>5

(* While it reads, and when it decides to write.                             *)
LEMMA WhenReading ==
    ASSUME IInv, NEW c \in Calls, ReadPage(c) \/ Begin(c)
    PROVE  Holds(c)'
<1>0. /\ at \in [Calls -> Before \cup Inserting \cup Ended \cup {"header", "restore", "finalize", "committed"}]
      /\ dirty \in [Calls -> SUBSET Pages] /\ seen \in [Calls -> [Pages -> {NoRecord, Torn} \cup Contents]]
      /\ at[c] = "reader" /\ ~journal.magic /\ UNCHANGED files /\ Queries(c)
  BY DEF IInv, LInv, LockTypes, FInv, Holds, FindsNoneHot, ReadPage, Begin
<1>1. CASE ReadPage(c)
  <2>1. PICK p \in Pages : seen' = [seen EXCEPT ![c] = [@ EXCEPT ![p] = db[p]]]
    BY <1>1 DEF ReadPage
  <2>2. c \notin Writers /\ at' = at
    BY <1>1 DEF ReadPage
  <2>3. Queries(c)'
    BY <1>0, <2>1, <2>2 DEF Queries, files
  <2> QED BY <1>0, <2>2, <2>3 DEF Holds, FindsNoneHot, Journalled, WithoutGap, Written, PlaysBack, RollsBack,
          Inserting, Exclusive, files
<1>2. CASE Begin(c)
  <2>1. c \in Writers /\ seen' = seen /\ at'[c] \in {"locked", "failed"}
    BY <1>0, <1>2 DEF Begin, Goto, Leave
  <2>2. Queries(c)'
    BY <1>0, <2>1 DEF Queries, NoRecords
  <2>3. ASSUME at'[c] = "locked", NEW p \in dirty'[c], NEW q \in Pages, q < p, db'[q] = Absent
        PROVE  q \in dirty'[c]
    <3>1. PICK W \in Changeable : dirty' = [dirty EXCEPT ![c] = W]
      BY <1>0, <1>2, <2>3 DEF Begin, Leave, Goto
    <3>2. p \in W /\ p \in Pages /\ (p > Size(db) => (Size(db) + 1)..p \subseteq W)
      BY <1>0, <2>3, <3>1 DEF Changeable
    <3>3. Size(db) \in Pages /\ ~(q <= Size(db))
      BY <1>0, <2>3, SizeOfDatabase DEF IInv, FInv, Recoverable, files
    <3>4. q \in (Size(db) + 1)..p /\ p > Size(db)
      BY <2>3, <3>2, <3>3 DEF Pages
    <3> QED BY <1>0, <3>1, <3>2, <3>4
  <2>4. WithoutGap(c)'
    BY <2>1, <2>3 DEF WithoutGap, Inserting, Exclusive
  <2> QED BY <1>0, <2>1, <2>2, <2>4 DEF Holds, FindsNoneHot, Journalled, Written, PlaysBack, RollsBack,
          Inserting, Exclusive, Ended, files
<1> QED BY <1>1, <1>2

(* While it writes its journal.                                              *)
LEMMA WhenOpening ==
    ASSUME IInv, NEW c \in Calls, OpenJournal(c)
    PROVE  Holds(c)'
<1>0. /\ at[c] = "locked" /\ at' = [at EXCEPT ![c] = "journal"] /\ UNCHANGED <<dirty, seen>>
      /\ ChangeJournal([NoJournal EXCEPT !.exists = TRUE, !.by = c, !.orig = Size(db)])
      /\ todo' = [todo EXCEPT ![c] = {p \in dirty[c] : p <= Size(db)}]
  BY DEF OpenJournal, From, Goto, Remaining
<1>1. /\ at \in [Calls -> Before \cup Inserting \cup Ended \cup {"header", "restore", "finalize", "committed"}]
      /\ todo \in [Calls -> SUBSET Pages] /\ dirty[c] \subseteq Pages
      /\ ~journal.magic /\ IsDatabase(db) /\ WithoutGap(c) /\ seen[c] = NoRecords
  BY <1>0 DEF IInv, LInv, LockTypes, FInv, Recoverable, Holds, FindsNoneHot, Queries, Ended
<1>2. Size(db) \in Pages /\ \A p \in Pages : p <= Size(db) <=> db[p] # Absent
  BY <1>1, SizeOfDatabase
<1>3. /\ at'[c] = "journal" /\ todo'[c] = {p \in dirty[c] : p <= Size(db)} /\ db' = db
      /\ journal'.exists /\ ~journal'.magic /\ journal'.by = c /\ journal'.orig = Size(db)
      /\ \A p \in Pages : journal'.records[p] = NoRecord
  BY <1>0, <1>1 DEF ChangeJournal, NoJournal, NoRecords
<1>4. Journalled(c)'
  BY <1>0, <1>1, <1>2, <1>3 DEF Journalled, Inserting, Exclusive
<1>5. WithoutGap(c)'
  <2>1. ASSUME NEW p \in dirty[c], NEW q \in Pages, q < p, q > Size(db)
        PROVE  q \in dirty[c]
    <3>1. db[q] = Absent
      BY <1>2, <2>1 DEF Pages
    <3> QED BY <1>0, <1>1, <2>1, <3>1 DEF WithoutGap
  <2> QED BY <1>0, <1>3, <2>1 DEF WithoutGap
<1>6. Queries(c)'
  BY <1>0, <1>1, <1>3 DEF Queries, Ended, NoRecords
<1> QED BY <1>3, <1>4, <1>5, <1>6 DEF Holds, FindsNoneHot, Written, PlaysBack

(* With every page that it journals.                                         *)
LEMMA WhenJournalling ==
    ASSUME IInv, NEW c \in Calls, AddPageToJournal(c)
    PROVE  Holds(c)'
<1>0. PICK p \in todo[c] : /\ ChangeJournal([journal EXCEPT !.records = [@ EXCEPT ![p] = db[p]]])
                           /\ Remaining(c, todo[c] \ {p})
  BY DEF AddPageToJournal
<1>1. at[c] = "journal" /\ UNCHANGED <<at, dirty, seen, locks>>
  BY DEF AddPageToJournal
<1>2. /\ todo \in [Calls -> SUBSET Pages] /\ dirty[c] \subseteq Pages
      /\ journal \in Journals /\ db \in [Pages -> {Torn} \cup Contents]
      /\ Journalled(c) /\ WithoutGap(c) /\ ~journal.magic /\ seen[c] = NoRecords
  BY <1>1 DEF IInv, LInv, LockTypes, FInv, FileTypes, Holds, FindsNoneHot, Queries, Ended
<1>3. /\ p \in Pages /\ todo'[c] = todo[c] \ {p} /\ db' = db /\ safe' = safe
      /\ journal'.exists = journal.exists /\ journal'.magic = journal.magic /\ journal'.by = journal.by
      /\ journal'.orig = journal.orig
      /\ \A q \in Pages : journal'.records[q] = IF q = p THEN db[p] ELSE journal.records[q]
  BY <1>0, <1>2 DEF ChangeJournal, Remaining, Journals
<1>4. db[p] # NoRecord /\ p <= journal.orig
  <2>1. p <= journal.orig
    BY <1>1, <1>2 DEF Journalled
  <2> QED BY <1>2, <1>3, <2>1, Marks DEF Contents
<1>5. Journalled(c)'
  BY <1>1, <1>2, <1>3, <1>4 DEF Journalled, Inserting, Exclusive, RollsBack
<1>6. WithoutGap(c)' /\ Queries(c)'
  BY <1>1, <1>2, <1>3 DEF WithoutGap, Queries, Ended, NoRecords
<1> QED BY <1>1, <1>2, <1>3, <1>5, <1>6 DEF Holds, FindsNoneHot, Written, PlaysBack

(* From there to the permission to write the database.                       *)
LEMMA WhenJournalled ==
    ASSUME IInv, NEW c \in Calls,
           LockPending(c) \/ LockExclusive(c) \/ SyncJournal(c) \/ WriteRecordCount(c),
           WriteRecordCount(c) => Settled' /\ Image' = db'
    PROVE  Holds(c)'
<1>0. /\ at \in [Calls -> Before \cup Inserting \cup Ended \cup {"header", "restore", "finalize", "committed"}]
      /\ UNCHANGED <<dirty, todo, seen, db>>
      /\ at[c] \in {"journal", "pending", "sync", "count"}
      /\ FindsNoneHot(c) /\ Journalled(c) /\ WithoutGap(c) /\ Queries(c) /\ journal \in Journals
  BY DEF IInv, LInv, LockTypes, FInv, Holds, FileTypes, LockPending, LockExclusive, SyncJournal, WriteRecordCount,
     From, work, files, SyncJournalFile, ChangeJournal
<1>1. /\ journal'.exists = journal.exists /\ journal'.by = journal.by /\ journal'.orig = journal.orig
      /\ journal'.records = journal.records
      /\ journal'.magic <=> journal.magic \/ at'[c] = "resync"
      /\ at'[c] = "count" => safe' = journal'
      /\ \/ at'[c] \in {"pending", "sync", "count", "finalize"}
         \/ at'[c] = "resync" /\ Settled' /\ Image' = db'
      /\ at[c] = "journal" => todo[c] = {}
  BY <1>0 DEF LockPending, LockExclusive, SyncJournal, WriteRecordCount, From, Goto, files, SyncJournalFile,
     ChangeJournal, Journals
<1>2. ~journal.magic /\ journal.exists /\ journal.by = c
  BY <1>0 DEF FindsNoneHot, Journalled, Inserting, Exclusive
<1>3. Journalled(c)'
  BY <1>0, <1>1, <1>2 DEF Journalled, Inserting, Exclusive, RollsBack
<1>4. WithoutGap(c)' /\ Queries(c)' /\ FindsNoneHot(c)'
  BY <1>0, <1>1, <1>2 DEF WithoutGap, Queries, FindsNoneHot, Inserting, Exclusive, Ended, NoRecords
<1>5. Written(c)' /\ PlaysBack(c)'
  BY <1>1, <1>2 DEF Written, PlaysBack
<1> QED BY <1>3, <1>4, <1>5 DEF Holds

(* While it writes the database.                                             *)
LEMMA WhenWriting ==
    ASSUME IInv, NEW c \in Calls, SyncJournalAgain(c) \/ WritePage(c) \/ SyncDatabase(c), Image' = Image,
           SyncDatabase(c) => Settled'
    PROVE  Holds(c)'
<1>0. /\ at \in [Calls -> Before \cup Inserting \cup Ended \cup {"header", "restore", "finalize", "committed"}]
      /\ dirty \in [Calls -> SUBSET Pages] /\ todo \in [Calls -> SUBSET Pages]
      /\ at[c] \in {"resync", "write"} /\ Holds(c) /\ UNCHANGED <<dirty, seen, journal>>
      /\ db \in [Pages -> {Torn} \cup Contents]
  BY DEF IInv, LInv, LockTypes, FInv, FileTypes, SyncJournalAgain, WritePage, SyncDatabase, From, work, files,
     SyncJournalFile, SyncDatabaseFile, ChangeDatabase
<1>1. at'[c] \in {"write", "finish"} /\ safe' = journal' /\ journal'.magic
  <2>1. journal.magic /\ (at[c] = "write" => safe = journal)
    BY <1>0 DEF Holds, Journalled
  <2>2. CASE SyncJournalAgain(c)
    BY <1>0, <2>1, <2>2 DEF SyncJournalAgain, From, Goto, SyncJournalFile
  <2>3. CASE WritePage(c)
    BY <1>0, <2>1, <2>3 DEF WritePage, ChangeDatabase
  <2>4. CASE SyncDatabase(c)
    BY <1>0, <2>1, <2>4 DEF SyncDatabase, From, Goto, SyncDatabaseFile
  <2> QED BY <2>2, <2>3, <2>4
<1>2. Journalled(c)' /\ WithoutGap(c)' /\ Queries(c)' /\ FindsNoneHot(c)' /\ PlaysBack(c)'
  <2>1. Journalled(c)'
    BY <1>0, <1>1 DEF Holds, Journalled, Inserting, Exclusive, RollsBack
  <2>2. WithoutGap(c)' /\ Queries(c)' /\ FindsNoneHot(c)' /\ PlaysBack(c)'
    BY <1>0, <1>1 DEF Holds, WithoutGap, Queries, FindsNoneHot, PlaysBack, Inserting, Exclusive, Ended, NoRecords
  <2> QED BY <2>1, <2>2
<1>3. CASE SyncJournalAgain(c)
  <2>1. /\ at[c] = "resync" /\ at'[c] = "write" /\ todo'[c] = dirty[c] /\ db' = db
    BY <1>0, <1>3 DEF SyncJournalAgain, From, Goto, Remaining, SyncJournalFile
  <2>2. db = Image
    BY <2>1, <1>0 DEF Holds, Journalled
  <2> QED BY <1>0, <1>2, <2>1, <2>2 DEF Holds, Written, Changed
<1>4. CASE WritePage(c)
  <2>1. PICK p \in todo[c] : /\ ChangeDatabase([db EXCEPT ![p] = (@ \ Absent) \cup {c}])
                             /\ Remaining(c, todo[c] \ {p})
    BY <1>4 DEF WritePage
  <2>2. at[c] = "write" /\ at'[c] = "write" /\ todo'[c] = todo[c] \ {p} /\ p \in Pages /\ p \in dirty[c]
    BY <1>0, <1>4, <2>1 DEF WritePage, Remaining, Holds, Written
  <2>3. \A q \in Pages : db'[q] = IF q = p THEN (db[p] \ Absent) \cup {c} ELSE db[q]
    BY <1>0, <2>1 DEF ChangeDatabase
  <2>4. db[p] = Image[p]
    BY <1>0, <2>2 DEF Holds, Written, Changed
  <2>5. \A q \in Pages : db'[q] = IF q \in dirty[c] \ todo'[c] THEN (Image[q] \ Absent) \cup {c} ELSE Image[q]
    BY <1>0, <2>2, <2>3, <2>4 DEF Holds, Written, Changed
  <2>6. todo'[c] \subseteq dirty[c]
    BY <1>0, <2>2 DEF Holds, Written
  <2> QED BY <1>0, <1>2, <2>2, <2>5, <2>6 DEF Holds, Written, Changed
<1>5. CASE SyncDatabase(c)
  <2>1. at[c] = "write" /\ at'[c] = "finish" /\ todo[c] = {} /\ db' = db /\ Settled'
    BY <1>0, <1>5 DEF SyncDatabase, From, Goto, SyncDatabaseFile
  <2> QED BY <1>0, <1>2, <2>1 DEF Holds, Written, Changed
<1> QED BY <1>3, <1>4, <1>5

(* While it plays a journal back.                                            *)
LEMMA WhenPlayingBack ==
    ASSUME IInv, NEW c \in Calls, ReadHeader(c) \/ RestorePage(c) \/ SyncRestored(c), Image' = Image,
           SyncRestored(c) => Settled'
    PROVE  Holds(c)'
<1>0. /\ at \in [Calls -> Before \cup Inserting \cup Ended \cup {"header", "restore", "finalize", "committed"}]
      /\ dirty \in [Calls -> SUBSET Pages] /\ todo \in [Calls -> SUBSET Pages]
      /\ at[c] \in {"header", "restore"} /\ Holds(c) /\ UNCHANGED <<dirty, seen, journal, locks>>
      /\ db \in [Pages -> {Torn} \cup Contents] /\ journal \in Journals
      /\ FileTypes /\ Recoverable
  BY DEF IInv, LInv, LockTypes, FInv, FileTypes, ReadHeader, RestorePage, SyncRestored, From, work, files,
     SyncDatabaseFile, ChangeDatabase
<1>1. at'[c] \in {"restore", "finalize"} /\ safe' = journal' /\ journal'.exists
  BY <1>0 DEF ReadHeader, RestorePage, SyncRestored, From, Goto, files, SyncDatabaseFile, ChangeDatabase,
     Holds, PlaysBack
<1>2. Journalled(c)' /\ WithoutGap(c)' /\ Queries(c)' /\ FindsNoneHot(c)' /\ Written(c)'
  <2>1. Journalled(c)'
    BY <1>0, <1>1 DEF Holds, Journalled, Inserting, Exclusive, RollsBack
  <2>2. WithoutGap(c)' /\ Queries(c)' /\ FindsNoneHot(c)' /\ Written(c)'
    BY <1>0, <1>1 DEF Holds, WithoutGap, Queries, FindsNoneHot, Written, Inserting, Exclusive, Ended, NoRecords
  <2> QED BY <2>1, <2>2
<1>3. /\ ~journal.magic => Image = db
      /\ journal.magic => /\ CanUndo(journal)
                          /\ \A p \in Pages : Image[p] =
                                IF p > journal.orig THEN Absent
                                ELSE IF journal.records[p] # NoRecord THEN journal.records[p] ELSE db[p]
  BY <1>0, ImageFacts DEF Recoverable
<1>4. CASE ReadHeader(c)
  <2>1. at'[c] = "restore"
    BY <1>0, <1>4 DEF ReadHeader, From, Goto
  <2>2. CASE journal.magic
    <3>1. db' = Truncated(db, journal.orig) /\ todo'[c] = Records(journal)
      BY <1>0, <1>4, <2>2 DEF ReadHeader, ChangeDatabase, Remaining
    <3>2. \A p \in Pages \ Records(journal) : db'[p] = Image[p]
      BY <1>3, <2>2, <3>1 DEF Truncated, Records
    <3> QED BY <1>0, <1>1, <1>2, <2>1, <2>2, <3>1, <3>2 DEF Holds, PlaysBack, Records
  <2>3. CASE ~journal.magic
    <3>1. db' = db /\ todo'[c] = {}
      BY <1>0, <1>4, <2>3 DEF ReadHeader, files, Remaining
    <3> QED BY <1>0, <1>1, <1>2, <1>3, <2>1, <2>3, <3>1 DEF Holds, PlaysBack
  <2> QED BY <2>2, <2>3
<1>5. CASE RestorePage(c)
  <2>1. PICK p \in todo[c] : /\ ChangeDatabase([db EXCEPT ![p] = journal.records[p]])
                             /\ Remaining(c, todo[c] \ {p})
    BY <1>5 DEF RestorePage
  <2>2. at[c] = "restore" /\ at'[c] = "restore" /\ todo'[c] = todo[c] \ {p} /\ p \in Pages
    BY <1>0, <1>5, <2>1 DEF RestorePage, Remaining
  <2>3. \A q \in Pages : db'[q] = IF q = p THEN journal.records[p] ELSE db[q]
    BY <1>0, <2>1 DEF ChangeDatabase
  <2>4. journal.magic /\ journal.records[p] # NoRecord
    BY <1>0, <2>1, <2>2 DEF Holds, PlaysBack
  <2>5. Image[p] = journal.records[p]
    BY <1>0, <1>3, <2>2, <2>4 DEF CanUndo, Pages, Journals
  <2>6. \A q \in Pages \ todo'[c] : db'[q] = Image[q]
    BY <1>0, <2>2, <2>3, <2>5 DEF Holds, PlaysBack
  <2> QED BY <1>0, <1>1, <1>2, <2>2, <2>4, <2>6 DEF Holds, PlaysBack
<1>6. CASE SyncRestored(c)
  <2>1. at[c] = "restore" /\ at'[c] = "finalize" /\ todo[c] = {} /\ db' = db /\ Settled'
    BY <1>0, <1>6 DEF SyncRestored, From, Goto, SyncDatabaseFile
  <2>2. writer = c
    BY <2>1 DEF IInv, LInv, Fits, Ranging
  <2>3. Image = db
    <3>1. Image \in [Pages -> Contents] /\ \A p \in Pages : db[p] = Image[p]
      BY <1>0, <2>1, ImageFacts DEF Holds, PlaysBack, IsDatabase
    <3> QED BY <1>0, <3>1
  <2> QED BY <1>0, <1>2, <2>1, <2>2, <2>3 DEF Holds, PlaysBack, locks
<1> QED BY <1>4, <1>5, <1>6

-----------------------------------------------------------------------------
(* What a query sees are contents of pages.                                  *)
LEMMA SeenTypes ==
    ASSUME IInv, NEW c \in Calls, Pager(c)
    PROVE  seen' \in [Calls -> [Pages -> {NoRecord, Torn} \cup Contents]]
<1>0. /\ seen \in [Calls -> [Pages -> {NoRecord, Torn} \cup Contents]]
      /\ db \in [Pages -> {Torn} \cup Contents]
  BY DEF IInv, FInv, FileTypes
<1>1. CASE ReadPage(c)
  BY <1>0, <1>1 DEF ReadPage
<1>2. CASE ~ReadPage(c)
  BY <1>0, <1>2 DEF Pager, work, Open, SharedLock, JournalExists, CheckReservedLock, InspectJournal, DropForHot, LockHot,
     SyncHotJournal, SyncRestored, FinalizeJournal, EndQuery, LockPending, LockExclusive, SyncJournal,
     WriteRecordCount, SyncDatabase, EndTransaction, Unlock, ReadHeader, RestorePage, OpenJournal,
     AddPageToJournal, SyncJournalAgain, WritePage, Begin
<1> QED BY <1>1, <1>2

(* The end of the transaction is the only step that changes the image.       *)
LEMMA ImageKeeps ==
    ASSUME IInv, NEW c \in Calls, Pager(c), ~EndTransaction(c)
    PROVE  Image' = Image
<1>1. CASE Deletes(c) /\ at[c] = "finish"
  <2>1. ASSUME \/ Open(c) \/ SharedLock(c) \/ JournalExists(c) \/ CheckReservedLock(c) \/ InspectJournal(c)
               \/ DropForHot(c) \/ LockHot(c) \/ SyncHotJournal(c) \/ ReadHeader(c) \/ RestorePage(c)
               \/ SyncRestored(c) \/ FinalizeJournal(c) \/ ReadPage(c) \/ EndQuery(c) \/ Begin(c) \/ OpenJournal(c)
               \/ AddPageToJournal(c) \/ LockPending(c) \/ LockExclusive(c) \/ SyncJournal(c) \/ WriteRecordCount(c)
               \/ SyncJournalAgain(c) \/ WritePage(c) \/ SyncDatabase(c) \/ Unlock(c)
        PROVE  at[c] # "finish"
    BY <2>1 DEF Open, SharedLock, JournalExists, CheckReservedLock, InspectJournal, DropForHot, LockHot,
       SyncHotJournal, SyncRestored, FinalizeJournal, EndQuery, LockPending, LockExclusive, SyncJournal,
       WriteRecordCount, SyncDatabase, Unlock, ReadHeader, RestorePage, OpenJournal,
       AddPageToJournal, SyncJournalAgain, WritePage, Begin, ReadPage, From
  <2> QED BY <1>1, <2>1 DEF Pager
<1> QED BY <1>1, FilesKeep

(* Every step of a call preserves the invariant.                             *)
LEMMA PagerKeeps ==
    ASSUME IInv, NEW c \in Calls, Pager(c), UNCHANGED faults
    PROVE  IInv'
<1>1. LInv'
  BY LocksNext DEF IInv, Next
<1>2. FileTypes' /\ Recoverable' /\ (SyncDatabaseFile => Settled') /\ (WritesCount(c) => Settled' /\ Image' = db')
  BY FilesKeep
<1>3. Image' = Image \/ EndTransaction(c)
  BY ImageKeeps
<1>4. Holds(c)'
  <2>1. WriteRecordCount(c) => WritesCount(c)
    BY DEF WriteRecordCount, WritesCount, From
  <2>2. SyncDatabase(c) \/ SyncRestored(c) => SyncDatabaseFile
    BY DEF SyncDatabase, SyncRestored
  <2>3. CASE EndTransaction(c)
    BY <2>3, WhenThrough
  <2>4. CASE ~EndTransaction(c)
    BY <1>2, <1>3, <2>1, <2>2, <2>4, OnItsWay, WhenThrough, WhenReading, WhenOpening, WhenJournalling,
       WhenJournalled, WhenWriting, WhenPlayingBack DEF Pager
  <2> QED BY <2>3, <2>4
<1>5. \A o \in Calls : Holds(o)'
  BY <1>4, OthersHold
<1> QED BY <1>1, <1>2, <1>5, SeenTypes DEF IInv, FInv

(* An insert that fails is taken back; a failed call and an ended process    *)
(* leave the files to the next reader.                                       *)
LEMMA FailKeeps ==
    ASSUME IInv, NEW c \in Calls, Fail(c) \/ Crash(c)
    PROVE  IInv' /\ UNCHANGED files /\ UNCHANGED work /\ Image' = Image
<1>1. LInv' /\ UNCHANGED files /\ UNCHANGED work
  BY LocksFail DEF IInv, Fail, Crash
<1>2. Image' = Image
  BY <1>1 DEF files, Image
<1>3. /\ at \in [Calls -> Before \cup Inserting \cup Ended \cup {"header", "restore", "finalize", "committed"}]
      /\ writer \in Calls \cup {None}
  BY DEF IInv, LInv, LockTypes
<1>4. ASSUME NEW o \in Calls \ {c} PROVE Apart(o)
  BY <1>1, <1>3, <1>4, JournalConstants DEF Apart, Undisturbed, Fail, Crash, Leave, Goto, work, locks
<1>5. /\ at'[c] # "locked"
      /\ \/ at'[c] \in Ended
         \/ at'[c] = "finalize" /\ at[c] \in {"journal", "pending", "sync", "count", "resync"} /\ writer' = writer
         \/ at'[c] = "header" /\ at[c] = "write"
  BY <1>3 DEF Fail, Crash, Leave, Goto, Ended, locks
<1>6. FileTypes' /\ Recoverable'
  <2>1. \A o \in Calls : journal'.by = o \/ safe'.by = o => dirty'[o] # {} /\ at'[o] # "locked"
    BY <1>1, <1>4, <1>5 DEF Apart, Undisturbed, files, work, IInv, FInv, Recoverable
  <2> QED BY <1>1, <1>2, <2>1 DEF files, IInv, FInv, FileTypes, Recoverable, CanUndo, IsDatabase, Settled
<1>7. Holds(c)'
  <2>0. Holds(c) /\ (at[c] \notin {"reader"} \cup Ended => seen[c] = NoRecords)
    BY DEF IInv, FInv, Holds, Queries
  <2>1. CASE at'[c] \in Ended
    BY <1>1, <2>0, <2>1 DEF Holds, Queries, FindsNoneHot, Journalled, WithoutGap, Written, PlaysBack, RollsBack,
       Inserting, Exclusive, Ended, work, NoRecords
  <2>2. CASE at'[c] = "finalize" /\ at[c] \in {"journal", "pending", "sync", "count", "resync"} /\ writer' = writer
    <3>1. journal.exists /\ journal.by = c /\ (at[c] # "resync" => ~journal.magic)
      BY <2>0, <2>2 DEF Holds, FindsNoneHot, Journalled, Inserting, Exclusive
    <3>2. journal.magic => writer = c /\ Settled /\ Image = db
      BY <2>0, <2>2, <3>1 DEF Holds, Journalled, IInv, LInv, Fits, Ranging, Exclusive
    <3>3. Queries(c)'
      BY <1>1, <2>0, <2>2 DEF Queries, work, NoRecords, Ended
    <3> QED BY <1>1, <1>2, <2>2, <3>1, <3>2, <3>3 DEF Holds, FindsNoneHot, Journalled, WithoutGap, Written, PlaysBack,
            Inserting, Exclusive, files, Settled
  <2>3. CASE at'[c] = "header" /\ at[c] = "write"
    <3>1. journal.exists /\ journal.by = c /\ safe = journal
      BY <2>0, <2>3 DEF Holds, Journalled, Inserting, Exclusive
    <3>2. Queries(c)'
      BY <1>1, <2>0, <2>3 DEF Queries, work, NoRecords, Ended
    <3> QED BY <1>1, <2>3, <3>1, <3>2 DEF Holds, FindsNoneHot, Journalled, WithoutGap, Written, PlaysBack,
            Inserting, Exclusive, files
  <2> QED BY <1>5, <2>1, <2>2, <2>3
<1>8. \A o \in Calls : Holds(o)'
  BY <1>1, <1>4, <1>7, HoldsApart DEF IInv, FInv
<1> QED BY <1>1, <1>2, <1>6, <1>8 DEF IInv, FInv, work

(* What a power loss leaves of the journal.                                  *)
LEMMA Surviving ==
    ASSUME FileTypes, Recoverable, NEW s, s \in Survivors(safe, journal)
    PROVE  /\ s \in Journals
           /\ s.by \in {safe.by, journal.by, None}
           /\ s = safe \/ ~s.magic \/ (s.by = journal.by /\ journal.magic)
           /\ safe = journal => s = journal
           /\ safe = [journal EXCEPT !.magic = FALSE] => s = journal \/ s = safe
<1> DEFINE same == SameFile(safe, journal)
           ours == Mixtures(safe, journal, same /\ safe.magic)
           theirs == Mixtures(safe, journal, journal.magic)
<1>1. safe \in Journals /\ journal \in Journals /\ NoJournal \in Journals /\ NoJournal.by = None /\ ~NoJournal.magic
  BY DEF FileTypes, Journals, NoJournal, NoRecords
<1>2. s = safe \/ s = journal \/ (~same /\ s = NoJournal) \/ s \in ours \cup theirs
  <2>1. s \in {safe, journal} \cup (IF same THEN {} ELSE {NoJournal}) \cup (IF journal.exists THEN ours \cup theirs ELSE {})
    BY DEF Survivors
  <2> HIDE DEF same, ours, theirs
  <2> QED BY <2>1
<1>3. CASE s = safe \/ s = journal
  BY <1>1, <1>3 DEF Journals
<1>4. CASE ~same /\ s = NoJournal
  <2>1. safe # journal /\ safe # [journal EXCEPT !.magic = FALSE]
    BY <1>1, <1>4 DEF Journals, SameFile
  <2> QED BY <1>1, <1>4, <2>1
<1>5. CASE s \in ours \cup theirs
  <2>1. PICK K \in SUBSET Pages, m \in BOOLEAN :
            /\ s = [journal EXCEPT !.magic = m, !.records = Partly(safe, journal, K)]
            /\ (m <=> same /\ safe.magic) \/ (m <=> journal.magic)
    <3>1. CASE s \in ours
      <4>1. (same /\ safe.magic) \in BOOLEAN
        OBVIOUS
      <4> QED BY <3>1, <4>1 DEF Mixtures
    <3>2. CASE s \in theirs
      <4>1. journal.magic \in BOOLEAN
        BY <1>1 DEF Journals
      <4> QED BY <3>2, <4>1 DEF Mixtures
    <3> QED BY <1>5, <3>1, <3>2
  <2> DEFINE r == Partly(safe, journal, K)
  <2>2. r \in [Pages -> {NoRecord, Torn} \cup Contents]
    BY <1>1 DEF Journals, Partly
  <2>3. same /\ safe.records = journal.records => r = journal.records
    BY <1>1 DEF Journals, Partly
  <2>4. m => journal.magic \/ (same /\ safe.magic)
    BY <2>1
  <2>5. s = [journal EXCEPT !.magic = m, !.records = r]
    BY <2>1
  <2>6. s \in Journals /\ s.by = journal.by /\ s.magic = m
    <3> HIDE DEF r
    <3> QED BY <1>1, <2>2, <2>5 DEF Journals
  <2>7. m => journal.magic
    BY <2>4 DEF Recoverable, SameFile
  <2>8. safe = journal \/ safe = [journal EXCEPT !.magic = FALSE] => r = journal.records
    BY <1>1, <2>3 DEF Journals, SameFile
  <2>9. safe = journal => s = journal
    BY <1>1, <2>1, <2>5, <2>8 DEF Journals, SameFile
  <2>10. safe = [journal EXCEPT !.magic = FALSE] => s = journal \/ s = safe
    BY <1>1, <2>4, <2>5, <2>7, <2>8 DEF Journals
  <2> QED BY <2>6, <2>7, <2>9, <2>10
<1> QED BY <1>2, <1>3, <1>4, <1>5

(* A power loss leaves the database as it is or takes back its last insert.  *)
LEMMA PowerLossKeeps ==
    ASSUME IInv, PowerLoss
    PROVE  IInv' /\ Image' \in {Image, Previous} /\ Previous' = Image'
<1>1. /\ LInv' /\ FileTypes /\ Recoverable /\ UNCHANGED work
      /\ at' = [c \in Calls |-> IF Running(c) THEN "gone" ELSE at[c]]
      /\ db' \in [Pages -> UNION {kept[p] : p \in Pages}] /\ \A p \in Pages : db'[p] \in kept[p]
      /\ kept' = [p \in Pages |-> {db'[p]}]
      /\ journal' \in Survivors(safe, journal) /\ safe' = journal'
  BY LocksPowerLoss DEF IInv, FInv, PowerLoss
<1>2. /\ journal' \in Journals
      /\ journal'.by \in {safe.by, journal.by, None}
      /\ journal' = safe \/ ~journal'.magic \/ (journal'.by = journal.by /\ journal.magic)
      /\ safe = journal => journal' = journal
      /\ safe = [journal EXCEPT !.magic = FALSE] => journal' = journal \/ journal' = safe
  BY <1>1, Surviving
<1>3. FileTypes' /\ Settled'
  <2>1. db' \in [Pages -> {Torn} \cup Contents]
    BY <1>1 DEF FileTypes
  <2>2. kept' \in [Pages -> SUBSET ({Torn} \cup Contents)]
    BY <1>1, <2>1
  <2> QED BY <1>1, <1>2, <2>1, <2>2 DEF FileTypes, Settled
<1>4. \A c \in Calls : journal'.by = c \/ safe'.by = c => dirty'[c] # {} /\ at'[c] # "locked"
  <2>1. ASSUME NEW c \in Calls, journal'.by = c PROVE dirty[c] # {} /\ at[c] # "locked"
    BY <1>1, <1>2, <2>1, JournalConstants DEF Recoverable
  <2> QED BY <1>1, <2>1 DEF work
<1>5. Settled => db' = db
  <2>1. Settled => \A p \in Pages : db'[p] = db[p]
    BY <1>1 DEF Settled
  <2> QED BY <1>1, <2>1 DEF FileTypes
<1>6. ASSUME NEW j \in Journals, j.magic, CanUndo(j), journal' = j
      PROVE  Recoverable' /\ Image' = Recovered(db, j)
  <2>1. db'[1] # Absent /\ Recovered(db', j) = Recovered(db, j)
    BY <1>1, <1>6, UndoneAlike
  <2>2. CanUndo(journal)'
    BY <1>1, <1>6 DEF CanUndo
  <2> QED BY <1>1, <1>4, <1>6, <2>1, <2>2 DEF Recoverable, Image
<1>7. ASSUME IsDatabase(db), db' = db, ~journal'.magic
      PROVE  Recoverable' /\ Image' = db
  <2>1. Recovered(db, journal') = db
    BY <1>7, RecoveredPages DEF IsDatabase
  <2>2. IsDatabase(db)'
    BY <1>7 DEF IsDatabase
  <2> QED BY <1>1, <1>3, <1>4, <1>7, <2>1, <2>2 DEF Recoverable, Image
<1>8. Recoverable' /\ Image' \in {Image, Previous}
  <2>1. CASE ~journal.magic
    <3>1. IsDatabase(db) /\ db' = db /\ Image = db
      BY <1>1, <1>5, <2>1, ImageFacts DEF Recoverable
    <3>2. CASE journal'.magic
      <4>1. journal' = safe /\ safe \in Journals /\ safe.magic /\ CanUndo(safe)
        BY <1>1, <1>2, <2>1, <3>2 DEF Recoverable, FileTypes
      <4> QED BY <1>6, <4>1 DEF Previous
    <3> QED BY <1>7, <3>1, <3>2
  <2>2. CASE journal.magic
    <3>0. journal \in Journals /\ CanUndo(journal) /\ IsDatabase(Image)
      BY <1>1, <2>2, ImageFacts DEF Recoverable, FileTypes
    <3>1. CASE journal' = journal
      BY <1>6, <2>2, <3>0, <3>1 DEF Image
    <3>2. CASE journal' # journal
      <4>1. safe = [journal EXCEPT !.magic = FALSE] /\ Settled /\ Image = db /\ journal' = safe
        BY <1>1, <1>2, <2>2, <3>2 DEF Recoverable
      <4>2. ~journal'.magic
        BY <3>0, <4>1 DEF Journals
      <4> QED BY <1>5, <1>7, <3>0, <4>1, <4>2
    <3> QED BY <3>1, <3>2
  <2> QED BY <2>1, <2>2
<1>9. ASSUME NEW c \in Calls PROVE Holds(c)'
  <2>1. at'[c] \in Ended \cup {"idle"} /\ (at'[c] = "idle" => at[c] = "idle")
    BY <1>1 DEF Running, Ended
  <2>2. Queries(c)'
    BY <1>1, <2>1 DEF IInv, FInv, Holds, Queries, work, Ended, NoRecords
  <2> QED BY <2>1, <2>2 DEF Holds, FindsNoneHot, Journalled, WithoutGap, Written, PlaysBack, RollsBack,
          Inserting, Exclusive, Ended
<1>10. Previous' = Image'
  BY <1>1 DEF Previous, Image
<1> QED BY <1>1, <1>3, <1>8, <1>9, <1>10 DEF IInv, FInv, work

(* The database has been created.                                            *)
LEMMA RecoveryInit == Init /\ Size(db) > 0 => IInv
<1> SUFFICES ASSUME Init, Size(db) > 0 PROVE IInv
  OBVIOUS
<1>1. LInv
  BY LocksInit
<1>2. PICK n \in 0..PageCount : db = [p \in Pages |-> IF p <= n THEN {} ELSE Absent]
  BY DEF Init, InitialDatabases
<1>3. n >= 1 /\ 1 \in Pages
  <2>0. 1 \in Pages
    BY JournalConstants DEF Pages
  <2>1. PICK p \in Pages : db[p] # Absent
    BY <2>0, SizeIsLast DEF Pages
  <2> QED BY <1>2, <2>0, <2>1 DEF Pages
<1>4. IsDatabase(db) /\ FileTypes /\ Settled
  <2>1. \A p \in Pages : db[p] \in Contents /\ (db[p] # Absent <=> p <= n)
    BY <1>2, Marks DEF Contents
  <2>2. db \in [Pages -> Contents]
    BY <1>2, <2>1
  <2>3. IsDatabase(db)
    BY <1>2, <1>3, <2>1, <2>2 DEF IsDatabase, Pages
  <2>4. kept = [p \in Pages |-> {db[p]}] /\ journal = NoJournal /\ safe = NoJournal
    BY DEF Init
  <2> QED BY <2>2, <2>3, <2>4 DEF FileTypes, Settled, NoJournal, Journals, NoRecords
<1>5. /\ at = [c \in Calls |-> "idle"] /\ seen = [c \in Calls |-> NoRecords]
      /\ ~journal.magic /\ ~safe.magic /\ journal.by = None /\ safe.by = None
  BY DEF Init, NoJournal
<1>6. Recoverable
  BY <1>4, <1>5, JournalConstants DEF Recoverable
<1>7. ASSUME NEW c \in Calls PROVE Holds(c)
  BY <1>5 DEF Holds, FindsNoneHot, Journalled, WithoutGap, Written, PlaysBack, RollsBack, Queries,
     Inserting, Exclusive, Ended
<1> QED BY <1>1, <1>4, <1>5, <1>6, <1>7 DEF IInv, FInv, NoRecords

(* The invariant is inductive.                                               *)
LEMMA RecoveryNext == IInv /\ [Next]_vars => IInv'
<1> SUFFICES ASSUME IInv, [Next]_vars PROVE IInv'
  OBVIOUS
<1>1. CASE UNCHANGED vars
  <2>1. LInv'
    BY LocksNext DEF IInv
  <2>2. Image' = Image
    BY <1>1 DEF vars, files, Image
  <2>3. FileTypes' /\ Recoverable' /\ UNCHANGED seen
    BY <1>1, <2>2 DEF vars, files, work, IInv, FInv, FileTypes, Recoverable, CanUndo, IsDatabase, Settled
  <2>4. ASSUME NEW o \in Calls PROVE Holds(o)'
    BY <1>1, HoldsApart DEF vars, work, locks, IInv, FInv, Apart, Undisturbed
  <2> QED BY <2>1, <2>3, <2>4 DEF IInv, FInv
<1> QED BY <1>1, PagerKeeps, FailKeeps, PowerLossKeeps DEF Next, AllEnded

(* The invariant covers what the run checks of the types.                    *)
LEMMA RecoveryTypes == IInv => TypeOK
<1> SUFFICES ASSUME IInv PROVE TypeOK
  OBVIOUS
<1>1. \A c \in Calls : Fits(c)
  BY DEF IInv, LInv
<1>2. ASSUME NEW c \in Calls, c \in readers \cup {pending, reserved, writer} PROVE Running(c)
  BY <1>2, HoldersRun DEF IInv
<1>3. pending # None => reserved = pending
  BY <1>1 DEF IInv, LInv, LockTypes, Fits, Inserting, Exclusive
<1>4. db \in [Pages -> {Absent, Torn} \cup SUBSET Writers]
  BY DEF IInv, FInv, FileTypes, Contents
<1>5. {journal.by, safe.by} \subseteq Writers \cup {None}
  BY DEF IInv, FInv, FileTypes, Journals
<1> QED BY <1>2, <1>3, <1>4, <1>5 DEF TypeOK, IInv, LInv, LockTypes, FInv, FileTypes, Before, Inserting, Exclusive, Ended

(* The variables have the values the code can give them, and the locks       *)
(* exclude what they are there to exclude, however many calls, pages and     *)
(* faults there are.                                                         *)
THEOREM LocksAndFiles == Spec /\ Size(db) > 0 => []TypeOK
BY RecoveryInit, RecoveryNext, RecoveryTypes, PTL DEF Spec

-----------------------------------------------------------------------------
(* What the callers see.                                                     *)
LEMMA OneIsSeen ==
    ASSUME NEW c \in Calls, \A o \in Calls \ {c} : Apart(o)
    PROVE  /\ Outcome' = [Outcome EXCEPT ![c] = Outcome'[c]]
           /\ Answers' = [Answers EXCEPT ![c] = Answers'[c]]
           /\ Outcome'[c] = Outcome[c] => Outcome' = Outcome
           /\ Answers'[c] = Answers[c] => Answers' = Answers
<1>1. \A o \in Calls \ {c} : Outcome'[o] = Outcome[o] /\ Answers'[o] = Answers[o]
  BY DEF Apart, Undisturbed, Outcome, Answers, Running
<1> QED BY <1>1 DEF Outcome, Answers

(* A call that goes on has no outcome yet.                                   *)
LEMMA GoesOn ==
    ASSUME NEW c \in Calls, \A o \in Calls \ {c} : Apart(o),
           Image' = Image, Settling,
           Running(c), Running(c)', at[c] # "committed", at'[c] # "committed"
    PROVE  Log!Next
<1>1. Outcome[c] = "running" /\ Outcome'[c] = "running"
  BY DEF Outcome, Running
<1>2. Answers[c] = NoRecords /\ Answers'[c] = NoRecords
  BY DEF Answers, Running, Ended
<1>3. Outcome' = Outcome /\ Answers' = Answers
  BY <1>1, <1>2, OneIsSeen
<1>4. Log!Settle
  BY <1>3 DEF Log!Settle, Log!Settles, Settling, Previous
<1> QED BY <1>4 DEF Log!Next

(* A call that fails or whose process ends has changed nothing.              *)
LEMMA Ends ==
    ASSUME NEW c \in Calls, \A o \in Calls \ {c} : Apart(o),
           Image' = Image, Settling, Running(c),
           at'[c] \in {"failed", "gone"}, at'[c] = "failed" => at[c] # "committed"
    PROVE  Log!Next
<1>1. Outcome[c] = (IF at[c] = "committed" THEN "inserted" ELSE "running") /\ Outcome'[c] = at'[c]
  BY DEF Outcome, Running, Ended
<1>2. Answers[c] = NoRecords /\ Answers'[c] = NoRecords
  BY DEF Answers, Running, Ended
<1>3. Outcome' = [Outcome EXCEPT ![c] = at'[c]] /\ Answers' = Answers
  BY <1>1, <1>2, OneIsSeen
<1>4. Log!End(c, at'[c])
  BY <1>1, <1>3 DEF Log!End, Log!Becomes, Log!Settles, Settling, Previous
<1> QED BY <1>4 DEF Log!Next

(* The beginning of a call.                                                  *)
LEMMA CallIsSeen ==
    ASSUME IInv, NEW c \in Calls, Open(c)
    PROVE  Log!Next
<1>0. Pager(c) /\ ~EndTransaction(c)
  BY DEF Pager, Open, From, EndTransaction
<1>1. (\A o \in Calls \ {c} : Apart(o)) /\ Image' = Image /\ Settling
  BY <1>0, OthersApart, ImageKeeps, FilesKeep
<1>2. at[c] = "idle" /\ at'[c] = "lock"
  BY DEF Open, From, Goto, IInv, LInv, LockTypes
<1>3. Outcome[c] = "idle" /\ Outcome'[c] = "running" /\ Answers[c] = NoRecords /\ Answers'[c] = NoRecords
  BY <1>2 DEF Outcome, Answers, Running, Ended
<1>4. Outcome' = [Outcome EXCEPT ![c] = "running"] /\ Answers' = Answers
  BY <1>1, <1>3, OneIsSeen
<1>5. Log!Call(c)
  BY <1>1, <1>3, <1>4 DEF Log!Call, Log!Becomes, Log!Settles, Settling, Previous
<1> QED BY <1>5 DEF Log!Next

(* A query has seen one moment.                                              *)
LEMMA QueryIsSeen ==
    ASSUME IInv, NEW c \in Calls, EndQuery(c)
    PROVE  Log!Next
<1>0. Pager(c) /\ ~EndTransaction(c) /\ 1 \in Pages
  BY JournalConstants DEF Pager, EndQuery, EndTransaction, Pages
<1>1. (\A o \in Calls \ {c} : Apart(o)) /\ Image' = Image /\ Settling
  BY <1>0, OthersApart, ImageKeeps, FilesKeep
<1>2. /\ at[c] = "reader" /\ at'[c] = "done" /\ seen' = seen
      /\ \A p \in Pages : seen[c][p] # NoRecord
  BY DEF EndQuery, Goto, Leave, work, IInv, LInv, LockTypes
<1>3. /\ seen[c] \in [Pages -> {NoRecord, Torn} \cup Contents] /\ db \in [Pages -> {Torn} \cup Contents]
      /\ Queries(c) /\ ~journal.magic
  BY <1>2 DEF IInv, FInv, FileTypes, Holds, FindsNoneHot
<1>4. c \notin Writers
  BY <1>0, <1>2, <1>3 DEF Queries, NoRecords
<1>5. seen[c] = Image
  <2>1. \A p \in Pages : seen[c][p] = db[p]
    BY <1>2, <1>3 DEF Queries
  <2>2. Image = db
    BY <1>3, ImageFacts DEF IInv, FInv
  <2> QED BY <1>3, <2>1, <2>2
<1>6. Outcome[c] = "running" /\ Outcome'[c] = "done" /\ Answers'[c] = Image
  BY <1>2, <1>4, <1>5 DEF Outcome, Answers, Running, Ended
<1>7. Outcome' = [Outcome EXCEPT ![c] = "done"] /\ Answers' = [Answers EXCEPT ![c] = Image]
  BY <1>1, <1>6, OneIsSeen
<1>8. Log!Query(c)
  BY <1>1, <1>4, <1>6, <1>7 DEF Log!Query, Log!Becomes, Log!Settles, Settling, Previous
<1> QED BY <1>8 DEF Log!Next

(* An insert happens as a whole, when its journal is deleted.                *)
LEMMA InsertIsSeen ==
    ASSUME IInv, NEW c \in Calls, EndTransaction(c)
    PROVE  Log!Next
<1>0. Pager(c) /\ at[c] = "finish"
  BY DEF Pager, EndTransaction
<1>1. (\A o \in Calls \ {c} : Apart(o)) /\ Settling /\ Running(c)
  BY <1>0, OthersApart, FilesKeep DEF Running, Ended
<1>2. CASE CanDelete(c)
  <2>1. at'[c] = "committed" /\ Deletes(c)
    BY <1>0, <1>2 DEF EndTransaction, Goto, Deletes, IInv, LInv, LockTypes
  <2>2. Outcome[c] = "running" /\ Outcome'[c] = "inserted" /\ Answers[c] = NoRecords /\ Answers'[c] = NoRecords
    BY <1>0, <2>1 DEF Outcome, Answers, Running, Ended
  <2>3. Outcome' = [Outcome EXCEPT ![c] = "inserted"] /\ Answers' = Answers
    BY <1>1, <2>2, OneIsSeen
  <2>4. Image' = db
    BY <1>0, <2>1, FilesKeep
  <2>5. /\ c \in Writers /\ dirty[c] # {} /\ dirty[c] \subseteq Pages /\ safe = journal
        /\ \A p \in Pages : db[p] = IF p \in dirty[c] THEN (Image[p] \ Absent) \cup {c} ELSE Image[p]
    BY <1>0 DEF IInv, LInv, LockTypes, Fits, FInv, Holds, Journalled, Written, Changed, Inserting, Exclusive
  <2>6. \A p \in Pages \ dirty[c] : Image'[p] = Image[p]
    BY <2>4, <2>5
  <2>7. \A p \in dirty[c] : c \in Image'[p] /\ Image'[p] \cap Writers = (Image[p] \cap Writers) \cup {c}
    <3>1. Absent \cap Writers = {}
      BY JournalConstants DEF Absent
    <3> QED BY <2>4, <2>5, <3>1
  <2>8. Previous' = Image
    BY <2>1, <2>5 DEF Deletes, DeleteJournal, Previous, Image
  <2>9. Log!Insert(c)
    BY <2>2, <2>3, <2>5, <2>6, <2>7, <2>8 DEF Log!Insert, Log!Becomes, Previous
  <2> QED BY <2>9 DEF Log!Next
<1>3. CASE ~CanDelete(c)
  <2>1. at'[c] = "failed" /\ UNCHANGED files
    BY <1>3 DEF EndTransaction, Leave, Goto, IInv, LInv, LockTypes
  <2>2. Image' = Image
    BY <2>1 DEF files, Image
  <2> QED BY <1>0, <1>1, <2>1, <2>2, Ends
<1> QED BY <1>2, <1>3

(* The answer to an insert.                                                  *)
LEMMA AnswerIsSeen ==
    ASSUME IInv, NEW c \in Calls, Unlock(c)
    PROVE  Log!Next
<1>0. Pager(c) /\ ~EndTransaction(c)
  BY DEF Pager, Unlock, EndTransaction
<1>1. (\A o \in Calls \ {c} : Apart(o)) /\ Image' = Image /\ Settling
  BY <1>0, OthersApart, ImageKeeps, FilesKeep
<1>2. at[c] = "committed" /\ at'[c] = "done" /\ seen' = seen
  BY DEF Unlock, Leave, Goto, work, IInv, LInv, LockTypes
<1>3. seen[c] = NoRecords
  BY <1>2 DEF IInv, FInv, Holds, Queries, Ended
<1>4. Outcome[c] = "inserted" /\ Outcome'[c] = "done" /\ Answers[c] = NoRecords /\ Answers'[c] = NoRecords
  BY <1>2, <1>3 DEF Outcome, Answers, Running, Ended
<1>5. Outcome' = [Outcome EXCEPT ![c] = "done"] /\ Answers' = Answers
  BY <1>1, <1>4, OneIsSeen
<1>6. Log!End(c, "done")
  BY <1>1, <1>4, <1>5 DEF Log!End, Log!Becomes, Log!Settles, Settling, Previous
<1> QED BY <1>6 DEF Log!Next

(* Every other step of a call is seen as its failure or not at all.          *)
LEMMA PagerIsSeen ==
    ASSUME IInv, NEW c \in Calls, Pager(c)
    PROVE  Log!Next
<1>1. CASE Open(c) \/ EndQuery(c) \/ EndTransaction(c) \/ Unlock(c)
  BY <1>1, CallIsSeen, QueryIsSeen, InsertIsSeen, AnswerIsSeen
<1>2. CASE ~(Open(c) \/ EndQuery(c) \/ EndTransaction(c) \/ Unlock(c))
  <2>1. (\A o \in Calls \ {c} : Apart(o)) /\ Image' = Image /\ Settling
    BY <1>2, OthersApart, ImageKeeps, FilesKeep
  <2>2. at[c] \notin {"idle", "committed"} \cup Ended /\ at'[c] \notin {"idle", "committed", "done", "gone"}
    <3>0. at \in [Calls -> Before \cup Inserting \cup Ended \cup {"header", "restore", "finalize", "committed"}]
      BY DEF IInv, LInv, LockTypes
    <3>1. ASSUME \/ SharedLock(c) \/ JournalExists(c) \/ CheckReservedLock(c) \/ InspectJournal(c)
                 \/ DropForHot(c) \/ LockHot(c) \/ SyncHotJournal(c) \/ ReadHeader(c) \/ RestorePage(c)
                 \/ SyncRestored(c) \/ FinalizeJournal(c) \/ ReadPage(c) \/ Begin(c)
          PROVE  at[c] \notin {"idle", "committed"} \cup Ended /\ at'[c] \notin {"idle", "committed", "done", "gone"}
      BY <3>0, <3>1 DEF SharedLock, JournalExists, CheckReservedLock, InspectJournal, DropForHot, LockHot,
         SyncHotJournal, ReadHeader, RestorePage, SyncRestored, FinalizeJournal, ReadPage, Begin,
         From, Goto, Leave, Ended
    <3>2. ASSUME \/ OpenJournal(c) \/ AddPageToJournal(c) \/ LockPending(c) \/ LockExclusive(c) \/ SyncJournal(c)
                 \/ WriteRecordCount(c) \/ SyncJournalAgain(c) \/ WritePage(c) \/ SyncDatabase(c)
          PROVE  at[c] \notin {"idle", "committed"} \cup Ended /\ at'[c] \notin {"idle", "committed", "done", "gone"}
      BY <3>0, <3>2 DEF OpenJournal, AddPageToJournal, LockPending, LockExclusive, SyncJournal, WriteRecordCount,
         SyncJournalAgain, WritePage, SyncDatabase, From, Goto, Leave, Ended
    <3> QED BY <1>2, <3>1, <3>2 DEF Pager
  <2>3. Running(c) /\ at[c] # "committed" /\ at'[c] # "committed" /\ (at'[c] = "failed" \/ Running(c)')
    BY <2>2 DEF Running, Ended
  <2> QED BY <2>1, <2>3, GoesOn, Ends
<1> QED BY <1>1, <1>2

(* A failing call of the operating system, and the end of a process.         *)
LEMMA FailIsSeen ==
    ASSUME IInv, NEW c \in Calls, Fail(c) \/ Crash(c)
    PROVE  Log!Next
<1>1. UNCHANGED files /\ UNCHANGED work /\ Image' = Image
  BY FailKeeps
<1>2. /\ at \in [Calls -> Before \cup Inserting \cup Ended \cup {"header", "restore", "finalize", "committed"}]
      /\ writer \in Calls \cup {None}
  BY DEF IInv, LInv, LockTypes
<1>3. ASSUME NEW o \in Calls \ {c} PROVE Apart(o)
  BY <1>1, <1>2, <1>3, JournalConstants DEF Apart, Undisturbed, Fail, Crash, Leave, Goto, work, locks
<1>4. Settling
  BY <1>1 DEF files, Settling, Previous
<1>5. CASE Fail(c)
  <2>1. Running(c) /\ at[c] # "committed" /\ at'[c] \in {"finalize", "header", "failed"}
    BY <1>2, <1>5 DEF Fail, Leave, Goto
  <2>2. CASE at'[c] = "failed"
    BY <1>1, <1>3, <1>4, <2>1, <2>2, Ends
  <2>3. CASE at'[c] \in {"finalize", "header"}
    <3>1. Running(c)' /\ at'[c] # "committed"
      BY <2>3 DEF Running, Ended
    <3> QED BY <1>1, <1>3, <1>4, <2>1, <3>1, GoesOn
  <2> QED BY <2>1, <2>2, <2>3
<1>6. CASE Crash(c)
  <2>1. Running(c) /\ at'[c] = "gone"
    BY <1>2, <1>6 DEF Crash, Leave, Goto
  <2> QED BY <1>1, <1>3, <1>4, <2>1, Ends
<1> QED BY <1>5, <1>6

(* A power loss is one for the log as well.                                  *)
LEMMA PowerLossIsSeen ==
    ASSUME IInv, PowerLoss
    PROVE  Log!Next
<1>1. Image' \in {Image, Previous} /\ Previous' = Image'
  BY PowerLossKeeps
<1>2. seen' = seen /\ at' = [c \in Calls |-> IF Running(c) THEN "gone" ELSE at[c]]
  BY DEF PowerLoss, work
<1>3. ASSUME NEW c \in Calls
      PROVE  /\ Outcome'[c] = IF Outcome[c] \in {"running", "inserted"} THEN "gone" ELSE Outcome[c]
             /\ Answers'[c] = Answers[c]
  <2>1. CASE Running(c)
    BY <1>2, <2>1 DEF Outcome, Answers, Running, Ended
  <2>2. CASE ~Running(c)
    BY <1>2, <2>2 DEF Outcome, Answers, Running, Ended
  <2> QED BY <2>1, <2>2
<1>4. Outcome' = [c \in Calls |-> IF Outcome[c] \in {"running", "inserted"} THEN "gone" ELSE Outcome[c]]
  BY <1>3 DEF Outcome
<1>5. Answers' = Answers
  BY <1>3 DEF Answers
<1>6. Log!PowerLoss
  BY <1>1, <1>4, <1>5 DEF Log!PowerLoss, Previous
<1> QED BY <1>6 DEF Log!Next

(* The files begin as a log.                                                 *)
LEMMA LogInit == Init => Log!Init
<1> SUFFICES ASSUME Init PROVE Log!Init
  OBVIOUS
<1>1. /\ at = [c \in Calls |-> "idle"] /\ db \in InitialDatabases
      /\ journal = NoJournal /\ safe = NoJournal
  BY DEF Init
<1>2. Image = db /\ Recovered(db, safe) = db
  BY <1>1 DEF Image, Recovered, NoJournal
<1>3. Outcome = [c \in Calls |-> "idle"]
  BY <1>1 DEF Outcome, Running
<1>4. Answers = [c \in Calls |-> NoRecords]
  BY <1>1 DEF Answers
<1> QED BY <1>1, <1>2, <1>3, <1>4 DEF Log!Init

(* Every step is one of the log, or is not seen.                             *)
LEMMA LogNext == IInv /\ [Next]_vars => [Log!Next]_(Log!vars)
<1> SUFFICES ASSUME IInv, [Next]_vars PROVE [Log!Next]_(Log!vars)
  OBVIOUS
<1>1. CASE UNCHANGED vars
  <2>1. Image' = Image /\ Previous' = Previous /\ Outcome' = Outcome /\ Answers' = Answers
    BY <1>1 DEF vars, files, work, Image, Previous, Outcome, Answers, Running
  <2> QED BY <2>1 DEF Log!vars, Previous
<1> QED BY <1>1, PagerIsSeen, FailIsSeen, PowerLossIsSeen DEF Next, AllEnded

(* Whatever is interleaved, fails or ends, an insert happens at once or not  *)
(* at all, a query sees one moment, and a call that fails has changed        *)
(* nothing; only a power loss takes an answered insert back, and only the    *)
(* last one.  The database must have been created.                           *)
THEOREM JournalIsAtomic == Spec /\ Size(db) > 0 => ImplementsAtomicLog
<1>1. Init /\ Size(db) > 0 => Log!Init
  BY LogInit
<1> QED BY <1>1, RecoveryInit, RecoveryNext, LogNext, PTL DEF Spec, ImplementsAtomicLog, Log!Spec
=============================================================================
