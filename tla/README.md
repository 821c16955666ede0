# A verification of DistributedFileServer

The program is a transactional file server: one *participant* of a two-phase
commit. A client reads and writes files inside a transaction; a coordinator,
which is not in the repository, sends `prepare` and then `global_commit` or
`global_abort`. The server answers one connection at a time from one thread,
logs every operation as a row of an SQLite table, decides its vote from that
table, and rewrites the files of its shared directory when it is told to commit.

## 1. The system

| part | state | operations | interacts with |
|---|---|---|---|
| main loop, framing (`server.cpp`) | the socket of the current request | accept, read 5-digit length, read body, answer, close; a `catch` that drops the answer | clients over TCP; the controller by call |
| request handlers (`controller.cpp`) | none between requests | read, write, prepare, global_commit, global_abort, anything else | the log (dao), the directory, the operator's terminal |
| operation log (`dao.cpp`) | table `OPERATION(id, name, transaction_id, filename, data)` | one insert, five queries; each opens and closes the database | SQLite |
| shared directory | files | read at `read`, truncated and rewritten at `global_commit` | the controller; the file system resolves names |
| configuration (`config.cpp`) | `auto_mode`, port, two paths | read and checked at start | main |
| JSON messages (`json_messahes.cpp`) | none | parse a request, build a response | controller |
| operator | none | types `t` or `n` when `auto_mode` is false | the controller blocks on it |
| clients, coordinator | outside the repository | any request, any time | the server |
| SQLite (`sqlite3.c`, vendored 3.10.2) | the database file, its rollback journal, file locks; per connection a pager and a statement | a row is journalled, written in place and committed by deleting the journal; a hot journal is played back by whoever comes next | the operating system: reads, writes, syncs, byte-range locks |

What makes it hard. Handlers never interleave with each other inside one server:
the loop of `main` is sequential. Everything else can happen. Requests of
several transactions interleave one by one, in orders the two-phase commit never
meant (commit without vote, commit after abort, writes after the vote, commit
twice). A `global_commit` makes one durable change per file, two counting
the truncation, and then one to the log, with nothing that ties them together:
the process may end, or a call may fail, between any two of them, and nothing is
recovered at start. The opens and writes of files are not checked. The vote is
computed from what the log says of other transactions, by queries that look at
one file name only and count from the first row of the transaction.

What makes each part correct:

* **operation log** - a transaction's last write is found; writes come back in
  order; the interception queries say what their comments say.
* **handlers** - the directory is what the recorded commits make it; reads are
  committed data or the transaction's own; nothing is answered before it is
  durable; a vote for a transaction means something about what it read.
* **commit** - it ends, with a row and an answer, unless the process ends.
* **main loop** - what one client does costs no other client its answer; a
  connection ends unless somebody outside keeps it waiting.
* **cluster** - a transaction ends the same way on all servers; what the votes
  let through is known; a file torn by a crash is repaired by a retry.
* **database** - an insert happens at once or not at all, whatever fails; a
  failed call does not stop later ones, beyond the leaks of `dao.cpp`.

## 2. Modules

| module | models | contents |
|---|---|---|
| `OperationLog` | `dao.cpp` | rows, the insert and the five queries as operators over a sequence whose index is the row id |
| `FileServer` | `controller.cpp`, the loop and the start of `server.cpp` | variables, one action per handler or per durable step, `Spec`, `FairSpec` |
| `FileServerProperties`, `MCFileServer` | | what is checked and proved of one server; constants and symmetry for TLC |
| `FileServerProofs`, `HistoryProofs` | | types, and the directory against the log; reads, votes and answers against the log |
| `TransactionalStore` | what clients are promised | committed files, workspaces, atomic commits, torn files after failures: no log, no process |
| `StoreRefinement`, `MCStore`, `StoreProofs` | | the mapping from `FileServer` to `TransactionalStore`; the proof that it is an implementation |
| `TwoPhaseCommit` | several servers, coordinators, requests in flight | uses the queries of `OperationLog` and the vote and reads of `FileServer` by `INSTANCE` |
| `TwoPhaseProperties`, `MCTwoPhase`, `TwoPhaseProofs` | | isolation and atomic commitment, checked and proved |
| `RequestLoop` | `main`, `config.cpp`, framing | start, accept, blocking reads, header, exceptions, operator input |
| `LoopProperties`, `MCLoop`, `LoopProofs` | | what clients may expect of the loop, checked and proved |
| `DaoSession`, `MCSession`, `SessionProofs` | one process's calls of `dao.cpp` | open, prepare, bind, step, finalize, close, and what a throw leaves open |
| `RollbackJournal` | the pager and the Windows file layer of `sqlite3.c` as `dao.cpp` uses them | locks, journal, writes, syncs, hot-journal playback, crashes and power losses |
| `AtomicLog` | what `OperationLog` takes for granted of the database | an insert is one step, or none |
| `JournalProperties`, `MCJournal` | | the mapping from `RollbackJournal` to `AtomicLog` |
| `JournalProofs`, `RecoveryProofs` | | the locks; the files, and the proof that they implement `AtomicLog` |

How they fit together: `RollbackJournal` implements `AtomicLog`, which is why
`OperationLog` may treat a call as one step. `DaoSession` says when such a call
throws for what earlier ones left behind; to `FileServer` that is a call that
fails (`RequestFails`, `InsertFails`). `FileServer` implements `TransactionalStore`,
in which a commit is one step that may leave torn files after a failure.
So `TwoPhaseCommit` treats a handler as one step, and keeps in it what can fail there:
a read that does not open its file, each open and write of `commitPendingWrites`, and a commit that
ends before its row, with the process or because a call throws. `RequestLoop` is around the handlers: it says when one is
called, and what becomes of its answer.

A definition whose name has an underscore (`HandleWrite_Through`) is the definition
after it with a plausible mistake. None is used by the specification; each shows
that a property would notice that mistake.

### How `FileServer` corresponds to the code

* `log`, `disk` are durable; `pc`, `txn`, `pending`, `reply` are the memory of
  the process and are lost by `Crash`. `sync`, `misread` are history variables
  that properties refer to; no guard reads them. `faults` counts crashes
  and failing calls against the bound `MaxFaults`; `MaxLog` bounds the rows.
* `log` starts empty: the table is `CREATE TABLE IF NOT EXISTS`. A row's position
  is its id, because ids are AUTOINCREMENT and rows are never changed.
* `HandleRead`, `HandleWrite`, `HandlePrepare`, `HandleGlobalAbort`: one action
  each. They make one durable change, the insert, so nothing in between can be seen
  after a crash. A dao call that throws before it is `RequestFails`: the answer is
  dropped and nothing durable changed.
* `AskOperator` / `OperatorAnswers`: `prepare` when `auto_mode` is false. The process
  waits, and may end while waiting. Lines other than `t` and `n` change nothing.
* `HandleGlobalCommit` reads the pending writes; then for each, in order of ids,
  `OpenFile` (the `ofstream` constructor truncates) and `WriteFile`, or
  `OpenFileFails` / `WriteFileFails`, after which the loop goes on as the code does;
  then `RecordCommit` inserts the row, or `InsertFails`. The answer to a commit is a
  `vote_commit` message: this is what the code sends. The same holds for
  `global_abort` and `vote_abort`.
* `HandleReadUnopened` is the unchecked `ifstream`: an existing file that does not
  open reads as empty.
* `Reply` returns to the loop whether or not the client got the answer.
* `PathOf` maps spelled names to files. On the platform of the code several
  spellings (`a.txt`, `A.TXT`, `./a.txt`) lead to one file while the queries compare
  names as they are spelled.

### How the other modules correspond to the code

* `TwoPhaseCommit`. A server handles a request in one step, `Handle`: it carries out the pending writes if
  it is a commit, inserts the row, and answers; with `delivered = FALSE` the answer is lost. `RowsFor` has,
  besides the row of a handler in which nothing fails, that of a read whose file did not open. `Installations` gives
  each pending write one of three outcomes (`written`; `unopened`; opened, that is truncated, and `unwritten`);
  the code checks none of them, so the row and the answer are the same for all (`Applied` is what the loop leaves in
  the directory). `HandleCutShort` is a commit without a row, the end of the process at any point between the query and the
  insert, also right after a truncation, or an insert that throws: any prefix of the writes, with any outcomes. A call of the log that throws
  before anything has changed is a lost request (`Lose`). Two history variables name the exceptions of the properties,
  and no guard reads them: `torn`, files touched by a commit that was cut short and not by a whole one since, and `missed`, files whose last recorded
  commit did not write what it should have. The coordinators
  are not in the repository; each follows its transaction's program, asks for
  votes, decides, and repeats the decision to servers that have not answered. As every request
  is a connection of its own, one that its sender has given up may still arrive.
  `losses` (lost requests and answers, and handlers in which something fails) and `timeouts` are bounded.
* `RequestLoop`. `ReadConfig`, `InitDatabase` and `Listen` are the start, with each check of
  `config.cpp` and each way to end; `Accept`, `ReadHeader`, `ReadBody`,
  `CalculateResponse`, `GetUserInput`, `WriteResponse` are one iteration. `buf` is the
  `streambuf` of that iteration, with the sender of each byte so that a byte read on another's behalf
  would show. `Atoi` has the three outcomes of `atoi` on the header (a number, a sign,
  none); a negative length as `size_t` never arrives, so the read ends only with the connection. `Fits` is
  `sprintf_s` into six bytes. Requests that parse take effect in one step; their
  rows are `FileServer`'s. `LogThrows` is the other way out of a handler: a dao call throws, on a correct request too,
  before the row is inserted, and the `catch` of the iteration closes the connection without an answer; the history variable `refused`
  remembers whose it was. The model lets it happen at any time; `DaoSession` says when earlier calls are the cause. Bytes are counted, not represented.
* `DaoSession`. `at` is the next SQLite call of the dao function in progress, `opened` and
  `locked` are the connections of the process. Every call may fail; dao then throws without
  finalizing or closing. A statement that stands on a row holds a read lock.
* `RollbackJournal`. A call goes through the steps of `sqlite3PagerSharedLock`,
  `hasHotJournal`, `sqlite3PagerBegin`, `pager_write`, `sqlite3PagerCommitPhaseOne`/`Two`,
  `pager_playback` and `pager_end_transaction`, one action per system call that another process
  or a power loss can tell apart. Locks are the PENDING and RESERVED bytes and the
  SHARED range of `winLock`. A power loss leaves what was synced and any part
  of the rest; a page cut in the middle of a write is `Torn`. A journal that
  somebody has open cannot be deleted, as Windows has it (`winDeviceCharacteristics`).

### Abstractions

* File contents are a small set with the empty content in it. Texts that SQLite or
  text-mode streams would change on the way (a NUL byte, line ends) are
  not in it. A content cut short by a crash or a failing write is represented by
  the empty content; no property looks at the difference, since the file is then
  marked in `sync`.
* A spelled name is never empty; the empty name is `NoFilename`, of rows without file.
* In `OperationLog` and `FileServer` a dao call is atomic: it is one autocommitted statement in a connection of
  its own (`AtomicLog`). Others that open `log.sqlite` at the same time can make it fail, which is `RequestFails`
  or `InsertFails`.
* A finalize or close after a successful step does not fail: `sqlite3_finalize` repeats the result of the step and
  `sqlite3_close` has no statement left to refuse for.
* `FileServer` has ends of the process, not power losses: the program never syncs the shared directory. Power losses are
  in `RollbackJournal` only.
* `RollbackJournal`: no page cache (each call is a new connection, and a row does not overflow
  the cache, so nothing is written before the commit); the read of the schema in prepare and the locks that `winCheckReservedLock` and the retry of
  the PENDING byte hold for a moment are left out; a sync makes earlier changes of names durable, as a journalled file
  system does; the journal's checksums and nonce are represented by whether a record
  is whole (`NoRecord`).
* Nobody else writes the shared directory.

## 3. Properties and runs

| run | instance | properties | shows |
|---|---|---|---|
| `recovery` | 2 transactions, 1 file, 3 contents, 4 rows, 2 faults | `TypeOK`, `DiskIsReplay`, `ReadStaysCurrent`, `AnsweredMeansLogged`, `ReadsSeeCommittedData` | crash consistency with crashes and failing calls anywhere |
| `validation` | 2 transactions, 1 file name, 5 rows, no faults | `ReadYourWrites`, `SingleFileValidation`, `ValidatedReadsAreCurrent` | what the automatic vote guarantees |
| `names` | 3 names for 2 files, 4 rows | `DiskIsReplay`, `ReadYourWrites`, `ValidatedReadsAreCurrent` | several files per transaction, aliases |
| `operator` | `AutoMode` false, 2 names, 2 files, 3 rows, 1 fault, fair | `DiskIsReplay`, `AnsweredMeansLogged`, `CommitCompletes`, `ImplementsStore` | votes that contradict the log; a commit ends; the server implements the abstract store |
| `isolation` | 1 server, 2 files; t1 reads both and writes one, t2 writes both; 1 loss or failing handler, 1 premature timeout | `StaleReadsAreExplained`, `CommittedAsAnswered`, `UndecidedStaysPrivate` | what validation at prepare is worth when transactions overlap; commits that fail in part, repeated and late ones |
| `commitment` | 2 servers; t1 writes on both, t2 reads and writes on one; 2 losses, failing handlers or cut-short commits, no premature timeout, fair | `TypeOK`, `CommittedAsAnswered`, `TornFilesAreWaitedFor`, `AllOrNothing` | atomic commitment |
| `clients` | 2 clients, 9 kinds of request, 1 waiting place, 1 typed line, 2 starts, fair | `TypeOK`, `CorrectIsAnswered`, `AnnouncedIsActual`, `EffectIsAnswered`, `EndsOnlyForLength`, `EveryConnectionEnds` | the loop of main |
| `journal` | 2 inserts and a query, 2 pages, 2 faults | `TypeOK`, `ImplementsAtomicLog`, `AloneIsNotRefused` | the log calls are atomic |
| `session` | 3 connections, 2 rows, 4 faults | `TypeOK`, `LostByExceptions`, `RefusedForAReason` | what exceptions leave behind |
| `write_comment` | 2 names, 5 rows | `InterceptedWritesAreNotVotedFor` | violated, see below |
| `start_comment` | 1 name, 5 rows | `OnlyInterceptedAreVotedAgainst` | violated, see below |
| `new_database` | 1 insert and a query, 1 page, 3 faults | `FailedInsertsAreGone` | violated, see below |

* `DiskIsReplay` - the central one. Take the initial directory and apply, for each
  `global_commit` row in order, the writes of that transaction logged before it.
  Every file that no unrecorded or failed installation has touched last is exactly
  that. It speaks of late commits, repeated commits (which bring old contents back,
  as the replay does), commits without votes, and writes after a commit.
* `ReadStaysCurrent` - what was read from the directory is still there until
  the log records a commit to the file.
* `ReadsSeeCommittedData` (action property) - no dirty reads.
* `ReadYourWrites` - over the whole log, whatever happened between.
* `AnsweredMeansLogged` - write-ahead of the answer.
* `SingleFileValidation` - for a transaction that uses one file name,
  validation misses no conflict with a transaction that committed, among operations after its
  first row.
* `ValidatedReadsAreCurrent` - at the vote, what the transaction read of the first
  file it read is still what the file holds, unless a commit in between was its own, or came
  from a write that the queries cannot see: logged before the transaction
  began, or under another spelling. The last two exceptions are
  weaknesses of the queries, stated exactly; TLC refutes the property without any of the three
  (the spelling one in `names`, the others in both runs).
* `CommitCompletes` - leads-to, under weak fairness of what the process does by
  itself (`Proceed`), and only once the fault bound is used up.

Of the other modules:

* `ImplementsStore` (refinement) - whatever the log and the process do, clients see a
  store in which a commit moves a transaction's workspace to the files in one
  step, and no torn file is seen before something failed. What is committed is computed from the log
  alone, so a handler that leaked a write before its commit, or missed one, is not a step of the store.
  The store is as weak as the code: workspaces outlive commits, and votes promise nothing there.
* `StaleReadsAreExplained` - the three ways, and no other, in which a transaction commits
  although what it read had been overwritten: it was voted for before the other commit (both
  were prepared), the write was logged before it began, or the file is not the first it
  read. Each is needed: TLC refutes the property without it.
* `CommittedAsAnswered` - when all servers have answered the decision, each file has the
  transaction's last write to it, or a later commit to it is recorded or was cut short in it, or the last recorded commit failed
  to write this very file (`missed`). The last exception is the code's: opens and writes are not checked, and the commit is
  answered all the same. What the property adds is that nothing else is one: no lost, late or repeated request,
  no failure in another file, in an earlier write to the file or in an earlier attempt.
* `UndecidedStaysPrivate` - over several servers, with late and repeated requests.
* `TornFilesAreWaitedFor` - the repetition of the decision is the only recovery, and it is one for commits that ended before
  their row: a file that such a commit touched always has a coordinator that
  still waits for that server. It is none for a failing write of a commit that goes on: that one is recorded and answered, and nobody repeats it; such
  a file is in `missed`, not in `torn`. Nor does it hold with premature timeouts
  (a duplicate arrives late and is cut short when nobody waits any more). The property says both.
* `AllOrNothing` (liveness) - every transaction ends, alike on all servers, as far as the logs go, provided that servers go on (see Fairness).
* `CorrectIsAnswered` - a correct request whose client stays is answered whatever other clients did to their connections, or a
  log call threw in its handler and then it has no row. Other clients can be behind that too, but only through the log: a connection that
  an earlier call left behind (`RefusedForAReason`).
* `EffectIsAnswered`, `EndsOnlyForLength`, `AnnouncedIsActual` - framing, one client against
  the others, and the one way in which a request ends the process: an
  answer of 100000 bytes or more, by then recorded.
* `EveryConnectionEnds` (liveness) - a waiting connection ends, unless the accepted client
  keeps silent without closing (the reads have no timeout) or the operator does
  not answer. These two are the weaknesses of the loop, stated exactly.
* `ImplementsAtomicLog` (refinement) - with the next reader's view of database and journal as the image.
  The last insert may be taken back by a power loss even after it was answered: the deletion of the
  journal is not made durable (`pager_end_transaction` asks for no sync of the
  directory, and `winDelete` has none). The comment at `sqlite3.c:49732` calls the transaction "irrevocably
  committed" there. `AtomicLog` allows exactly this, one insert and never an older one.
* `AloneIsNotRefused` - failures, crashes and playback leave no lock behind that refuses a call made alone.
* `LostByExceptions`, `RefusedForAReason` - a throw loses its connection until the process ends. It
  does not stop the log, unless `getText` or `push_back` threw on a row: then its read lock
  makes every later insert fail, or unless the connections are used up.

Three properties state what comments say and fail, two of them comments inside the queries:

* `InterceptedWritesAreNotVotedFor`: `LIMIT 1` at `dao.cpp:193` compares only the first file
  written. t1 writes a and b, t2 reads b and commits, t1 is voted for.
* `OnlyInterceptedAreVotedAgainst`: the comments say "after our write (read)
  began"; the code counts from the first row of the transaction (`dao.cpp:199`, `231`).
* `FailedInsertsAreGone`: of a database without pages the comment at `sqlite3.c:48342` says that "the initial
  transaction that populates a new database is being rolled back" and "the journal file can be deleted". It is deleted
  although the rollback need not have reached the disk: the first insert fails while it writes, its rollback truncates the file
  and fails before the sync, the next reader finds no pages and deletes the journal, and a power loss brings
  back what the insert had written, in part, with nothing left to undo it. It takes three faults, so `journal`, with two, does not
  meet it. With a page in the database at the start TLC finds no violation, and `ImplementsAtomicLog` is proved (section 4).

**Bounds.** Every hazard of one server needs at most two transactions: one and another.
Five rows hold the longest scenario of validation: two operations of one
transaction, one of the other, its commit, the vote. Four rows and two faults hold
a cut-short commit, a restart, a commit of the other over it, and a read. Three names for
two files hold a transaction over two files and an alias.
`isolation` needs a transaction that reads what another overwrites, two files, since the queries look at one of them, and a file that both write,
so that a commit carried out a second time can undo the other's: about 424 thousand states. `commitment` needs two servers
that one transaction spans, another on one of them, and two losses, so that a commit is cut short, or fails in part, and its repetition too: about 132 thousand states. In `clients` two
connections suffice for one to spoil or delay the other; the header has
one digit, so lengths 9 and 10 are its boundary; a second start shows what survives the first process. In `journal` two
pages are the least for a database torn between pages, two writers and a reader
for every conflict of locks (three writers were checked once, with the same result), two faults for a crash in the playback after a
crash. `session` can lose all its connections.
Symmetry is used for transactions (and contents where no content is special), for calls and for connections,
never in a run with a liveness property.

**Fairness.** `FileServer` has weak fairness of `Proceed`: the one thread does not
stop between the steps of a handler. Nothing is assumed of clients, of the
operator, or of restarts, and nothing forces a crash or a failure.
`RequestLoop` has weak fairness of the loop, again the one thread, and nothing of clients or operator.
`TwoPhaseCommit` has it of each server, which takes the requests of its backlog, and of each
coordinator, which does not forget a transaction; that is an assumption about a
program outside the repository. The fairness of a server assumes more than its one thread gives: that it is started again when it has ended in a commit
(nothing in the repository does that), that no silent client and no operator holds the thread (`EveryConnectionEnds` names both), and
that log calls do not go on failing; only `AllOrNothing` depends on it. Losses are bounded and not fair.

**Deadlock** is checked for `FileServer` (the server can always drop a request), `DaoSession`
(another call can always be made) and `RollbackJournal`, where only the end of all calls
(`AllEnded`) is a place to stop. It is off in `isolation`, `commitment` and `clients`, which stop when all
transactions have ended or all clients are served.

## 4. Proofs

No theorem fixes a constant: they hold for every set of transactions, names, files, contents, clients, connections, calls and pages,
every `PathOf`, every initial directory and initial database, both modes and all bounds. They rest on the named assumptions about the constants
that each module declares (`EmptyIsData` and `ConstantsOK` for the file server; the same kind of typing for the others) and, where a theorem has a further
hypothesis, it stands in its statement. All safety properties that the passing runs check are proved, and both refinements.

`FileServerProofs`:

* `TypeCorrect`: `Spec => []TypeOK`. The only step that is not immediate is a read: its content
  comes from the row with the greatest id among the transaction's own writes, which exists
  by `MaxOfIds`.
* `DiskFollowsLog`: `Spec => []DiskIsReplay`. `DiskIsReplay` alone is not inductive: nothing
  in it says what the files of a commit in progress hold when its row is inserted. `IInv` adds
  `InstallProgress`: the writes applied so far are those with the smaller ids; their files are
  not vouched for; and where the last applied write took effect, the file holds it. A row that
  records no commit touching a file leaves the file's replay alone (`SameInstalls`,
  `SameReplay`); a row that does makes the file's replay its last installed write
  (`RecordedIsReplay`).

`HistoryProofs` goes through the actions once: `StepOfLog` shows that a step either appends
one `GoodRow` (a read returns the right content, an automatic vote passed the queries) or leaves
the log and every vouched-for file alone. The rest is about growing sequences:

* `OwnWritesAreRead` (`ReadYourWrites`) and `NoDirtyReads` (`ReadsSeeCommittedData`, with `DiskFollowsLog`).
* `ReadsStayCurrent` (`ReadStaysCurrent`): inductive with the types, because a file is
  vouched for again only by a row that the property's premise excludes.
* `OneFileIsValidated` (`SingleFileValidation`) and `VotesAreForCurrentReads`
  (`ValidatedReadsAreCurrent`): neither is inductive. Both follow from `PassedChecks`, which
  says what each recorded automatic vote implies for the rows before it; the second also
  from `ReadStaysCurrent`.
* `AnswersAreDurable` (`AnsweredMeansLogged`).

`StoreProofs`: `ServerImplementsStore`, that is `Spec => ImplementsStore`. Three things are needed.

* The mapping is well defined: the replay of a file is unique (`CommittedIs`), only a
  `global_commit` row of a transaction with a write to the file changes it (`SameCommitted`), and such a row makes it the
  transaction's last write to the file (`RecordedReplays`). A row changes a workspace only if it is
  a write, and in one place (`LastWriteAfter`, `WriteWorkspaces`).
* Reads of files that are not torn return what is committed: `DiskIsReplay` (`ReadableContent`).
* While nothing has failed, only files of the commit in progress are out of step, at most
  the one being written is open, and none when no commit is in progress: `NothingFailedYet`, with
  `IInv` the inductive invariant `SInv`. It is what lets a commit leave no torn file, and a read see none.

`StoreStep` then maps each action to a step of the store or to none. It rests also on `UnwrittenIsNoData`, of
the mapping alone.

`SessionProofs`: `SessionTypes`, `OnlyExceptionsLose` and `RefusalsHaveAReason`, for any number of connections. The
inductive invariant adds that a call's statement holds a lock exactly between its step and
the next one (`LocksAreOnRows`) and that a lost connection is not the one in use (`LostIsLost`).

`LoopProofs`: `LoopTypes`, `OthersCostNothing` (`CorrectIsAnswered`), `AnswersAreFramed` (`AnnouncedIsActual`), `NoSilentEffect`
(`EffectIsAnswered`) and `OnlyLengthEnds` (`EndsOnlyForLength`), for any clients, requests, starts and
places in the backlog. The invariant adds the shapes of the connections at each place of the loop (`Shapes`) and what the loop
relies on between its steps (`OwnBytes`): the buffer is empty whenever a header or a body is about to be read, the length is the one
this client announced, what is handed to the controller has that length, and the response is the one to this client.
That is why nobody is answered for what another client sent. `NoRowYet` says that a request has no row before its handler returns,
so a handler in which a log call threw leaves none.

`JournalProofs`: `RefusedByOthersOnly` (`AloneIsNotRefused`). The invariant `LInv` says of every place in a call which locks it
holds there and which it may hold (`Fits`); a step of one call leaves those of the others alone (`LocksFrame`). Whoever is refused
finds a lock taken or a file open, the holder is not the caller itself, and holders are in progress (`HoldersRun`).

`RecoveryProofs`: `LocksAndFiles` (`TypeOK`) and `JournalIsAtomic` (`ImplementsAtomicLog`), for any number of calls and pages and any
failing calls, ends of processes and power losses. Hypothesis: `Size(db) > 0`, the database has its first page. It is what
`dao::initDatabase` sees to at the start; without it the theorem is false, as `new_database` shows. The invariant has three parts:

* `LInv`, the locks.
* `FileTypes` and `Recoverable`, the files: a journal with the magic leads every file that a power loss may leave back to one
  database (`CanUndo`); without it the file is a database and on the disk as it is (`IsDatabase`, `Settled`); and
  what is on the disk of the journal leads to the same, or to what was there before the last insert.
* `Holds(c)`, what each call relies on at its place: it has found no hot journal, its journal is its own and holds the old contents
  of the pages it changes, new pages leave no gap, the pages written so far are the old ones with its row, a playback has
  restored all but what it still has to, a query has read the file as it is.

`FileOperation` shows that every step does one of seven things to the files; a lemma for each says what it preserves
(`SyncJournalKeeps` to `DatabaseKeeps`). The others are not disturbed because of the locks (`OthersAway`, `OthersClosed`), one case of which is
subtle: a call that plays a journal back may have taken the lock while another was about to commit, and the invariant
says that the journal has no magic then. Only `EndTransaction` changes what the next reader will make of the files (`ImageKeeps`), so each step is a
step of `AtomicLog` or none (`PagerIsSeen`, `FailIsSeen`, `PowerLossIsSeen`).

`TwoPhaseProofs`, for any servers, any programs of any transactions, any losses, failing opens and writes, premature timeouts and interrupted commits:
`TwoPhaseTypes`, `CommitsLeaveTheirWrites` (`CommittedAsAnswered`), `RetriesMendTornFiles` (`TornFilesAreWaitedFor`),
`VotesStopStaleReads` (`StaleReadsAreExplained`), `UndecidedIsPrivate` (`UndecidedStaysPrivate`), and `NobodyCommitsAlone`, which is
the part of `AllOrNothing` that needs no fairness: at every moment, no server has the commit of a transaction that is not to be
committed, and all have that of one its coordinator holds for committed. They rest on `ProgramOK` and `EmptyIsData`. The invariant:

* `Sent`: an operation is requested once, and unless its transaction is given up its request is on the way only while it is waited for. An abandoned
  request may arrive late; this says it cannot be a second copy of one that counts.
* `Planned`: a row is one that the transaction's program asks for. `Answered`: the votes and commits that a coordinator has heard of
  are in the logs, and nothing is committed that was not decided.
* `Logged`: for a transaction of which nothing was lost (`Unharmed`), the last write answered (`Done`) is its last write in the log. It is
  what makes the last write of the program the one that a commit installs (`LastWriteIsLogged`).
* `Installed`: a file that is neither torn nor missed holds the last write that a recorded commit was to put there, or another commit to it is recorded later.
  `AppliedIsDirectory` says what the loop leaves of a file for any outcomes of its writes: the content it had, the empty one, or one of these writes.
* `CommitsAwaited`: without premature timeouts a commit request is on the way only while it is waited for, so a commit cut short is repeated.
* `VotesWereChecked`: what a recorded vote implies for the rows before it. It looks at the first read only, as the queries do, hence
  the exceptions in `StaleReadsAreExplained`.
* `Provenance`: a file holds only contents that are `Public`, the initial ones or those of decided transactions, and a row only these or its own
  transaction's. `UndecidedStaysPrivate` speaks of contents, not of writers, so `UndecidedIsPrivate` has the
  hypothesis `DataTellsWriter`, that no two transactions write the same content; so it is in `isolation`.

Model-checked only: liveness (`CommitCompletes`, `AllOrNothing`, `EveryConnectionEnds`), which like `ENABLED` is beyond the prover.

## 5. Not modelled, and the plan

* **The rest of SQLite.** `sqlite3.c` and `sqlite3.h` are 194671 of the 195425 lines of the repository: a vendored
  library, of which the program uses one table, one `INSERT` and five `SELECT`s. Modelled is what the
  program's guarantees rest on: the commit and recovery path of the pager, the locks of the Windows
  layer, and the life of a statement. The parser, the code generator, the
  bytecode and its expressions, the B-tree, the write-ahead log, shared caches, virtual tables, full-text search and
  memory management would be models of another program; their part here is that the six
  statements mean what they say, and `OperationLog` states it. So the share of lines that the map covers stays
  small, whatever is modelled of the server itself, all of whose parts are.
* **The text form of messages**, logging and console output: no property depends on them.
* **Build files and the sample instance**: no behaviour.
* **Several file servers on one directory or one log**: the configuration could be written so, nothing in the code expects it. `RollbackJournal` says what becomes of the log then.

Next: what several servers promise together, as an abstract specification of atomic commitment that `TwoPhaseCommit` implements.
