SPECIFICATION FairSpec
CONSTANTS
  s1 = s1  s2 = s2  t1 = t1  t2 = t2  d0 = d0  d1 = d1  d2 = d2  a = a  b = b
  Empty = Empty
  NoFilename = NoFilename
  NoTransaction = NoTransaction
  Transactions = {t1, t2}
  Servers = {s1, s2}
  Filenames = {a}
  Data = {Empty, d0, d1, d2}
  InitialContent = d0
  Program <- Spanning
  MaxLosses = 2
  MaxTimeouts = 0
CHECK_DEADLOCK FALSE
INVARIANTS
  TypeOK
  CommittedAsAnswered
  TornFilesAreWaitedFor
PROPERTIES
  AllOrNothing
