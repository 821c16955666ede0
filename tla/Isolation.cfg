SPECIFICATION Spec
CONSTANTS
  s1 = s1  s2 = s2  t1 = t1  t2 = t2  d0 = d0  d1 = d1  d2 = d2  a = a  b = b
  Empty = Empty
  NoFilename = NoFilename
  NoTransaction = NoTransaction
  Transactions = {t1, t2}
  Servers = {s1}
  Filenames = {a, b}
  Data = {Empty, d0, d1, d2}
  InitialContent = d0
  Program <- Conflicting
  MaxLosses = 1
  MaxTimeouts = 1
CHECK_DEADLOCK FALSE
INVARIANTS
  StaleReadsAreExplained
  CommittedAsAnswered
  UndecidedStaysPrivate
