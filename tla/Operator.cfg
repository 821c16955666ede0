SPECIFICATION FairSpec
CONSTANTS
  t1 = t1  t2 = t2  d1 = d1  d2 = d2  a = a  b = b  F = F  G = G
  Empty = Empty
  NoFilename = NoFilename
  NoFile = NoFile
  Unwritten = Unwritten
  NoTransaction = NoTransaction
  Transactions = {t1, t2}
  Filenames = {a, b}
  Data = {Empty, d1}
  Files = {F, G}
  PathOf <- PathOfFiles
  InitialDisk <- DiskFG
  AutoMode = FALSE
  MaxLog = 3
  MaxFaults = 1
INVARIANTS
  DiskIsReplay
  AnsweredMeansLogged
PROPERTIES
  ImplementsStore
  CommitCompletes
