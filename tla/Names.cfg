SPECIFICATION Spec
CONSTANTS
  t1 = t1  t2 = t2  d1 = d1  d2 = d2  a = a  a2 = a2  b = b  F = F  G = G
  Empty = Empty
  NoFilename = NoFilename
  NoFile = NoFile
  NoTransaction = NoTransaction
  Transactions = {t1, t2}
  Filenames = {a, a2, b}
  Data = {Empty, d1}
  Files = {F, G}
  PathOf <- PathOfAll
  InitialDisk <- DiskFG
  AutoMode = TRUE
  MaxLog = 4
  MaxFaults = 0
SYMMETRY Symmetry
INVARIANTS
  DiskIsReplay
  ReadYourWrites
  ValidatedReadsAreCurrent
