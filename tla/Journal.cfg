SPECIFICATION Spec
CONSTANTS
  i1 = i1  i2 = i2  q = q
  Calls = {i1, i2, q}
  Writers = {i1, i2}
  PageCount = 2
  None = None
  MaxFaults = 2
SYMMETRY Symmetry
INVARIANTS
  TypeOK
PROPERTIES
  ImplementsAtomicLog
  AloneIsNotRefused
