SPECIFICATION Spec
CONSTANTS
  i1 = i1  i2 = i2  q = q
  Calls = {i1, q}
  Writers = {i1}
  PageCount = 1
  None = None
  MaxFaults = 3
INVARIANT
  FailedInsertsAreGone
