SPECIFICATION Spec
CONSTANTS
  Handles = {h1, h2, h3}
  NoHandle = NoHandle
  MaxRows = 2
  MaxFaults = 4
SYMMETRY Symmetry
INVARIANTS
  TypeOK
  LostByExceptions
PROPERTIES
  RefusedForAReason
