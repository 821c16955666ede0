SPECIFICATION FairSpec
CONSTANTS
  c1 = c1  c2 = c2  c3 = c3
  NoClient = NoClient
  Clients = {c1, c2}
  Plans <- AllPlans
  HEADER_LENGTH = 1
  MaxBacklog = 1
  MaxLines = 1
  MaxStarts = 2
CHECK_DEADLOCK FALSE
INVARIANTS
  TypeOK
  CorrectIsAnswered
  AnnouncedIsActual
  EffectIsAnswered
PROPERTIES
  EndsOnlyForLength
  EveryConnectionEnds
