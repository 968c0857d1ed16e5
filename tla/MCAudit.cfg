SPECIFICATION AuditSpec
CONSTANTS
  w1 = w1
  w2 = w2
  w3 = w3
  w4 = w4
  Writers = {w1, w2, w3, w4}
  Mixes <- MCMixes
  MaxRetries = 2
  NoId = NoId
INVARIANTS
  StateChangesAreRecorded
  OnlyRefusalsCollide
PROPERTIES
  AuditTrailIsALog
  EveryWriterEnds
