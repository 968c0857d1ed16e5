SPECIFICATION FairDeliverySpec
CONSTANTS
  child1 = child1
  child2 = child2
  reader1 = reader1
  None = None
  Clients = {child1, child2, reader1}
  Children = {child1, child2}
  Readers = {reader1}
  StartModes = {"passthrough"}
  MethodOptions = {"*"}
  MaxModeChanges = 1
  MaxFaults = 1
CHECK_DEADLOCK FALSE
INVARIANTS
  OneSendPerLockSession
  StatusTellsTheTruth
  ForwardedReachedNode
PROPERTIES
  DeliveryEnds
