SPECIFICATION Spec
CONSTANTS
  p1 = p1
  p2 = p2
  a1 = a1
  a2 = a2
  NoOwner = NoOwner
  NoAttempt = NoAttempt
  NoMessage = NoMessage
  Attempt <- MCAttempt
  Worker = {}
  Publisher <- MCPublisher
  Owner <- MCPublisher
  Topic <- AllTopics
  Resource <- MCResource
  TopicsOf <- ServeEvents
  Message = {}
  Key <- MCKey
  KeysFor <- MCKeysFor
  EventId <- MCEventId
  InitialStates = {"planned"}
  Targets = {}
  ReleaseFlags = {}
  TTL = 2
  MaxTick = 3
  MaxBoot = 2
  MaxFence = 3
  MaxRevision = 0
  Limit = 1
  MaxRow = 2
VIEW OutboxView
SYMMETRY Symmetry
INVARIANTS OutboxTypeOK EventsSurviveUntilPublished
PROPERTIES LiveClaimsAreKept ImplementsDelivery
CHECK_DEADLOCK FALSE
