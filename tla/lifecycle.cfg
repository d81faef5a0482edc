SPECIFICATION Spec
CONSTANTS
  a1 = a1
  w1 = w1
  w2 = w2
  m1 = m1
  m2 = m2
  NoOwner = NoOwner
  NoAttempt = NoAttempt
  NoMessage = NoMessage
  Attempt <- OneAttempt
  Worker <- Workers
  Publisher = {}
  Owner <- MCOwner
  Topic <- AllTopics
  Resource <- MCResource
  TopicsOf <- NoPublishers
  Message <- Messages
  Key <- MCKey
  KeysFor <- MCKeysFor
  EventId <- MCEventId
  InitialStates <- FreshOnly
  Targets <- AllTargets
  ReleaseFlags = {TRUE, FALSE}
  TTL = 1
  MaxTick = 1
  MaxBoot = 2
  MaxFence = 3
  MaxRevision = 12
  Limit = 1
  MaxRow = 13
INVARIANTS TypeOK JournalReplaysState ReservationCopiesAgree OneIntentPerMessageAndAttempt EveryEventIsEmitted
PROPERTIES FencedWrites IntentIsIrrevocable OutboxSpec
CHECK_DEADLOCK FALSE
