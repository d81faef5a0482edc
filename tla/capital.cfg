SPECIFICATION CapitalSpec
CONSTANTS
  a1 = a1
  a2 = a2
  p1 = p1
  p2 = p2
  owner = owner
  NoOwner = NoOwner
  NoAttempt = NoAttempt
  NoMessage = NoMessage
  NoSnapshot = NoSnapshot
  Attempt <- Attempts
  Worker <- OneOwner
  Process <- Processes
  Publisher = {}
  Owner <- OneOwner
  Topic <- AllTopics
  Resource <- MCResource
  TopicsOf <- NoPublishers
  Message = {}
  Key <- MCKey
  KeysFor <- MCKeysFor
  EventId <- MCEventId
  InitialStates = {"planned"}
  Targets = {}
  ReleaseFlags = {FALSE}
  TTL = 1
  MaxTick = 1
  MaxBoot = 1
  MaxFence = 1
  MaxRevision = 1
  Limit = 1
  MaxRow = 6
  Need <- OneEach
  Balance = {1, 2}
  Opening = 2
  MaxSlot = 2
  MaxAge = 1
VIEW CapitalView
SYMMETRY AnyOrder
INVARIANTS CapitalTypeOK WalletCoversReservations SettledCapitalIsNotReused OutcomesAreSettled
CHECK_DEADLOCK FALSE
