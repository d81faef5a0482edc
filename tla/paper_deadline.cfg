SPECIFICATION PaperSpec
CONSTANTS
  a1 = a1
  p1 = p1
  p2 = p2
  plan1 = plan1
  plan2 = plan2
  installed = installed
  answer1 = answer1
  answer2 = answer2
  failure = failure
  NoOwner = NoOwner
  NoAttempt = NoAttempt
  NoMessage = NoMessage
  NoIntent = NoIntent
  NoEvidence = NoEvidence
  Attempt <- OneAttempt
  Process <- OneProcess
  Worker <- InstalledOwner
  Owner <- InstalledOwner
  LeaseOwner = installed
  Publisher = {}
  Topic <- MCTopic
  Resource <- MCResource
  TopicsOf <- MCTopicsOf
  Message = {}
  Key <- MCKey
  KeysFor <- MCKeysFor
  EventId <- MCEventId
  InitialStates = {"planned"}
  Targets = {}
  ReleaseFlags = {}
  Plan <- Plans
  OwnerId <- InstalledOwner
  OwnerOf <- SharedOwner
  Evidence <- OneAnswer
  SourceFailure = failure
  Batches <- OneItem
  Deadline = 1
  Prompt = TRUE
  MaxCycle = 2
  TTL = 1
  MaxTick = 4
  MaxBoot = 2
  MaxFence = 3
  MaxRevision = 2
  Limit = 1
  MaxRow = 2
INVARIANTS EndedCyclesAreRecorded
CHECK_DEADLOCK FALSE
