SPECIFICATION FairPaperSpec
CONSTANTS
  a1 = a1
  p1 = p1
  p2 = p2
  plan1 = plan1
  plan2 = plan2
  installed = installed
  answer1 = answer1
  answer2 = answer2
  failure = failure
  NoOwner = NoOwner
  NoAttempt = NoAttempt
  NoMessage = NoMessage
  NoIntent = NoIntent
  NoEvidence = NoEvidence
  Attempt <- OneAttempt
  Process <- Processes
  Worker <- InstalledOwner
  Owner <- InstalledOwner
  LeaseOwner = installed
  Publisher = {}
  Topic <- MCTopic
  Resource <- MCResource
  TopicsOf <- MCTopicsOf
  Message = {}
  Key <- MCKey
  KeysFor <- MCKeysFor
  EventId <- MCEventId
  InitialStates = {"planned"}
  Targets = {}
  ReleaseFlags = {}
  Plan <- OnePlan
  OwnerId <- InstalledOwner
  OwnerOf <- SharedOwner
  Evidence <- Answers
  SourceFailure = failure
  Batches <- OneItem
  Deadline = 1
  Prompt = TRUE
  MaxCycle = 2
  TTL = 2
  MaxTick = 2
  MaxBoot = 2
  MaxFence = 3
  MaxRevision = 2
  Limit = 1
  MaxRow = 2
INVARIANTS EndedCyclesAreRecorded
PROPERTIES CallsEnd
CHECK_DEADLOCK FALSE
