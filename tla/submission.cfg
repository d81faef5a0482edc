SPECIFICATION SubmissionSpec
CONSTANTS
  a1 = a1
  a2 = a2
  w1 = w1
  w2 = w2
  t1 = t1
  t2 = t2
  m1 = m1
  m2 = m2
  k1 = k1
  NoOwner = NoOwner
  NoAttempt = NoAttempt
  NoMessage = NoMessage
  NoTask = NoTask
  Attempt <- OneAttempt
  Worker <- Workers
  Task <- Tasks
  Publisher = {}
  Owner <- Workers
  Topic <- AllTopics
  Resource <- MCResource
  TopicsOf <- NoPublishers
  Message <- OneMessage
  CallKey <- CallKeys
  StoreKey <- MCStoreKey
  EventKey <- MCEventKey
  Key <- MCKey
  KeysFor <- AnyKey
  EventId <- MCEventId
  InitialStates <- Planned
  Targets <- AllStates
  PipelineTargets <- Path
  ReleaseFlags = {FALSE}
  ReserveFlags = {FALSE}
  TTL = 1
  MaxTick = 1
  MaxBoot = 2
  MaxFence = 2
  MaxRevision = 10
  Limit = 1
  MaxRow = 11
  MaxPermit = 2
VIEW SubmissionView
SYMMETRY Symmetry
INVARIANTS SubmissionTypeOK PostedAttemptsAreReconciled OnePostPerPermit LandedIsOnChain
CHECK_DEADLOCK FALSE
