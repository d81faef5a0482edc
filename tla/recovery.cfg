SPECIFICATION RecoverySpec
CONSTANTS
  wh = wh
  e1 = e1
  e2 = e2
  e3 = e3
  e4 = e4
  c1 = c1
  c2 = c2
  w1 = w1
  NoSlot = NoSlot
  NoWorker = NoWorker
  NoEvent = NoEvent
  Webhook <- OneWebhook
  Event <- Events
  WebhookOf <- AllOf
  SlotOf <- Slots
  TransactionOf <- Transactions
  Delivery <- Deliveries
  Caller <- Callers
  Worker <- OneId
  MaxSlotGap = 1
  LeaseDuration = 1
  RetryDelay = 1
  MaxAttempts = 2
  MaxSlot = 5
  MaxTick = 1
  MaxBoot = 2
  MaxFence = 3
VIEW RecoveryView
SYMMETRY AnyOrder
INVARIANTS RecoveryTypeOK CheckedHandoffsFollowTheCursor OneOutcomePerRow AdmissionsMatchHandoffs ClaimsAreExclusive
CHECK_DEADLOCK FALSE
