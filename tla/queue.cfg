SPECIFICATION FairSpec
INVARIANTS
  TypeOK
  NoncesFollowHandOver
  BroadcastAtMostOnce
  GivesUpOnlyUnderContention
  NoSelfContention
PROPERTIES
  ImplementsSerialExecutor
  EveryHandOverSettles
CONSTANTS
  approve = approve
  create = create
  refund = refund
  creator = creator
  refunder = refunder
  NoOp = NoOp
  Foreign = Foreign
  Ops <- MCOps
  Queues <- MCQueues
  QueueOf <- MCQueueOf
  RetryLimit = 3
  MaxForeign = 4
  MaxFaults = 1
CHECK_DEADLOCK FALSE
