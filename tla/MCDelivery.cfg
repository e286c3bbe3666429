SPECIFICATION FairSpec
CONSTANTS
  Last = 2
  StreamBatch = 2
  RetryAttempts = 1
  MaxFaults = 1
  Events <- AllEvents
  Malformed <- TriggerEvents
  Awaits <- AwaitsFirst
  MaxCopies = 2
  QueueBatch = 2
  PoisonMax = 2
  MaxReceiveCount = 3
INVARIANTS TypeOK PassedIsPublished AcknowledgedIsWritten
PROPERTIES ImplementsReplica EveryChangeSettles
CHECK_DEADLOCK FALSE
