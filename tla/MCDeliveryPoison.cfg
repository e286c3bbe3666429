\* No fault, no malformed event: an event overtakes the one it waits for.
SPECIFICATION Spec
CONSTANTS
  Last = 2
  StreamBatch = 2
  RetryAttempts = 1
  MaxFaults = 0
  Events <- Changes
  Malformed = {}
  Awaits <- ChangesAwaitFirst
  MaxCopies = 2
  QueueBatch = 2
  PoisonMax = 2
  MaxReceiveCount = 3
INVARIANT FailureIsKept
CHECK_DEADLOCK FALSE
