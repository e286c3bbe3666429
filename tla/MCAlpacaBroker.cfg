SPECIFICATION FairSpec
CONSTANTS
  x1 = x1  x2 = x2  o1 = o1  t1 = t1
  Executions = {x1, x2}
  Orders = {o1}
  OrderOf <- OneOrderTwice
  Transfers = {t1}
  Deposits = {t1}
  Scenarios <- Pairs
  NoToken = NoToken
  MaxRounds = 2
  MaxFaults = 1
  MaxAttempts = 2
  MaxEvents = 6
INVARIANTS TypeOK PlacedIsAccepted OneClosePerOpening FlagsComeBack
PROPERTIES OpenIsAnswered FailureIsShown
CHECK_DEADLOCK FALSE
