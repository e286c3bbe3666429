SPECIFICATION FairSpec
CONSTANTS
  Ids <- EventIds
  Symbols <- TwoSymbols
  At <- EventAt
  InitialCash = 2
  MaxFaults = 1
  Allocations <- Targets
  AssetClass <- ClassOf
  Mandates <- MandateCopies
  Scenarios <- AllScenarios
  OrderOf <- OrderOfSymbol
INVARIANTS
  TypeOK
  LotsAddUp
  PacketReachesTarget
  PacketIsFunded
  ExecutedWithinLimits
PROPERTIES
  RowsCatchUp
CHECK_DEADLOCK FALSE
