SPECIFICATION FairSpec
CONSTANTS
  Messages <- PacketMessages
  Entries <- EventEntries
  EntriesOf <- PacketEntriesOf
  SkOrder <- PacketSkOrder
  PageSize = 2
  MaxReceives = 2
  MaxRetries = 3
  MaxLag = 1
  MaxFaults = 2
INVARIANTS
  TypeOK
PROPERTIES
  ImplementsAccount
  CatchesUp
CHECK_DEADLOCK FALSE
