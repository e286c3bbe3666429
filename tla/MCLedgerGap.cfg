SPECIFICATION FairSpec
CONSTANTS
  Messages <- EventMessages
  Entries <- EventEntries
  EntriesOf <- EventEntriesOf
  SkOrder <- EventSkOrder
  PageSize = 2
  MaxReceives = 1
  MaxRetries = 3
  MaxLag = 0
  MaxFaults = 0
PROPERTIES
  EveryEntryReduced
CHECK_DEADLOCK FALSE
