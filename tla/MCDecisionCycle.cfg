\* One answer of the user, one fault: safety and liveness.
CONSTANTS
  Clicks = {phone}
  MaxFaults = 1
SPECIFICATION FairSpec
INVARIANTS TypeOK OrdersAuthorised StatusJustified
PROPERTIES ImplementsDecision
PROPERTIES ReadModelSettles AnswerRecorded GenerationEnds
CHECK_DEADLOCK FALSE
