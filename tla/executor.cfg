SPECIFICATION FairExecutorSpec
CONSTANTS
  Cap = 1
  MaxPayload = 4
  MaxOutput = 2
INVARIANTS
  OutputWhole
PROPERTIES
  Answers
CHECK_DEADLOCK FALSE
