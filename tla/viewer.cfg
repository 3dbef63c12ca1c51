SPECIFICATION FairSpec
CONSTANTS
  e1 = e1  e2 = e2  w1 = w1  w2 = w2  w3 = w3
  None = None
  Execution <- MCExecution
  Socket <- MCSocket
  MaxRetries = 1
  MaxChunks = 1
  MaxShows = 3
CHECK_DEADLOCK FALSE
INVARIANTS OneSocket OwnLines QuietAfterUnmount
PROPERTIES Settles
