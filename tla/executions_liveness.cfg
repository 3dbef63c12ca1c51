SPECIFICATION FairSpec
CONSTANTS
  e1 = e1  e2 = e2  p1 = p1  p2 = p2  c1 = c1  c2 = c2
  NoConsumer = NoConsumer
  NoExecution = NoExecution
  Execution <- MCExecution
  Process <- MCProcess
  Consumer <- MCConsumer
  Host <- MCHost
  NumSteps = 0
  OnFailure <- MCOnFailure
  DispatchFields <- AgreedFields
  GroupExists = TRUE
  UpsertFits = TRUE
  Happens = {"crash"}
PROPERTIES ImplementsWorkQueue EveryDispatchSettles StaleIsRecovered
