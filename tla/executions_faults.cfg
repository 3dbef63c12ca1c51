SPECIFICATION Spec
CONSTANTS
  e1 = e1  e2 = e2  p1 = p1  p2 = p2  c1 = c1  c2 = c2
  NoConsumer = NoConsumer
  NoExecution = NoExecution
  Execution = {e1}
  Process <- MCProcess
  Consumer <- MCConsumer
  Host <- MCHost
  NumSteps = 3
  OnFailure <- OneStop
  DispatchFields <- AgreedFields
  GroupExists = TRUE
  UpsertFits = TRUE
  Happens = {"abort", "crash", "signal", "disconnect", "io_error"}
SYMMETRY ProcessSymmetry
VIEW UnlessOverdue
INVARIANTS AtMostOneExecutor SuccessIsEarned FailureIsExplained AckedMeansSettled
           NoEntryVanishes AcceptedIsKept
PROPERTIES AckedIsLeftAlone
