SPECIFICATION FairSpec
CONSTANTS
  j1 = j1  d1 = d1  p1 = p1  x1 = x1
  Project = {p1}
  Job = {j1}
  Def = {d1}
  Rule = {x1}
  Home <- MCHome
  JobOf <- MCJobOf
  None = None
  NilDef = NilDef
  Workflow <- MCWorkflow
  Request = {1, 2, 3}
  Execution = {e1}
  Outcomes = {"ok", "lost"}
  NoRow = NoRow
CHECK_DEADLOCK FALSE
INVARIANTS StepsMatchWorkflow RefusedLeavesNothing DependenciesRunFirst
INVARIANTS HistoryStays TreeIsWhole GoneStaysGone WaitersHoldNothing
PROPERTIES RequestsAreAnswered ImplementsJobStore
