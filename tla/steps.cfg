SPECIFICATION FairSpec
CONSTANTS
  r1 = r1  r2 = r2  s1 = s1  s2 = s2  p1 = p1  p2 = p2  p3 = p3
  NoPid = NoPid
  Runner = {r1}
  Step <- MCStep
  Pid <- ThreePids
  MaxPipe = 1
  Char <- MCChar
  Words <- MCWords
  MaxWords = 2
  Does = {"write", "daemon", "inherit", "ignore_term"}
INVARIANTS OutputIsLogged ResultIsHonest ScriptLivesWithChild CommandsAreSplit
PROPERTIES DeadlineEndsStep
