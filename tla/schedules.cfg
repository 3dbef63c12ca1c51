SPECIFICATION Spec
CONSTANTS
  i1 = i1  i2 = i2  r1 = r1  r2 = r2  j1 = j1  j2 = j2  x1 = x1  x2 = x2
  NoRow = NoRow
  Instance = {i1}
  Request = {r1, r2}
  Job <- MCJob
  Expr <- MCExpr
  Outcomes = {"ok", "lost"}
  JobOps = {"delete", "deactivate"}
  MaxId = 2
  MaxRuns = 1
SYMMETRY MCSymmetry
INVARIANTS EntriesMatch RunsAreOwn
