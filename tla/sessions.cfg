SPECIFICATION Spec
CONSTANTS
  u1 = u1  u2 = u2  p1 = p1  alice = alice
  User = {u1, u2}
  first = u1
  NameOf <- MCNameOf
  Password = {p1}
  Patch <- MCPatch
  Token = {t1, t2}
  Request = {r1, r2}
  NoRow = NoRow
  None = None
SYMMETRY MCSymmetry
CHECK_DEADLOCK FALSE
INVARIANTS TypeOK UpdatesHold RefreshedOnce HandedTokensWork
PROPERTY DisabledStaysOut
