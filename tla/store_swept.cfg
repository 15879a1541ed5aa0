SPECIFICATION Spec
CONSTANTS
  u1 = u1  u2 = u2  u3 = u3  r1 = r1  r2 = r2  j1 = j1  j2 = j2
  Users = {u1}
  Requests = {r1, r2}
  Jobs = {j1}
  Nobody = Nobody
  MaxStores = 2
  IdleMin = 2
  Longest <- Slow
INVARIANT JobsKeepTheirStore
CHECK_DEADLOCK FALSE
