SPECIFICATION FairSpec
CONSTANTS
  u1 = u1  u2 = u2  u3 = u3  r1 = r1  r2 = r2  j1 = j1  j2 = j2
  Users = {u1, u2, u3}
  Requests = {r1}
  Jobs = {j1}
  Nobody = Nobody
  MaxStores = 2
  IdleMin = 2
  Longest <- Slow
INVARIANTS TypeOK OpenIsCached CleanShutdown
PROPERTIES HeldStoresOpen EveryWaiterAnswered
CHECK_DEADLOCK FALSE
