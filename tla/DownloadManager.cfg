SPECIFICATION FairSpec
CONSTANTS
  Resources = {r1, r2}
  Requests = {t1, t2}
  Worker = Worker
  Container = Container
  Nobody = Nobody
  Torn = Torn
  MaxRequests = 3
  MaxFaults = 2
  MaxCrashes = 1
INVARIANTS Consistent NothingLost
PROPERTIES RequestedArrives LockReleased
CHECK_DEADLOCK FALSE
