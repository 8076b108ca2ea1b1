SPECIFICATION Spec
CONSTANTS
  None = None
  Threads = {t1, t2}
  Pages = {p, q}
  Addresses = {a1, a2, a3}
  Length = 2
  Timeout = 1
  MaxFds = 6
  MaxClock = 1
  MaxRequests = 3
INVARIANTS TypeOK ListIsSound YoungestFirst SendsOneVersion SendsAllOfTheFile HitIsYoung FdsAreAccountedFor
PROPERTIES CrashNeedsCrowd EveryRequestEnds
CHECK_DEADLOCK FALSE
