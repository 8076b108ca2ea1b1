SPECIFICATION Spec
CONSTANTS
  N = 4
  a = a
  b = b
  cl1 = cl1
  cl2 = cl2
  Clients = {cl1}
  Contents = {a}
  Offset <- SameOffset
  Size <- OneChunk
  None = None
  Hole = Hole
  Patient = TRUE
  MaxPuts = 1
  MaxQueries = 1
  MaxCrashes = 2
  MaxQuits = 0
INVARIANTS TypeOK GetReturnsThePut IncompleteMeansOutage ListedPartsExist Homed

CHECK_DEADLOCK FALSE
