SPECIFICATION Spec
CONSTANTS
  N = 4
  a = a
  b = b
  cl1 = cl1
  cl2 = cl2
  Clients = {cl1}
  Contents = {a, b}
  Offset <- TwoOffsets
  Size <- OneChunk
  None = None
  Hole = Hole
  Patient = TRUE
  MaxPuts = 2
  MaxQueries = 1
  MaxCrashes = 0
  MaxQuits = 0
INVARIANTS GetReturnsOneVersion

CHECK_DEADLOCK FALSE
