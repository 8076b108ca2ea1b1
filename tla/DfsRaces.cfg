SPECIFICATION Spec
CONSTANTS
  N = 2
  a = a
  b = b
  cl1 = cl1
  cl2 = cl2
  Clients = {cl1}
  Contents = {a}
  Offset <- SameOffset
  Size <- OneChunk
  None = None
  Hole = Hole
  Patient = FALSE
  MaxPuts = 2
  MaxQueries = 1
  MaxCrashes = 0
  MaxQuits = 0
INVARIANTS SurvivesOutages HangNeedsCause

CHECK_DEADLOCK FALSE
