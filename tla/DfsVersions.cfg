SPECIFICATION Spec
CONSTANTS
  N = 2
  a = a
  b = b
  cl1 = cl1
  cl2 = cl2
  Clients = {cl1}
  Contents = {a, b}
  Offset <- SameOffset
  Size <- Lengths
  None = None
  Hole = Hole
  Patient = TRUE
  MaxPuts = 2
  MaxQueries = 1
  MaxCrashes = 1
  MaxQuits = 1
INVARIANTS SurvivesOutages GetReturnsThePut
PROPERTIES PutSettles CommandReturns
CHECK_DEADLOCK FALSE
