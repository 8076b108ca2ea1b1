SPECIFICATION Spec
CONSTANTS
  a = a
  b = b
  z = z
  Contents = {a, b, z}
  Packets <- Lengths
  None = None
  Timely = FALSE
  Buffered = 2
  MaxPuts = 3
  MaxFaults = 2
  MaxQuits = 1
  MaxStops = 1
  MaxFlight = 4
INVARIANTS TypeOK DoneMeansStored NeverAhead LeftoversNeedQuit
PROPERTIES KeepsPromise
CHECK_DEADLOCK FALSE
