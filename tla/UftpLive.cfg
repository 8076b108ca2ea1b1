SPECIFICATION Spec
CONSTANTS
  a = a
  b = b
  z = z
  Contents = {a, b}
  Packets <- Lengths
  None = None
  Timely = TRUE
  Buffered = 2
  MaxPuts = 2
  MaxFaults = 3
  MaxQuits = 0
  MaxStops = 0
  MaxFlight = 3
PROPERTIES PutIsStored
CHECK_DEADLOCK FALSE
