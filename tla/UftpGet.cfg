SPECIFICATION Spec
CONSTANTS
  a = a
  b = b
  z = z
  Gets = {a, b, z}
  Deletes = {b}
  Packets <- Lengths
  Listing = 1
  ResponseFile = response
  Ls = ls
  None = none
  MaxCommands = 3
  MaxFaults = 3
  MaxEarly = 2
  MaxStops = 1
  MaxFlight = 4
INVARIANTS TypeOK DeliversTheFile
PROPERTIES CommandsReturn
CHECK_DEADLOCK FALSE
