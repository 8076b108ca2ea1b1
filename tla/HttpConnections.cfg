SPECIFICATION Spec
CONSTANTS
  Conns = {c1, c2}
  Requests <- Asked
  Pieces <- Lengths
  NoExtension = {"readme"}
  Unsized = {"dir.d"}
  Tagged = {"page.html"}
  Timeout = 1
  Ticks = 2
  MaxFds = 2
  MaxRequests = 2
  MaxBlocked = 1
INVARIANTS TypeOK FramesMatch LostNeedsCause FdsAreAccountedFor
PROPERTIES CutsOnlyTheIdle ConnectionsEnd
CHECK_DEADLOCK FALSE
