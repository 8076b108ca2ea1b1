SPECIFICATION Spec
CONSTANTS
  Threads = {t1, t2}
  a = a
  b = b
  Names = {a, b}
  Halves = {1, 2}
  None = None
  Requests <- Asked
  Width <- Widths
  Buffer = 4
  MaxHeader = 1
  Blacklist <- Lines
  Zone <- FirstZone
  Moves <- LaterMoves
  MaxRequests = 2
  MaxChanges = 1
INVARIANT CachedIsAResult
CHECK_DEADLOCK FALSE
