SPECIFICATION Spec
CONSTANTS
  Threads = {t1, t2}
  a = a
  b = b
  Names = {a, b}
  Halves = {1, 2}
  None = None
  Requests <- Asked
  Width <- Widths
  Buffer = 4
  MaxHeader = 2
  Blacklist <- Lines
  Zone <- FirstZone
  Moves <- LaterMoves
  MaxRequests = 3
  MaxChanges = 1
INVARIANTS TypeOK BlacklistHolds FirstLineForEver OnlyWhatWasResolved
PROPERTIES EveryRequestEnds
CHECK_DEADLOCK FALSE
