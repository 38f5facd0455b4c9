\* Two sockets and two opens or loads over two projects, a full pool of one.
SPECIFICATION FairSpec
CONSTANTS
  Conns = {c1, c2}
  Projects = {p1, p2}
  Attempts = {a1, a2}
  NoAttempt = NoAttempt
  MaxSeats = 1
  MaxHeadless = 1
INVARIANTS
  NoGhostEntries
  
PROPERTIES
  DisplacedOnlyByStale
  ImplementsSlotTable
  FailureIsCleanedUp
  
CHECK_DEADLOCK FALSE
