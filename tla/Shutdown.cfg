\* Two sockets and two opens or loads.
SPECIFICATION FairSpec
CONSTANTS
  Conns = {c1, c2}
  Attempts = {a1, a2}
  NoAttempt = NoAttempt
INVARIANTS
  CleanExitIsHonest
PROPERTIES
  EveryShutdownEnds
CHECK_DEADLOCK FALSE
