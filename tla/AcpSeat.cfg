\* Two turns on one seat and two updates, of any turn, in any order.
SPECIFICATION FairSpec
CONSTANTS
  Turns = {t1, t2}
  NoTurn = NoTurn
  MaxUpdates = 2
INVARIANTS
  NothingLostAtNormalEnd
  PoisonNeedsAbort
PROPERTIES
  ImplementsSeatContract
  EveryTurnEnds
CHECK_DEADLOCK FALSE
