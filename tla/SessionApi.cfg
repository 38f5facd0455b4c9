\* A page holds two small records or a large one; three pages end a read of four records.
SPECIFICATION Spec
CONSTANTS
  MaxSeq = 4
  PageSize = 2
  MaxPageBytes = 2
  MaxPages = 3
  Queries = {"", "q"}
  MaxAsks = 2
  Files = {"f1", "f2", "f3"}
  MaxFiles = 2
  Start = Start
  Cursors = {Start, 0, 4}
INVARIANTS
  TypeOK
  WholeReadIsWhole
  CleanLogIsReadWhole
  ListIsCurrent
  BatchIsAllOrNothing
PROPERTIES
  EveryHookSettles
CHECK_DEADLOCK FALSE
