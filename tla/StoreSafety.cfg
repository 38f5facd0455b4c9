\* Three sessions over a cap of two, one file, one restart, no old store.
SPECIFICATION Spec
CONSTANTS
  s1 = s1
  s2 = s2
  s3 = s3
  Sids = {s1, s2, s3}
  NoSid = NoSid
  Files = {f1}
  Legacy <- NoLegacy
  MaxSessions = 2
  MaxSessionBytes = 2
  MaxStoreBytes = 4
  MaxLineBytes = 2
  IdleEvict = 0
  EventBytes = {1, 3}
  FileBytes = {1}
  ManifestBytes = 1
  MaxSeats = 2
  MaxOffers = 2
  MaxDay = 1
  MaxRestarts = 1
  DiskFails = TRUE
  MarksFail = FALSE
SYMMETRY Symmetry
INVARIANTS
  BudgetIsExact
  RowsAgreeWithLog
  

  
CHECK_DEADLOCK FALSE
