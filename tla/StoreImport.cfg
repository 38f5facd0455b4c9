\* An old store of two sessions, one cut off mid-turn and one without its log, and two restarts.
SPECIFICATION Spec
CONSTANTS
  s1 = s1
  s2 = s2
  s3 = s3
  Sids = {s1, s2, s3}
  NoSid = NoSid
  Files = {f1}
  Legacy <- OldStore
  MaxSessions = 2
  MaxSessionBytes = 3
  MaxStoreBytes = 4
  MaxLineBytes = 2
  IdleEvict = 0
  EventBytes = {1}
  FileBytes = {1}
  ManifestBytes = 1
  MaxSeats = 1
  MaxOffers = 1
  MaxDay = 0
  MaxRestarts = 2
  DiskFails = FALSE
  MarksFail = TRUE
INVARIANTS
  ImportIsComplete
PROPERTIES
  NeverResurrected
CHECK_DEADLOCK FALSE
