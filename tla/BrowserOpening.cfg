\* One submission, made while the socket is still connecting, is enough.
SPECIFICATION FairSpec
CONSTANTS
  Sessions = {s1}
  NoSession = NoSession
  Turns = {t1}
  NoTurn = NoTurn
  Attaching = {}
  MaxChunks = 1
  MaxViewEntries = 3
  MaxUpsets = 1
PROPERTIES
  OpeningEnds
CHECK_DEADLOCK FALSE
