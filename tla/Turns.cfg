\* Two stored sessions, two seats, two turns of text and one with attachments.
SPECIFICATION FairSpec
CONSTANTS
  Sessions = {s1, s2}
  s1 = s1
  s2 = s2
  NoSession = NoSession
  Turns = {t1, t2, t3}
  t1 = t1
  t2 = t2
  t3 = t3
  NoTurn = NoTurn
  Attaching = {t3}
  MaxOpens = 2
  MaxChunks = 1
INVARIANTS
  OneTerminalEvent
  EveryStartEnds
  ViewerSeesTextEnd
  IdleIsQuiet

  
CHECK_DEADLOCK FALSE
