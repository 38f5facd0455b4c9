\* Two submissions, the second with files, over two sessions; two upsets.
SPECIFICATION Spec
CONSTANTS
  Sessions = {s1, s2}
  NoSession = NoSession
  Turns = {t1, t2}
  NoTurn = NoTurn
  Attaching = {t2}
  MaxChunks = 1
  MaxViewEntries = 3
  MaxUpsets = 2
INVARIANTS
  TypeOK
  
  
  
  
  SentOnce
CHECK_DEADLOCK FALSE
